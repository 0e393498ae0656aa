----------------------------- MODULE MCSidecar -----------------------------
(* Instances of Sidecar for TLC.                                            *)
EXTENDS Sidecar

CONSTANTS r1, r2, r3, r4, r5, d1, d2

\* Leaf sidecars.
LeafServiceOf == [r \in Req |-> IF r \in {r4, r5} THEN 1 ELSE 0]
LeafPriorityOf == [r \in Req |-> CASE r \in {r1, r4} -> 0
                                   [] r \in {r2, r5} -> 1
                                   [] OTHER -> 2]
LeafDownstreams == [e \in Endpoint |-> {}]
LeafFanout == [e \in Endpoint |-> "sequential"]
OneService == [r \in Req |-> 0]
TwoPriorities == [r \in Req |-> IF r = r1 THEN 1 ELSE 0]

\* An intermediate sidecar with an endpoint of each fan-out kind.
MixedServiceOf == [r \in Req |-> CASE r = r1 -> 0
                                   [] r \in {r2, r3} -> 1
                                   [] OTHER -> 2]
MixedFanout == [e \in Endpoint |-> CASE e = 0 -> "sequential"
                                     [] e = 1 -> "pfanout"
                                     [] OTHER -> "dfanout"]
BothDownstreams == [e \in Endpoint |-> {d1, d2}]
LowestPriority == [r \in Req |-> 2]   \* weight 1: few round robin states

MinusOne == -1
=============================================================================
