----------------------------- MODULE MCRlpMesh -----------------------------
(* Instances of RlpMesh for TLC: a parent sidecar with two downstream        *)
(* services.                                                                 *)
EXTENDS RlpMesh

CONSTANTS r1, r2, r3, d1, d2

\* An endpoint of each fan-out kind, a request for each.
MixedServiceOf == [r \in Req |-> CASE r = r1 -> 0 [] r = r2 -> 1 [] OTHER -> 2]
MixedFanout == [e \in Endpoint |-> CASE e = 0 -> "sequential"
                                     [] e = 1 -> "pfanout"
                                     [] OTHER -> "dfanout"]

\* One endpoint with dynamic fan-out.
OneService == [r \in Req |-> 0]
Dfanout == [e \in Endpoint |-> "dfanout"]

\* The lowest priority has weight 1, so the round robin state stays small.
LowestPriority == [r \in Req |-> 2]
BothDownstreams == [e \in Endpoint |-> {d1, d2}]
=============================================================================
