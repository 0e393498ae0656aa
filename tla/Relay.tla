------------------------------- MODULE Relay -------------------------------
(***************************************************************************)
(* What a sidecar promises for the calls it relays, whatever HTTP/2 does   *)
(* to their frames: the service gets a request once, whole, and after the  *)
(* client has sent all of it; the client gets at most one answer, which is *)
(* the one the service gave to this call.  A client may give up.           *)
(***************************************************************************)
CONSTANT Call

VARIABLES
  request,   \* of each call: "none", "asked" by the client, "delivered"
  reply,     \* the answer of the service: "none", "ok", "error"
  seen       \* the answer the client has got

relayVars == <<request, reply, seen>>

Answer == {"ok", "error"}

Init ==
  /\ request = [k \in Call |-> "none"]
  /\ reply = [k \in Call |-> "none"]
  /\ seen = [k \in Call |-> "none"]

\* A request may be delivered, and an answer passed on, at once or later.
Ask(k) ==
  /\ request[k] = "none"
  /\ request' \in {[request EXCEPT ![k] = "asked"],
                   [request EXCEPT ![k] = "delivered"]}
  /\ UNCHANGED <<reply, seen>>

Deliver(k) ==
  /\ request[k] = "asked"
  /\ request' = [request EXCEPT ![k] = "delivered"]
  /\ UNCHANGED <<reply, seen>>

Reply(k, v) ==
  /\ request[k] = "delivered" /\ reply[k] = "none"
  /\ reply' = [reply EXCEPT ![k] = v]
  /\ seen' \in {seen, [seen EXCEPT ![k] = v]}
  /\ UNCHANGED request

Return(k) ==
  /\ reply[k] # "none" /\ seen[k] = "none"
  /\ seen' = [seen EXCEPT ![k] = reply[k]]
  /\ UNCHANGED <<request, reply>>

Next ==
  \E k \in Call : \/ Ask(k)
                  \/ Deliver(k)
                  \/ \E v \in Answer : Reply(k, v)
                  \/ Return(k)

Spec == Init /\ [][Next]_relayVars
=============================================================================
