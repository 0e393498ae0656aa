------------------------------- MODULE Worker -------------------------------
(***************************************************************************)
(* What an ingress worker promises its clients, whatever becomes of        *)
(* descriptors, Credit Requests and buffers: requests go to the frontend   *)
(* in the order of their arrival, one is turned away only while others     *)
(* wait, and everyone gets one answer: the response to the request that    *)
(* was forwarded, or a 503, which is written by the next event that        *)
(* forwards or answers anything.  Ingress and EventLoop implement it.      *)
(***************************************************************************)
EXTENDS Sequences

CONSTANT Client

VARIABLES
  phase,   \* of each client: "closed", "idle", or where its request is:
           \* "queued", "dropped" (its 503 is not written yet), "sent"
  line     \* the clients whose requests are queued, oldest first

workerVars == <<phase, line>>

Init == phase = [c \in Client |-> "closed"] /\ line = <<>>

Become(c, old, new) ==
  /\ phase[c] = old
  /\ phase' = [phase EXCEPT ![c] = new]

Connect(c) == Become(c, "closed", "idle") /\ UNCHANGED line
Close(c) == Become(c, "idle", "closed") /\ UNCHANGED line

Admit(c) == Become(c, "idle", "queued") /\ line' = Append(line, c)
Reject(c) == Become(c, "idle", "dropped") /\ line # <<>> /\ UNCHANGED line

\* All 503s are written together with what the event is about.
Flushed(ph) == [c \in Client |-> IF ph[c] = "dropped" THEN "idle" ELSE ph[c]]

Forward ==
  /\ line # <<>>
  /\ phase' = Flushed([phase EXCEPT ![Head(line)] = "sent"])
  /\ line' = Tail(line)

Answer(c) ==
  /\ phase[c] = "sent"
  /\ phase' = Flushed([phase EXCEPT ![c] = "idle"])
  /\ UNCHANGED line

Next ==
  \/ \E c \in Client : Connect(c) \/ Close(c) \/ Admit(c) \/ Reject(c) \/ Answer(c)
  \/ Forward

Spec == Init /\ [][Next]_workerVars
=============================================================================
