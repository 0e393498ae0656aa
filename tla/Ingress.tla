------------------------------ MODULE Ingress ------------------------------
(***************************************************************************)
(* One worker of the ingress sidecar (Ingress in ingress.cc, the ingress_* *)
(* functions of state.cc) between external HTTP/1 clients and the frontend *)
(* sidecar.  Workers share nothing but the counter of local ids, so one is *)
(* modelled.  Each action is one completion event of its event loop:       *)
(*                                                                         *)
(*   ACCEPT, CANCEL            AcceptConnection, CloseConnection           *)
(*   READ from a client        ClientRequest: Ingress::enqueue, then       *)
(*                             ingress_pre_credit                          *)
(*   RCVMSG from the frontend  RecvCreditGrant: ingress_post_credit        *)
(*   READ from the frontend    RecvResponse: forward, ingress_pre_credit   *)
(*                                                                         *)
(* An HTTP/1 connection has one request at a time, so a request is         *)
(* identified by the client connection it came from.  Credit Requests and  *)
(* grants are neither lost nor duplicated (the protocol has no retries).   *)
(***************************************************************************)
EXTENDS Integers, Sequences, FiniteSets, Functions

CONSTANTS
  Client,       \* the client connections
  PoolSize,     \* config.ingress_pool_connections
  InitialCap,   \* ingress_size_cap to start from: 10, or lower after decreases
  MaxCap,       \* bound: highest cap considered
  MaxIncrease,  \* largest step of the cap, ceil(config.aimd_adj_i)
  AdjNum,       \* config.aimd_adj_d is the fraction AdjNum / AdjDen
  AdjDen,
  Impatient     \* clients that may close before they are answered

ASSUME IngressAssumption ==
  /\ IsFiniteSet(Client)
  /\ PoolSize \in Nat
  /\ MaxCap \in Nat \ {0}
  /\ InitialCap \in 1 .. MaxCap
  /\ MaxIncrease \in Nat
  /\ AdjNum \in Nat \ {0} /\ AdjDen \in Nat \ {0} /\ AdjNum >= AdjDen
  /\ Impatient \subseteq Client

VARIABLES
  queue,                      \* Ingress::queue
  ingress_size_cap,
  has_credit_request_on_fly,
  rpc_queue,                  \* rpc_queue EGRESS UPSTREAM: 503s to be written
  status,                     \* where the request of each client is
  credit_requests,            \* Credit Requests the frontend has not granted
  aborted                     \* LOG(FATAL) was reached: the process is gone

ingressVars == <<queue, ingress_size_cap, has_credit_request_on_fly, rpc_queue,
                 status, credit_requests, aborted>>

Status == { "closed",   \* no connection
            "idle",     \* connected, no request
            "queued",   \* in the deque
            "dropped",  \* its 503 is in rpc_queue
            "sent" }    \* forwarded on a connection of the frontend pool

\* LOG(FATAL) ends the behaviour: what else such a step does is immaterial.
Init ==
  /\ queue = <<>>
  /\ ingress_size_cap = InitialCap
  /\ has_credit_request_on_fly = FALSE
  /\ rpc_queue = <<>>
  /\ status = [c \in Client |-> "closed"]
  /\ credit_requests = {}
  /\ aborted = FALSE

-----------------------------------------------------------------------------
(* Admission *)

CeilDiv(a, num, den) == (a * den + num - 1) \div num

\* Mutant of NewCaps: the lowered cap is rounded down, to zero at last.
NewCapsFloor(cap) ==
  ((cap * AdjDen) \div AdjNum .. cap + MaxIncrease) \cap (0 .. MaxCap)

\* update_ingress_cap, whichever branch the latency error and the occupancy
\* select: cap unchanged, raised by a step, or lowered at most to the ceiling
\* of cap / aimd_adj_d; at least 1 in any case.
NewCaps(cap) ==
  (CeilDiv(cap, AdjNum, AdjDen) .. cap + MaxIncrease) \cap (1 .. MaxCap)

\* Mutant of IngressPreCredit: one Credit Request per event, for the tail.
IngressPreCreditEager(q, on_fly, requests) ==
  /\ has_credit_request_on_fly' = (on_fly \/ q # <<>>)
  /\ credit_requests' = IF q # <<>> THEN requests \cup {q[Len(q)]}
                                    ELSE requests

\* send_credit_request_checker and ingress_pre_credit, on deque q.
IngressPreCredit(q, on_fly, requests) ==
  /\ has_credit_request_on_fly' = (on_fly \/ q # <<>>)
  /\ credit_requests' = IF q # <<>> /\ ~on_fly THEN requests \cup {Head(q)}
                                               ELSE requests

\* Mutants of Enqueue: the oldest request is dropped (the documented head-drop,
\* while the Credit Request on the way was sent for it); a dropped request is
\* queued all the same.
EnqueueHeadDrop(c) ==
  IF Len(queue) >= ingress_size_cap
  THEN /\ rpc_queue' = Append(rpc_queue, Head(queue))
       /\ queue' = Append(Tail(queue), c)
       /\ status' = [status EXCEPT ![Head(queue)] = "dropped", ![c] = "queued"]
  ELSE /\ queue' = Append(queue, c)
       /\ status' = [status EXCEPT ![c] = "queued"]
       /\ UNCHANGED rpc_queue
EnqueueDropped(c) ==
  /\ queue' = Append(queue, c)
  /\ IF Len(queue) >= ingress_size_cap
     THEN /\ rpc_queue' = Append(rpc_queue, c)
          /\ status' = [status EXCEPT ![c] = "dropped"]
     ELSE /\ status' = [status EXCEPT ![c] = "queued"]
          /\ UNCHANGED rpc_queue

\* drop_rpc: the request is answered by a 503, which waits in rpc_queue.
DropRpc(c) ==
  /\ rpc_queue' = Append(rpc_queue, c)
  /\ status' = [status EXCEPT ![c] = "dropped"]
  /\ UNCHANGED queue

\* Ingress::enqueue: at the cap the arriving request is dropped.
Enqueue(c) ==
  IF Len(queue) >= ingress_size_cap
  THEN DropRpc(c)
  ELSE /\ queue' = Append(queue, c)
       /\ status' = [status EXCEPT ![c] = "queued"]
       /\ UNCHANGED rpc_queue

\* forward EGRESS UPSTREAM writes every queued 503 to its client.
Drained(st) ==
  [c \in Client |-> IF c \in Range(rpc_queue) THEN "idle" ELSE st[c]]

-----------------------------------------------------------------------------
(* Events *)

AcceptConnection(c) ==
  /\ status[c] = "closed"
  /\ status' = [status EXCEPT ![c] = "idle"]
  /\ UNCHANGED <<queue, ingress_size_cap, has_credit_request_on_fly, rpc_queue,
                 credit_requests, aborted>>

\* The client closed: READ of 0 bytes, then CANCEL, which aborts if the
\* RPCMapper still has its request.  One action: a response that is handled
\* between the two is written to the closed descriptor, which aborts as well.
CloseConnection(c) ==
  /\ status[c] = "idle" \/ (c \in Impatient /\ status[c] # "closed")
  /\ aborted' = (status[c] # "idle")
  /\ status' = IF status[c] = "idle" THEN [status EXCEPT ![c] = "closed"]
                                    ELSE status
  /\ UNCHANGED <<queue, ingress_size_cap, has_credit_request_on_fly, rpc_queue,
                 credit_requests>>

ClientRequest(c) ==
  /\ status[c] = "idle"
  /\ Enqueue(c)
  /\ IngressPreCredit(queue', has_credit_request_on_fly, credit_requests)
  /\ UNCHANGED <<ingress_size_cap, aborted>>

\* ingress_post_credit: dequeue aborts on an empty deque, route_request if no
\* connection of the pool is idle.  The head is forwarded, whatever request
\* the Credit Request was sent for; then the 503s, then the next request.
RecvCreditGrant(c) ==
  /\ c \in credit_requests
  /\ aborted' =
       (queue = <<>> \/ Cardinality({x \in Client : status[x] = "sent"})
                          >= PoolSize)
  /\ IF queue = <<>>
     THEN UNCHANGED <<queue, status>>
     ELSE /\ queue' = Tail(queue)
          /\ status' = Drained([status EXCEPT ![Head(queue)] = "sent"])
  /\ rpc_queue' = <<>>
  /\ IngressPreCredit(queue', FALSE, credit_requests \ {c})
  /\ UNCHANGED ingress_size_cap

\* The response is queued behind the 503s and all are written; its latency
\* sample may complete a batch, after which the cap is updated.
RecvResponse(c) ==
  /\ status[c] = "sent"
  /\ status' = Drained([status EXCEPT ![c] = "idle"])
  /\ rpc_queue' = <<>>
  /\ ingress_size_cap' \in NewCaps(ingress_size_cap)
  /\ IngressPreCredit(queue, has_credit_request_on_fly, credit_requests)
  /\ UNCHANGED <<queue, aborted>>

-----------------------------------------------------------------------------

Next ==
  /\ ~aborted
  /\ \E c \in Client : \/ AcceptConnection(c)
                       \/ CloseConnection(c)
                       \/ ClientRequest(c)
                       \/ RecvCreditGrant(c)
                       \/ RecvResponse(c)

Spec == Init /\ [][Next]_ingressVars

\* The frontend grants every Credit Request and answers every request; clients
\* need not connect, ask or close.
FairSpec ==
  /\ Spec
  /\ \A c \in Client : /\ WF_ingressVars(~aborted /\ RecvCreditGrant(c))
                       /\ WF_ingressVars(~aborted /\ RecvResponse(c))

-----------------------------------------------------------------------------
(* Properties *)

\* The variables have the types of the code; the cap never reaches zero.
TypeOK ==
  /\ queue \in Seq(Client)
  /\ ingress_size_cap \in 1 .. MaxCap
  /\ has_credit_request_on_fly \in BOOLEAN
  /\ rpc_queue \in Seq(Client)
  /\ status \in [Client -> Status]
  /\ credit_requests \in SUBSET Client
  /\ aborted \in BOOLEAN

\* The credit cycle: between two events a Credit Request is outstanding
\* exactly when requests wait, it is the only one, and it was sent for the
\* request at the head, which is the one its grant will forward.  A cycle that
\* stopped would never start again (there are no timeouts).
CreditCycle ==
  /\ has_credit_request_on_fly <=> queue # <<>>
  /\ credit_requests = IF queue = <<>> THEN {} ELSE {Head(queue)}

\* Each request is in one place, once: in the deque, in rpc_queue as a 503, or
\* forwarded (no request is both dropped and forwarded, or answered twice).
Once(s, c) == \E i \in DOMAIN s : \A j \in DOMAIN s : s[j] = c <=> j = i
OnePlace ==
  \A c \in Client :
    /\ IF status[c] = "queued" THEN Once(queue, c) ELSE c \notin Range(queue)
    /\ IF status[c] = "dropped" THEN Once(rpc_queue, c)
                                ELSE c \notin Range(rpc_queue)

\* A 503 is written only by the event of a grant or of a response, not by the
\* READ that dropped the request.  While one waits, a grant is due.
DropsAwaitGrant == rpc_queue # <<>> => credit_requests # {}

\* No event reaches LOG(FATAL): a grant finds a request in the deque and an
\* idle connection in the pool.
NoAbort == ~aborted

\* Every request is answered, with the response or with a 503.
EveryRequestAnswered ==
  \A c \in Client :
    status[c] \in {"queued", "dropped", "sent"} ~> status[c] = "idle"

W == INSTANCE Worker WITH phase <- status, line <- queue

\* Deque, cap, credit cycle and 503s implement the promise of a worker: every
\* grant forwards the oldest request, whichever request it was asked for, and
\* the cap turns a request away only while others wait.
WorkerSpec == W!Spec
=============================================================================
