---------------------------- MODULE CreditQueue ----------------------------
(***************************************************************************)
(* CreditQueue (credit_queue.hpp, credit_queue.cc): the server side of the *)
(* Request Limit Protocol.  Credit Requests that wait for a credit are     *)
(* kept per priority and per endpoint; pop() grants one of them if the     *)
(* number of active requests is below the global and per-endpoint limits.  *)
(*                                                                         *)
(* The queue is a record that each operation maps to its next value, so    *)
(* that a handler of the sidecar can compose several operations in one     *)
(* step, as the single-threaded event loop of a non-ingress sidecar does   *)
(* (config.cc rejects more than one thread there, hence the spin lock and  *)
(* the atomic size are not modelled).                                      *)
(*                                                                         *)
(* A queued buffer is represented by the request its Credit Request was    *)
(* sent for.  The _size counters are the number of queued requests.        *)
(***************************************************************************)
EXTENDS Integers, Sequences, FiniteSets

CONSTANTS
  Req,           \* the requests Credit Requests are sent for
  NoReq,         \* what pop() returns when it grants nothing (nullptr)
  NumEndpoints   \* number of endpoints (services) the sidecar hosts

ASSUME EndpointsAssumption == NumEndpoints \in Nat \ {0}
ASSUME NoReqAssumption == NoReq \notin Req

PriorityCount == 3
Priority == 0 .. PriorityCount - 1

\* Endpoints are numbered in the order a LocalMap iterator visits them.
Endpoint == 0 .. NumEndpoints - 1

\* weights: how many grants in a row a priority may get.
Weight == [p \in Priority |-> CASE p = 0 -> 16 [] p = 1 -> 4 [] p = 2 -> 1]

CreditQueueType ==
  [ queue                  : [Priority -> [Endpoint -> Seq(Req)]],
    ep_it                  : [Priority -> Endpoint], \* InnerCreditQueue::it
    it                     : Priority,
    remaining_rounds       : Nat,
    in_flight              : Int,
    global_limit           : Int,
    in_flight_per_endpoint : [Endpoint -> Int],
    per_endpoint_limit     : [Endpoint -> Int] ]

\* The constructor, given the limits computed from the configuration.
EmptyCreditQueue(limit, global) ==
  [ queue                  |-> [p \in Priority |-> [e \in Endpoint |-> <<>>]],
    ep_it                  |-> [p \in Priority |-> 0],
    it                     |-> 0,
    remaining_rounds       |-> Weight[0],
    in_flight              |-> 0,
    global_limit           |-> global,
    in_flight_per_endpoint |-> [e \in Endpoint |-> 0],
    per_endpoint_limit     |-> limit ]

-----------------------------------------------------------------------------
(* Operations *)

\* Mutant of Push: the priority is ignored.
PushUnprioritised(c, r, e, p) == [c EXCEPT !.queue[0][e] = Append(@, r)]
Push(c, r, e, p) == [c EXCEPT !.queue[p][e] = Append(@, r)]

IncrementInFlight(c, e) ==
  [c EXCEPT !.in_flight_per_endpoint[e] = @ + 1, !.in_flight = @ + 1]

DecrementInFlight(c, e) ==
  [c EXCEPT !.in_flight_per_endpoint[e] = @ - 1, !.in_flight = @ - 1]

UpdateEndpointLimit(c, limit, e) == [c EXCEPT !.per_endpoint_limit[e] = limit]

UpdateGlobalLimit(c, limit) == [c EXCEPT !.global_limit = limit]

Waiting(c) == \E p \in Priority, e \in Endpoint : c.queue[p][e] # <<>>

\* Mutant of Eligible: the limit of the endpoint is not tested.
EligibleGloballyOnly(c, p, e) ==
  /\ c.queue[p][e] # <<>>
  /\ c.in_flight < c.global_limit

\* The condition under which InnerCreditQueue::pop takes from endpoint e.
Eligible(c, p, e) ==
  /\ c.queue[p][e] # <<>>
  /\ c.in_flight_per_endpoint[e] < c.per_endpoint_limit[e]
  /\ c.in_flight < c.global_limit

EligiblePriority(c, p) == \E e \in Endpoint : Eligible(c, p, e)

\* Number of steps of a circular iterator over n slots from slot i to slot j.
Steps(i, j, n) == IF j >= i THEN j - i ELSE j - i + n

\* The slot of S that a circular iterator standing at i reaches first.
FirstFrom(i, S, n) ==
  CHOOSE j \in S : \A k \in S : Steps(i, j, n) <= Steps(i, k, n)

\* The priority and the endpoint whose head a pop takes.
PopPriority(c) ==
  FirstFrom(c.it, {p \in Priority : EligiblePriority(c, p)}, PriorityCount)
PopEndpoint(c, p) ==
  FirstFrom(c.ep_it[p], {e \in Endpoint : Eligible(c, p, e)}, NumEndpoints)

\* Weighted round robin: a priority reached by advancing the iterator starts
\* with its full weight, and loses its turn when the weight is used up.
Rounds(c, p) == (IF p = c.it THEN c.remaining_rounds ELSE Weight[p]) - 1
NextPriority(p) == (p + 1) % PriorityCount
NextEndpoint(e) == (e + 1) % NumEndpoints

\* Mutant of Granted: a priority that used up its weight keeps its turn.
GrantedSamePriority(c, p, e) ==
  [c EXCEPT !.queue[p][e] = Tail(@),
            !.ep_it[p] = NextEndpoint(e),
            !.in_flight_per_endpoint[e] = @ + 1,
            !.in_flight = @ + 1,
            !.it = p,
            !.remaining_rounds = Rounds(c, p)]

Granted(c, p, e) ==
  [c EXCEPT !.queue[p][e] = Tail(@),
            !.ep_it[p] = NextEndpoint(e),
            !.in_flight_per_endpoint[e] = @ + 1,
            !.in_flight = @ + 1,
            !.it = IF Rounds(c, p) = 0 THEN NextPriority(p) ELSE p,
            !.remaining_rounds = IF Rounds(c, p) = 0
                                 THEN Weight[NextPriority(p)]
                                 ELSE Rounds(c, p)]

\* A pop that visits every priority in vain comes back to the priority it
\* started from and gives it its full weight again.
Unsuccessful(c) == [c EXCEPT !.remaining_rounds = Weight[c.it]]

CanGrant(c) == \E p \in Priority : EligiblePriority(c, p)

\* Mutant of Pop: the test of the global limit that leaves the round robin
\* alone is missing.
PopWithoutEarlyReturn(c) ==
  IF ~Waiting(c)
  THEN [cq |-> c, grant |-> NoReq]
  ELSE IF ~CanGrant(c)
  THEN [cq |-> Unsuccessful(c), grant |-> NoReq]
  ELSE LET p == PopPriority(c)
           e == PopEndpoint(c, p)
       IN  [cq |-> Granted(c, p, e), grant |-> Head(c.queue[p][e])]

\* pop(): the queue after it, and the request granted (NoReq if none).
Pop(c) ==
  IF ~Waiting(c) \/ c.in_flight >= c.global_limit
  THEN [cq |-> c, grant |-> NoReq]
  ELSE IF ~CanGrant(c)
  THEN [cq |-> Unsuccessful(c), grant |-> NoReq]
  ELSE LET p == PopPriority(c)
           e == PopEndpoint(c, p)
       IN  [cq |-> Granted(c, p, e), grant |-> Head(c.queue[p][e])]

-----------------------------------------------------------------------------
(* Bounded overtaking *)

\* Grants of one full turn of the weighted round robin.
FullTurn == Weight[0] + Weight[1] + Weight[2]

\* At most this many grants go to other priorities before the turn of p.
TurnsBefore(c, p) ==
  IF c.it = p
  THEN 0
  ELSE c.remaining_rounds
         + (IF NextPriority(c.it) = p THEN 0 ELSE Weight[NextPriority(c.it)])

\* At most this many grants overtake the head of the queue of priority p and
\* endpoint e, as long as the endpoint has a free slot: priority p serves
\* another endpoint at most once per endpoint its iterator has to pass, and
\* the other priorities get at most their weights in between.
Bypass(c, p, e) ==
  FullTurn * Steps(c.ep_it[p], e, NumEndpoints) + TurnsBefore(c, p)
=============================================================================
