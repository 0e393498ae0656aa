-------------------------- MODULE CreditQueueProof --------------------------
(***************************************************************************)
(* What the operations of CreditQueue do, for every number of endpoints    *)
(* and every queue content.                                                *)
(***************************************************************************)
EXTENDS CreditQueue, TLAPS, WellFoundedInduction

\* A non-empty set of natural numbers has a least element.
LEMMA LeastNat ==
  ASSUME NEW T \in SUBSET Nat, T # {}
  PROVE  \E x \in T : \A y \in T : x <= y
<1>1. PICK x \in T : \A y \in T : ~(<<y, x>> \in OpToRel(<, Nat))
  BY NatLessThanWellFounded, WFMin
<1>2. ASSUME NEW y \in T PROVE x <= y
  <2>1. ~(y < x)
    BY <1>1 DEF OpToRel
  <2>2. x \in Nat /\ y \in Nat
    OBVIOUS
  <2>3. QED
    BY <2>1, <2>2
<1>3. QED
  BY <1>2

\* A circular scan of a non-empty set of slots finds one of them.
LEMMA FirstFromFinds ==
  ASSUME NEW n \in Nat \ {0}, NEW i \in 0 .. n - 1,
         NEW S \in SUBSET (0 .. n - 1), S # {}
  PROVE  FirstFrom(i, S, n) \in S
<1> DEFINE T == {Steps(i, j, n) : j \in S}
<1>1. \A j \in S : Steps(i, j, n) \in Nat
  <2> TAKE j \in S
  <2>1. j \in 0 .. n - 1
    OBVIOUS
  <2>2. QED
    BY <2>1 DEF Steps
<1>2. T \subseteq Nat /\ T # {}
  BY <1>1
<1>3. PICK x \in T : \A y \in T : x <= y
  BY <1>2, LeastNat
<1>4. PICK j \in S : x = Steps(i, j, n)
  BY <1>3
<1>5. \A k \in S : Steps(i, j, n) <= Steps(i, k, n)
  BY <1>3, <1>4
<1>6. QED
  BY <1>4, <1>5 DEF FirstFrom

\* If a waiting request is eligible, pop() chooses an eligible one.
LEMMA PopChoice ==
  ASSUME NEW c \in CreditQueueType, CanGrant(c)
  PROVE  /\ PopPriority(c) \in Priority
         /\ PopEndpoint(c, PopPriority(c)) \in Endpoint
         /\ Eligible(c, PopPriority(c), PopEndpoint(c, PopPriority(c)))
<1> DEFINE P == {p \in Priority : EligiblePriority(c, p)}
           p == PopPriority(c)
           E == {e \in Endpoint : Eligible(c, p, e)}
<1>1. P \in SUBSET (0 .. PriorityCount - 1) /\ P # {}
  BY DEF CanGrant, Priority
<1>2. PriorityCount \in Nat \ {0} /\ c.it \in 0 .. PriorityCount - 1
  BY DEF PriorityCount, CreditQueueType, Priority
<1>3. p \in P
  BY <1>1, <1>2, FirstFromFinds DEF PopPriority
<1>4. E \in SUBSET (0 .. NumEndpoints - 1) /\ E # {}
  BY <1>3 DEF EligiblePriority, Endpoint
<1>5. c.ep_it[p] \in 0 .. NumEndpoints - 1
  BY <1>3 DEF CreditQueueType, Endpoint
<1>6. PopEndpoint(c, p) \in E
  BY <1>4, <1>5, FirstFromFinds, EndpointsAssumption DEF PopEndpoint
<1>7. QED
  BY <1>3, <1>6

\* The three outcomes of pop(): nothing to do, a scan in vain, or a grant of
\* the head of an eligible endpoint's queue.
LEMMA PopCases ==
  ASSUME NEW c \in CreditQueueType
  PROVE  \/ /\ Pop(c) = [cq |-> c, grant |-> NoReq]
            /\ ~Waiting(c) \/ c.in_flight >= c.global_limit
         \/ /\ Pop(c) = [cq |-> Unsuccessful(c), grant |-> NoReq]
            /\ ~CanGrant(c)
         \/ \E p \in Priority, e \in Endpoint :
              /\ Eligible(c, p, e)
              /\ Pop(c) = [cq |-> Granted(c, p, e),
                           grant |-> Head(c.queue[p][e])]
  BY PopChoice DEF Pop

LEMMA RoundsType ==
  /\ \A p \in Priority : NextPriority(p) \in Priority
  /\ \A e \in Endpoint : NextEndpoint(e) \in Endpoint
  /\ \A p \in Priority : Weight[p] \in Nat \ {0}
  BY EndpointsAssumption
     DEF NextPriority, NextEndpoint, Priority, PriorityCount, Endpoint, Weight

\* push() appends to one queue and changes nothing else.
LEMMA PushFacts ==
  ASSUME NEW c \in CreditQueueType,
         NEW r \in Req, NEW e \in Endpoint, NEW p \in Priority
  PROVE  LET n == Push(c, r, e, p)
         IN  /\ n \in CreditQueueType
             /\ n.queue = [c.queue EXCEPT ![p][e] = Append(@, r)]
             /\ n.remaining_rounds = c.remaining_rounds
             /\ n.in_flight = c.in_flight
             /\ n.global_limit = c.global_limit
             /\ n.in_flight_per_endpoint = c.in_flight_per_endpoint
             /\ n.per_endpoint_limit = c.per_endpoint_limit
<1> DEFINE q == [c.queue EXCEPT ![p][e] = Append(@, r)]
<1>1. c.queue \in [Priority -> [Endpoint -> Seq(Req)]]
  BY DEF CreditQueueType
<1>2. c.queue[p][e] \in Seq(Req)
  BY <1>1
<1>3. q \in [Priority -> [Endpoint -> Seq(Req)]]
  BY <1>1, <1>2
<1>4. Push(c, r, e, p) = [c EXCEPT !.queue = q]
  BY DEF CreditQueueType, Push
<1> HIDE DEF q
<1>5. Push(c, r, e, p).queue = q
  BY <1>4 DEF CreditQueueType
<1>6. QED
  BY <1>3, <1>4, <1>5 DEF CreditQueueType, q

\* increment_in_flight changes the two counters only.
LEMMA IncrementFacts ==
  ASSUME NEW c \in CreditQueueType, NEW e \in Endpoint
  PROVE  LET n == IncrementInFlight(c, e)
         IN  /\ n \in CreditQueueType
             /\ n.queue = c.queue
             /\ n.remaining_rounds = c.remaining_rounds
             /\ n.in_flight = c.in_flight + 1
             /\ n.global_limit = c.global_limit
             /\ n.in_flight_per_endpoint =
                  [c.in_flight_per_endpoint EXCEPT ![e] = @ + 1]
             /\ n.per_endpoint_limit = c.per_endpoint_limit
<1> DEFINE f == [c.in_flight_per_endpoint EXCEPT ![e] = @ + 1]
           i == c.in_flight + 1
<1>1. f \in [Endpoint -> Int] /\ i \in Int
  BY DEF CreditQueueType
<1>2. IncrementInFlight(c, e) =
        [c EXCEPT !.in_flight_per_endpoint = f, !.in_flight = i]
  BY DEF CreditQueueType, IncrementInFlight
<1> HIDE DEF f, i
<1>3. QED
  BY <1>1, <1>2 DEF CreditQueueType, f, i

\* decrement_in_flight changes the two counters only.
LEMMA DecrementFacts ==
  ASSUME NEW c \in CreditQueueType, NEW e \in Endpoint
  PROVE  LET n == DecrementInFlight(c, e)
         IN  /\ n \in CreditQueueType
             /\ n.queue = c.queue
             /\ n.remaining_rounds = c.remaining_rounds
             /\ n.in_flight = c.in_flight - 1
             /\ n.global_limit = c.global_limit
             /\ n.in_flight_per_endpoint =
                  [c.in_flight_per_endpoint EXCEPT ![e] = @ - 1]
             /\ n.per_endpoint_limit = c.per_endpoint_limit
<1> DEFINE f == [c.in_flight_per_endpoint EXCEPT ![e] = @ - 1]
           i == c.in_flight - 1
<1>1. f \in [Endpoint -> Int] /\ i \in Int
  BY DEF CreditQueueType
<1>2. DecrementInFlight(c, e) =
        [c EXCEPT !.in_flight_per_endpoint = f, !.in_flight = i]
  BY DEF CreditQueueType, DecrementInFlight
<1> HIDE DEF f, i
<1>3. QED
  BY <1>1, <1>2 DEF CreditQueueType, f, i

\* The limit updates change the limits only.
LEMMA LimitFacts ==
  ASSUME NEW c \in CreditQueueType, NEW e \in Endpoint, NEW limit \in Int
  PROVE  /\ LET n == UpdateEndpointLimit(c, limit, e)
            IN  /\ n \in CreditQueueType
                /\ n.queue = c.queue
                /\ n.remaining_rounds = c.remaining_rounds
                /\ n.in_flight = c.in_flight
                /\ n.global_limit = c.global_limit
                /\ n.in_flight_per_endpoint = c.in_flight_per_endpoint
                /\ n.per_endpoint_limit =
                     [c.per_endpoint_limit EXCEPT ![e] = limit]
         /\ LET n == UpdateGlobalLimit(c, limit)
            IN  /\ n \in CreditQueueType
                /\ n.queue = c.queue
                /\ n.remaining_rounds = c.remaining_rounds
                /\ n.in_flight = c.in_flight
                /\ n.global_limit = limit
                /\ n.in_flight_per_endpoint = c.in_flight_per_endpoint
                /\ n.per_endpoint_limit = c.per_endpoint_limit
<1> DEFINE l == [c.per_endpoint_limit EXCEPT ![e] = limit]
<1>1. l \in [Endpoint -> Int]
  BY DEF CreditQueueType
<1>2. UpdateEndpointLimit(c, limit, e) = [c EXCEPT !.per_endpoint_limit = l]
  BY DEF CreditQueueType, UpdateEndpointLimit
<1> HIDE DEF l
<1>3. LET n == UpdateEndpointLimit(c, limit, e)
      IN  /\ n \in CreditQueueType
          /\ n.queue = c.queue
          /\ n.remaining_rounds = c.remaining_rounds
          /\ n.in_flight = c.in_flight
          /\ n.global_limit = c.global_limit
          /\ n.in_flight_per_endpoint = c.in_flight_per_endpoint
          /\ n.per_endpoint_limit = l
  BY <1>1, <1>2 DEF CreditQueueType
<1>4. QED
  BY <1>3 DEF CreditQueueType, UpdateGlobalLimit, l

\* A grant takes the head of one queue and counts it; the limits stay.
LEMMA GrantedFacts ==
  ASSUME NEW c \in CreditQueueType, c.remaining_rounds >= 1,
         NEW p \in Priority, NEW e \in Endpoint, c.queue[p][e] # <<>>
  PROVE  LET n == Granted(c, p, e)
         IN  /\ n \in CreditQueueType
             /\ Head(c.queue[p][e]) \in Req
             /\ n.queue = [c.queue EXCEPT ![p][e] = Tail(@)]
             /\ n.remaining_rounds >= 1
             /\ n.in_flight = c.in_flight + 1
             /\ n.global_limit = c.global_limit
             /\ n.in_flight_per_endpoint =
                  [c.in_flight_per_endpoint EXCEPT ![e] = @ + 1]
             /\ n.per_endpoint_limit = c.per_endpoint_limit
<1> DEFINE f == [c.in_flight_per_endpoint EXCEPT ![e] = @ + 1]
           i == c.in_flight + 1
           q == [c.queue EXCEPT ![p][e] = Tail(@)]
           ei == [c.ep_it EXCEPT ![p] = NextEndpoint(e)]
           it == IF Rounds(c, p) = 0 THEN NextPriority(p) ELSE p
           rr == IF Rounds(c, p) = 0 THEN Weight[NextPriority(p)]
                                     ELSE Rounds(c, p)
<1>1. c.queue \in [Priority -> [Endpoint -> Seq(Req)]]
  BY DEF CreditQueueType
<1>2. c.queue[p][e] \in Seq(Req)
  BY <1>1
<1>3. Head(c.queue[p][e]) \in Req /\ Tail(c.queue[p][e]) \in Seq(Req)
  BY <1>2
<1>4. q \in [Priority -> [Endpoint -> Seq(Req)]]
  BY <1>1, <1>3
<1>5. f \in [Endpoint -> Int] /\ i \in Int
  <2>1. c.in_flight_per_endpoint \in [Endpoint -> Int] /\ c.in_flight \in Int
    BY DEF CreditQueueType
  <2>2. QED
    BY <2>1
<1>6. ei \in [Priority -> Endpoint] /\ it \in Priority
  BY RoundsType DEF CreditQueueType
<1>7. Rounds(c, p) \in Nat
  <2>1. c.remaining_rounds \in Nat
    BY DEF CreditQueueType
  <2>2. Weight[p] \in Nat \ {0}
    BY RoundsType
  <2>3. QED
    BY <2>1, <2>2 DEF Rounds
<1>8. rr \in Nat \ {0}
  <2>1. Weight[NextPriority(p)] \in Nat \ {0}
    BY RoundsType
  <2>2. QED
    BY <2>1, <1>7
<1>9. Granted(c, p, e) =
        [c EXCEPT !.queue = q, !.ep_it = ei, !.in_flight_per_endpoint = f,
                  !.in_flight = i, !.it = it, !.remaining_rounds = rr]
  BY DEF CreditQueueType, Granted
<1> HIDE DEF f, i, q, ei, it, rr
<1>10. /\ Granted(c, p, e) \in CreditQueueType
       /\ Granted(c, p, e).queue = q
       /\ Granted(c, p, e).remaining_rounds = rr
       /\ Granted(c, p, e).in_flight = i
       /\ Granted(c, p, e).global_limit = c.global_limit
       /\ Granted(c, p, e).in_flight_per_endpoint = f
       /\ Granted(c, p, e).per_endpoint_limit = c.per_endpoint_limit
  BY <1>4, <1>5, <1>6, <1>8, <1>9 DEF CreditQueueType
<1>11. rr >= 1
  BY <1>8
<1>12. QED
  BY <1>3, <1>10, <1>11 DEF f, i, q

\* pop() as its caller sees it: either it grants nothing and changes at most
\* the round counter, or it grants the head of one queue within the limits.
\* If it grants nothing, then nothing was eligible.
LEMMA PopFacts ==
  ASSUME NEW c \in CreditQueueType, c.remaining_rounds >= 1
  PROVE  LET n == Pop(c).cq
             g == Pop(c).grant
         IN  /\ n \in CreditQueueType
             /\ n.remaining_rounds >= 1
             /\ n.global_limit = c.global_limit
             /\ n.per_endpoint_limit = c.per_endpoint_limit
             /\ \/ /\ g = NoReq
                   /\ n.queue = c.queue
                   /\ n.in_flight = c.in_flight
                   /\ n.in_flight_per_endpoint = c.in_flight_per_endpoint
                   /\ ~CanGrant(c)
                \/ \E p \in Priority, e \in Endpoint :
                     /\ Eligible(c, p, e)
                     /\ g = Head(c.queue[p][e])
                     /\ g \in Req
                     /\ n.queue = [c.queue EXCEPT ![p][e] = Tail(@)]
                     /\ n.in_flight = c.in_flight + 1
                     /\ n.in_flight_per_endpoint =
                          [c.in_flight_per_endpoint EXCEPT ![e] = @ + 1]
<1>1. CASE /\ Pop(c) = [cq |-> c, grant |-> NoReq]
           /\ ~Waiting(c) \/ c.in_flight >= c.global_limit
  <2>1. ~CanGrant(c)
    <3>1. c.in_flight \in Int /\ c.global_limit \in Int
      BY DEF CreditQueueType
    <3>2. QED
      BY <1>1, <3>1 DEF CanGrant, EligiblePriority, Eligible, Waiting
  <2>2. Pop(c).cq = c /\ Pop(c).grant = NoReq
    BY <1>1
  <2>3. QED
    BY <2>1, <2>2
<1>2. CASE /\ Pop(c) = [cq |-> Unsuccessful(c), grant |-> NoReq]
           /\ ~CanGrant(c)
  <2>1. Pop(c).cq = Unsuccessful(c) /\ Pop(c).grant = NoReq
    BY <1>2
  <2>2. Weight[c.it] \in Nat \ {0}
    BY RoundsType DEF CreditQueueType
  <2>3. /\ Unsuccessful(c) \in CreditQueueType
        /\ Unsuccessful(c).remaining_rounds = Weight[c.it]
        /\ Unsuccessful(c).queue = c.queue
        /\ Unsuccessful(c).in_flight = c.in_flight
        /\ Unsuccessful(c).in_flight_per_endpoint = c.in_flight_per_endpoint
        /\ Unsuccessful(c).global_limit = c.global_limit
        /\ Unsuccessful(c).per_endpoint_limit = c.per_endpoint_limit
    BY <2>2 DEF Unsuccessful, CreditQueueType
  <2>4. QED
    BY <1>2, <2>1, <2>2, <2>3
<1>3. ASSUME NEW p \in Priority, NEW e \in Endpoint, Eligible(c, p, e),
             Pop(c) = [cq |-> Granted(c, p, e), grant |-> Head(c.queue[p][e])]
      PROVE  LET n == Pop(c).cq
                 g == Pop(c).grant
             IN  /\ n \in CreditQueueType
                 /\ n.remaining_rounds >= 1
                 /\ n.global_limit = c.global_limit
                 /\ n.per_endpoint_limit = c.per_endpoint_limit
                 /\ g = Head(c.queue[p][e])
                 /\ g \in Req
                 /\ n.queue = [c.queue EXCEPT ![p][e] = Tail(@)]
                 /\ n.in_flight = c.in_flight + 1
                 /\ n.in_flight_per_endpoint =
                      [c.in_flight_per_endpoint EXCEPT ![e] = @ + 1]
  <2>1. c.queue[p][e] # <<>>
    BY <1>3 DEF Eligible
  <2>2. Pop(c).cq = Granted(c, p, e) /\ Pop(c).grant = Head(c.queue[p][e])
    BY <1>3
  <2> DEFINE m == Granted(c, p, e)
  <2>3. /\ m \in CreditQueueType
        /\ Head(c.queue[p][e]) \in Req
        /\ m.queue = [c.queue EXCEPT ![p][e] = Tail(@)]
        /\ m.remaining_rounds >= 1
        /\ m.in_flight = c.in_flight + 1
        /\ m.global_limit = c.global_limit
        /\ m.in_flight_per_endpoint =
             [c.in_flight_per_endpoint EXCEPT ![e] = @ + 1]
        /\ m.per_endpoint_limit = c.per_endpoint_limit
    BY <2>1, GrantedFacts, ZenonT(60)
  <2>4. Pop(c).cq = m
    BY <2>2
  <2> HIDE DEF m
  <2>5. QED
    BY <2>2, <2>3, <2>4
<1>4. CASE \E p \in Priority, e \in Endpoint :
             /\ Eligible(c, p, e)
             /\ Pop(c) = [cq |-> Granted(c, p, e),
                          grant |-> Head(c.queue[p][e])]
  <2>1. PICK p \in Priority, e \in Endpoint :
          /\ Eligible(c, p, e)
          /\ Pop(c) = [cq |-> Granted(c, p, e),
                       grant |-> Head(c.queue[p][e])]
    BY <1>4
  <2> DEFINE n == Pop(c).cq
             g == Pop(c).grant
  <2>2. /\ n \in CreditQueueType
        /\ n.remaining_rounds >= 1
        /\ n.global_limit = c.global_limit
        /\ n.per_endpoint_limit = c.per_endpoint_limit
        /\ g = Head(c.queue[p][e])
        /\ g \in Req
        /\ n.queue = [c.queue EXCEPT ![p][e] = Tail(@)]
        /\ n.in_flight = c.in_flight + 1
        /\ n.in_flight_per_endpoint =
             [c.in_flight_per_endpoint EXCEPT ![e] = @ + 1]
    BY <2>1, <1>3
  <2> HIDE DEF n, g
  <2>3. \E pp \in Priority, ee \in Endpoint :
          /\ Eligible(c, pp, ee)
          /\ g = Head(c.queue[pp][ee])
          /\ g \in Req
          /\ n.queue = [c.queue EXCEPT ![pp][ee] = Tail(@)]
          /\ n.in_flight = c.in_flight + 1
          /\ n.in_flight_per_endpoint =
               [c.in_flight_per_endpoint EXCEPT ![ee] = @ + 1]
    <3>1. WITNESS p \in Priority, e \in Endpoint
    <3>2. QED
      BY <2>1, <2>2
  <2>4. QED
    BY <2>2, <2>3 DEF n, g
<1>5. QED
  BY <1>1, <1>2, <1>4, PopCases

-----------------------------------------------------------------------------
(* Work conservation: one pop is enough after each change *)

\* Whether a request could be granted depends on queues, counters and limits.
LEMMA CanGrantFields ==
  ASSUME NEW c, NEW n, n.queue = c.queue, n.in_flight = c.in_flight,
         n.in_flight_per_endpoint = c.in_flight_per_endpoint,
         n.global_limit = c.global_limit,
         n.per_endpoint_limit = c.per_endpoint_limit
  PROVE  CanGrant(n) <=> CanGrant(c)
  BY DEF CanGrant, EligiblePriority, Eligible

\* What Eligible says, in terms of the parts of a queue record.
LEMMA IneligibleFacts ==
  ASSUME NEW c \in CreditQueueType, ~CanGrant(c),
         NEW p \in Priority, NEW e \in Endpoint
  PROVE  /\ c.queue[p][e] = <<>> \/ c.in_flight >= c.global_limit
             \/ c.in_flight_per_endpoint[e] >= c.per_endpoint_limit[e]
         /\ c.in_flight \in Int /\ c.global_limit \in Int
         /\ c.in_flight_per_endpoint[e] \in Int /\ c.per_endpoint_limit[e] \in Int
<1>1. /\ c.in_flight \in Int /\ c.global_limit \in Int
      /\ c.in_flight_per_endpoint[e] \in Int /\ c.per_endpoint_limit[e] \in Int
  BY DEF CreditQueueType
<1>2. ~Eligible(c, p, e)
  BY DEF CanGrant, EligiblePriority
<1>3. QED
  BY <1>1, <1>2 DEF Eligible

\* increment_in_flight makes no request eligible.
LEMMA IncrementConserves ==
  ASSUME NEW c \in CreditQueueType, ~CanGrant(c), NEW e \in Endpoint
  PROVE  ~CanGrant(IncrementInFlight(c, e))
<1> DEFINE n == IncrementInFlight(c, e)
<1>1. /\ n.queue = c.queue /\ n.in_flight = c.in_flight + 1
      /\ n.global_limit = c.global_limit
      /\ n.in_flight_per_endpoint = [c.in_flight_per_endpoint EXCEPT ![e] = @ + 1]
      /\ n.per_endpoint_limit = c.per_endpoint_limit
  BY IncrementFacts
<1> HIDE DEF n
<1>2. ASSUME NEW p \in Priority, NEW y \in Endpoint, Eligible(n, p, y) PROVE FALSE
  <2>1. /\ c.queue[p][y] # <<>> /\ c.in_flight + 1 < c.global_limit
        /\ n.in_flight_per_endpoint[y] < c.per_endpoint_limit[y]
    BY <1>1, <1>2 DEF Eligible
  <2>2. n.in_flight_per_endpoint[y] =
          (IF y = e THEN c.in_flight_per_endpoint[y] + 1
                    ELSE c.in_flight_per_endpoint[y])
    BY <1>1 DEF CreditQueueType
  <2>3. QED
    BY <2>1, <2>2, IneligibleFacts
<1>3. QED
  BY <1>2 DEF CanGrant, EligiblePriority, n

\* The two outcomes of a pop, as far as queues, counters and limits go.
PopsTo(c, m) ==
  /\ m.global_limit = c.global_limit
  /\ m.per_endpoint_limit = c.per_endpoint_limit
  /\ \/ ~CanGrant(m)
     \/ \E p \in Priority, e \in Endpoint :
          /\ Eligible(c, p, e)
          /\ m.queue = [c.queue EXCEPT ![p][e] = Tail(@)]
          /\ m.in_flight = c.in_flight + 1
          /\ m.in_flight_per_endpoint =
               [c.in_flight_per_endpoint EXCEPT ![e] = @ + 1]

LEMMA PopOutcome ==
  ASSUME NEW c \in CreditQueueType, c.remaining_rounds >= 1
  PROVE  PopsTo(c, Pop(c).cq)
<1> DEFINE n == Pop(c).cq
           g == Pop(c).grant
<1>1. /\ n.global_limit = c.global_limit
      /\ n.per_endpoint_limit = c.per_endpoint_limit
      /\ \/ /\ n.queue = c.queue
            /\ n.in_flight = c.in_flight
            /\ n.in_flight_per_endpoint = c.in_flight_per_endpoint
            /\ ~CanGrant(c)
         \/ \E p \in Priority, e \in Endpoint :
              /\ Eligible(c, p, e)
              /\ n.queue = [c.queue EXCEPT ![p][e] = Tail(@)]
              /\ n.in_flight = c.in_flight + 1
              /\ n.in_flight_per_endpoint =
                   [c.in_flight_per_endpoint EXCEPT ![e] = @ + 1]
  BY PopFacts, ZenonT(60)
<1> HIDE DEF n
<1>2. QED
  BY <1>1, CanGrantFields DEF PopsTo, n

\* A new request waits only if no slot is free, and then one pop grants it or
\* leaves nothing to grant.
LEMMA PushPopConserves ==
  ASSUME NEW c \in CreditQueueType, c.remaining_rounds >= 1, ~CanGrant(c),
         NEW r \in Req, NEW e \in Endpoint, NEW p \in Priority
  PROVE  ~CanGrant(Pop(Push(c, r, e, p)).cq)
<1> DEFINE n == Push(c, r, e, p)
           m == Pop(n).cq
<1>1. /\ n \in CreditQueueType /\ n.remaining_rounds >= 1
      /\ n.queue = [c.queue EXCEPT ![p][e] = Append(@, r)]
      /\ n.in_flight = c.in_flight /\ n.global_limit = c.global_limit
      /\ n.in_flight_per_endpoint = c.in_flight_per_endpoint
      /\ n.per_endpoint_limit = c.per_endpoint_limit
  BY PushFacts
<1> HIDE DEF n
<1>2. PopsTo(n, m)
  BY <1>1, PopOutcome
<1> HIDE DEF m
<1>3. c.queue \in [Priority -> [Endpoint -> Seq(Req)]]
      /\ c.in_flight_per_endpoint \in [Endpoint -> Int]
  BY DEF CreditQueueType
<1>4. ASSUME NEW x \in Priority, NEW y \in Endpoint
      PROVE  n.queue[x][y] = (IF x = p /\ y = e THEN Append(c.queue[p][e], r)
                                               ELSE c.queue[x][y])
  BY <1>1, <1>3
<1>5. SUFFICES ASSUME NEW x \in Priority, NEW y \in Endpoint, Eligible(m, x, y),
                      NEW pp \in Priority, NEW ee \in Endpoint, Eligible(n, pp, ee),
                      m.queue = [n.queue EXCEPT ![pp][ee] = Tail(@)],
                      m.in_flight = n.in_flight + 1,
                      m.in_flight_per_endpoint =
                        [n.in_flight_per_endpoint EXCEPT ![ee] = @ + 1]
               PROVE  FALSE
  BY <1>2 DEF PopsTo, CanGrant, EligiblePriority, m, n
<1>6. pp = p /\ ee = e /\ c.queue[p][e] = <<>>
  BY <1>1, <1>4, <1>5, IneligibleFacts DEF Eligible
<1>7. m.queue[p][e] = <<>>
  <2>1. n.queue[p][e] = <<r>>
    BY <1>4, <1>6
  <2>2. m.queue[p][e] = Tail(n.queue[p][e])
    BY <1>1, <1>5, <1>6 DEF CreditQueueType
  <2>3. QED
    BY <2>1, <2>2
<1>8. ~(x = p /\ y = e)
  BY <1>5, <1>7 DEF Eligible
<1>9. m.queue[x][y] = c.queue[x][y]
  <2>1. n.queue \in [Priority -> [Endpoint -> Seq(Req)]]
    BY <1>1 DEF CreditQueueType
  <2>2. ~(x = pp /\ y = ee) => m.queue[x][y] = n.queue[x][y]
    BY <1>5, <2>1
  <2>3. QED
    BY <1>4, <1>6, <1>8, <2>2
<1>10. /\ c.in_flight + 1 < c.global_limit /\ c.queue[x][y] # <<>>
       /\ m.in_flight_per_endpoint[y] < c.per_endpoint_limit[y]
  BY <1>1, <1>2, <1>5, <1>9 DEF Eligible, PopsTo
<1>11. m.in_flight_per_endpoint[y] =
         (IF y = ee THEN c.in_flight_per_endpoint[y] + 1
                    ELSE c.in_flight_per_endpoint[y])
  BY <1>1, <1>3, <1>5
<1>12. QED
  BY <1>10, <1>11, IneligibleFacts

\* A slot that becomes free is given away by one pop, or nobody can use it.
LEMMA DecrementPopConserves ==
  ASSUME NEW c \in CreditQueueType, c.remaining_rounds >= 1, ~CanGrant(c),
         NEW e \in Endpoint
  PROVE  ~CanGrant(Pop(DecrementInFlight(c, e)).cq)
<1> DEFINE n == DecrementInFlight(c, e)
           m == Pop(n).cq
<1>1. /\ n \in CreditQueueType /\ n.remaining_rounds >= 1
      /\ n.queue = c.queue
      /\ n.in_flight = c.in_flight - 1 /\ n.global_limit = c.global_limit
      /\ n.in_flight_per_endpoint = [c.in_flight_per_endpoint EXCEPT ![e] = @ - 1]
      /\ n.per_endpoint_limit = c.per_endpoint_limit
  BY DecrementFacts
<1> HIDE DEF n
<1>2. PopsTo(n, m)
  BY <1>1, PopOutcome
<1> HIDE DEF m
<1>3. c.queue \in [Priority -> [Endpoint -> Seq(Req)]]
      /\ c.in_flight_per_endpoint \in [Endpoint -> Int]
  BY DEF CreditQueueType
<1>4. SUFFICES ASSUME NEW x \in Priority, NEW y \in Endpoint, Eligible(m, x, y),
                      NEW pp \in Priority, NEW ee \in Endpoint, Eligible(n, pp, ee),
                      m.queue = [n.queue EXCEPT ![pp][ee] = Tail(@)],
                      m.in_flight = n.in_flight + 1,
                      m.in_flight_per_endpoint =
                        [n.in_flight_per_endpoint EXCEPT ![ee] = @ + 1]
               PROVE  FALSE
  BY <1>2 DEF PopsTo, CanGrant, EligiblePriority, m, n
<1>5. c.in_flight < c.global_limit
  <2>1. m.in_flight < c.global_limit
    BY <1>1, <1>2, <1>4 DEF Eligible, PopsTo
  <2>2. QED
    BY <1>1, <1>4, <2>1, IneligibleFacts
<1>6. ee = e
  <2>1. SUFFICES ASSUME ee # e PROVE FALSE
    OBVIOUS
  <2>2. n.in_flight_per_endpoint[ee] = c.in_flight_per_endpoint[ee]
    BY <1>1, <1>3, <2>1
  <2>3. /\ c.queue[pp][ee] # <<>>
        /\ c.in_flight_per_endpoint[ee] < c.per_endpoint_limit[ee]
    BY <1>1, <1>4, <2>2 DEF Eligible
  <2>4. QED
    BY <1>5, <2>3, IneligibleFacts
<1>7. m.in_flight_per_endpoint[y] = c.in_flight_per_endpoint[y]
  BY <1>1, <1>3, <1>4, <1>6
<1>8. c.queue[x][y] # <<>>
  <2>1. m.queue[x][y] # <<>> /\ n.queue[pp][ee] # <<>>
    BY <1>4 DEF Eligible
  <2>2. ~(x = pp /\ y = ee) => m.queue[x][y] = n.queue[x][y]
    BY <1>1, <1>3, <1>4
  <2>3. QED
    BY <1>1, <2>1, <2>2
<1>9. c.in_flight_per_endpoint[y] < c.per_endpoint_limit[y]
  BY <1>1, <1>2, <1>4, <1>7 DEF Eligible, PopsTo
<1>10. QED
  BY <1>5, <1>8, <1>9, IneligibleFacts

-----------------------------------------------------------------------------
(* Bounded overtaking: the place of the weighted round robin *)

\* The iterators and the rest of the weight stay as they are.
SamePlace(c, n) ==
  /\ n.ep_it = c.ep_it
  /\ n.it = c.it
  /\ n.remaining_rounds = c.remaining_rounds

\* The priority at its turn has at least one grant left, and at most its weight.
RoundsOK(c) == c.remaining_rounds \in 1 .. Weight[c.it]

LEMMA PlaceKept ==
  ASSUME NEW c \in CreditQueueType, NEW e \in Endpoint
  PROVE  /\ \A r \in Req, p \in Priority : SamePlace(c, Push(c, r, e, p))
         /\ SamePlace(c, IncrementInFlight(c, e))
         /\ SamePlace(c, DecrementInFlight(c, e))
         /\ \A l \in Int : SamePlace(c, UpdateEndpointLimit(c, l, e))
         /\ \A l \in Int : SamePlace(c, UpdateGlobalLimit(c, l))
  BY DEF SamePlace, CreditQueueType, Push, IncrementInFlight, DecrementInFlight,
         UpdateEndpointLimit, UpdateGlobalLimit

LEMMA SamePlaceFacts ==
  ASSUME NEW c, NEW n, SamePlace(c, n)
  PROVE  /\ RoundsOK(c) => RoundsOK(n)
         /\ \A p, e : Bypass(n, p, e) = Bypass(c, p, e)
  BY DEF SamePlace, RoundsOK, Bypass, TurnsBefore

\* The slot a circular scan finds is the first one from where it starts.
LEMMA FirstFromIsFirst ==
  ASSUME NEW n \in Nat \ {0}, NEW i \in 0 .. n - 1,
         NEW S \in SUBSET (0 .. n - 1), NEW k \in S
  PROVE  Steps(i, FirstFrom(i, S, n), n) <= Steps(i, k, n)
<1> DEFINE T == {Steps(i, j, n) : j \in S}
<1>1. \A j \in S : Steps(i, j, n) \in Nat
  <2> TAKE j \in S
  <2>1. j \in 0 .. n - 1
    OBVIOUS
  <2>2. QED
    BY <2>1 DEF Steps
<1>2. T \subseteq Nat /\ T # {}
  BY <1>1
<1>3. PICK x \in T : \A y \in T : x <= y
  BY <1>2, LeastNat
<1>4. PICK j \in S : x = Steps(i, j, n)
  BY <1>3
<1>5. \A m \in S : Steps(i, j, n) <= Steps(i, m, n)
  BY <1>3, <1>4
<1>6. QED
  BY <1>4, <1>5 DEF FirstFrom

\* pop() grants at the first eligible priority, and there at the first
\* eligible endpoint, from where the iterators stand.
LEMMA PopIsFirst ==
  ASSUME NEW c \in CreditQueueType, NEW x \in Priority, NEW y \in Endpoint,
         Eligible(c, x, y)
  PROVE  LET p == PopPriority(c)
         IN  /\ Steps(c.it, p, PriorityCount) <= Steps(c.it, x, PriorityCount)
             /\ p = x => Steps(c.ep_it[x], PopEndpoint(c, p), NumEndpoints)
                           <= Steps(c.ep_it[x], y, NumEndpoints)
<1> DEFINE P == {p \in Priority : EligiblePriority(c, p)}
           E == {e \in Endpoint : Eligible(c, x, e)}
<1>1. P \in SUBSET (0 .. PriorityCount - 1) /\ x \in P
  BY DEF EligiblePriority, Priority
<1>2. PriorityCount \in Nat \ {0} /\ c.it \in 0 .. PriorityCount - 1
  BY DEF PriorityCount, CreditQueueType, Priority
<1>3. E \in SUBSET (0 .. NumEndpoints - 1) /\ y \in E
  BY DEF Endpoint
<1>4. c.ep_it[x] \in 0 .. NumEndpoints - 1
  BY DEF CreditQueueType, Endpoint
<1>5. Steps(c.it, PopPriority(c), PriorityCount) <= Steps(c.it, x, PriorityCount)
  BY <1>1, <1>2, FirstFromIsFirst DEF PopPriority
<1>6. Steps(c.ep_it[x], PopEndpoint(c, x), NumEndpoints)
        <= Steps(c.ep_it[x], y, NumEndpoints)
  BY <1>3, <1>4, FirstFromIsFirst, EndpointsAssumption DEF PopEndpoint
<1>7. QED
  BY <1>5, <1>6

\* Where a grant leaves the weighted round robin.
PlaceAfter(c, p, e, n) ==
  /\ n.ep_it = [c.ep_it EXCEPT ![p] = NextEndpoint(e)]
  /\ Rounds(c, p) = 0 => /\ n.it = NextPriority(p)
                         /\ n.remaining_rounds = Weight[NextPriority(p)]
  /\ Rounds(c, p) # 0 => n.it = p /\ n.remaining_rounds = Rounds(c, p)

LEMMA GrantedPlace ==
  ASSUME NEW c \in CreditQueueType, NEW p \in Priority, NEW e \in Endpoint
  PROVE  PlaceAfter(c, p, e, Granted(c, p, e))
  BY DEF CreditQueueType, Granted, PlaceAfter

LEMMA Weights ==
  /\ Weight[0] = 16 /\ Weight[1] = 4 /\ Weight[2] = 1 /\ FullTurn = 21
  /\ Priority = {0, 1, 2}
  /\ NextPriority(0) = 1 /\ NextPriority(1) = 2 /\ NextPriority(2) = 0
<1>1. /\ 0 \in Priority /\ 1 \in Priority /\ 2 \in Priority
      /\ Priority = {0, 1, 2}
  BY DEF Priority, PriorityCount
<1>2. Weight[0] = 16 /\ Weight[1] = 4 /\ Weight[2] = 1
  BY <1>1 DEF Weight
<1>3. QED
  BY <1>1, <1>2 DEF FullTurn, NextPriority, PriorityCount

LEMMA TurnsBounded ==
  ASSUME NEW c \in CreditQueueType, RoundsOK(c), NEW x \in Priority
  PROVE  TurnsBefore(c, x) \in 0 .. 20
<1>1. c.it \in {0, 1, 2} /\ x \in {0, 1, 2}
  BY Weights DEF CreditQueueType
<1>2. c.remaining_rounds \in Nat /\ c.remaining_rounds <= Weight[c.it]
  BY DEF CreditQueueType, RoundsOK
<1>3. QED
  BY <1>1, <1>2, Weights DEF TurnsBefore

LEMMA BypassBounded ==
  ASSUME NEW c \in CreditQueueType, RoundsOK(c),
         NEW x \in Priority, NEW y \in Endpoint
  PROVE  Bypass(c, x, y) < FullTurn * NumEndpoints
<1>1. c.ep_it[x] \in 0 .. NumEndpoints - 1 /\ y \in 0 .. NumEndpoints - 1
  BY DEF CreditQueueType, Endpoint
<1>2. Steps(c.ep_it[x], y, NumEndpoints) \in 0 .. NumEndpoints - 1
  BY <1>1, EndpointsAssumption DEF Steps
<1>3. QED
  BY <1>2, TurnsBounded, Weights, EndpointsAssumption DEF Bypass

\* The place of the round robin after a grant is again in order.
LEMMA GrantedRounds ==
  ASSUME NEW c \in CreditQueueType, RoundsOK(c),
         NEW p \in Priority, NEW e \in Endpoint
  PROVE  RoundsOK(Granted(c, p, e))
<1> DEFINE n == Granted(c, p, e)
<1>1. PlaceAfter(c, p, e, n)
  BY GrantedPlace
<1>2. Weight[p] \in Nat \ {0} /\ Weight[NextPriority(p)] \in Nat \ {0}
  BY RoundsType
<1>3. c.remaining_rounds \in 1 .. Weight[c.it]
  BY DEF RoundsOK
<1>4. Rounds(c, p) \in 0 .. Weight[p] - 1
  BY <1>2, <1>3 DEF Rounds
<1> HIDE DEF n
<1>5. RoundsOK(n)
  BY <1>1, <1>2, <1>4 DEF RoundsOK, PlaceAfter
<1>6. QED
  BY <1>5 DEF n

\* A grant to another priority that comes before x uses up one of the grants
\* the other priorities can get before the turn of x.
LEMMA OtherPriorityTurns ==
  ASSUME NEW c \in CreditQueueType, RoundsOK(c),
         NEW p \in Priority, NEW e \in Endpoint, NEW x \in Priority, p # x,
         Steps(c.it, p, PriorityCount) <= Steps(c.it, x, PriorityCount)
  PROVE  TurnsBefore(Granted(c, p, e), x) < TurnsBefore(c, x)
<1> DEFINE n == Granted(c, p, e)
<1>1. PlaceAfter(c, p, e, n)
  BY GrantedPlace
<1>2. /\ c.it \in {0, 1, 2} /\ x \in {0, 1, 2} /\ p \in {0, 1, 2}
      /\ c.remaining_rounds \in Nat /\ c.remaining_rounds >= 1
      /\ c.remaining_rounds <= Weight[c.it]
  BY Weights DEF CreditQueueType, RoundsOK
<1> HIDE DEF n
<1>3. c.it # x
  BY <1>2 DEF Steps, PriorityCount
<1>4. ASSUME p = c.it PROVE TurnsBefore(n, x) < TurnsBefore(c, x)
  <2>1. Rounds(c, p) = c.remaining_rounds - 1
    BY <1>4 DEF Rounds
  <2>2. QED
    BY <1>1, <1>2, <1>3, <1>4, <2>1, Weights DEF TurnsBefore, PlaceAfter
<1>5. ASSUME p # c.it PROVE TurnsBefore(n, x) < TurnsBefore(c, x)
  <2>1. Rounds(c, p) = Weight[p] - 1
    BY <1>5 DEF Rounds
  <2>2. p = NextPriority(c.it) /\ x = NextPriority(p)
    BY <1>2, <1>3, <1>5, Weights DEF Steps, PriorityCount
  <2>3. QED
    BY <1>1, <1>2, <1>3, <1>5, <2>1, <2>2, Weights DEF TurnsBefore, PlaceAfter
<1>6. QED
  BY <1>4, <1>5 DEF n

\* A grant of priority x at an endpoint before y moves its iterator nearer to y.
LEMMA StepsShrink ==
  ASSUME NEW i \in Endpoint, NEW e \in Endpoint, NEW y \in Endpoint, e # y,
         Steps(i, e, NumEndpoints) <= Steps(i, y, NumEndpoints)
  PROVE  Steps(NextEndpoint(e), y, NumEndpoints) < Steps(i, y, NumEndpoints)
<1>1. /\ i \in 0 .. NumEndpoints - 1 /\ e \in 0 .. NumEndpoints - 1
      /\ y \in 0 .. NumEndpoints - 1 /\ NumEndpoints \in Nat \ {0}
  BY EndpointsAssumption DEF Endpoint
<1>2. NextEndpoint(e) = IF e = NumEndpoints - 1 THEN 0 ELSE e + 1
  BY <1>1 DEF NextEndpoint
<1>3. QED
  BY <1>1, <1>2 DEF Steps

\* Every grant brings the turn of an overtaken head nearer.
LEMMA GrantedOvertakes ==
  ASSUME NEW c \in CreditQueueType, RoundsOK(c),
         NEW p \in Priority, NEW e \in Endpoint,
         NEW x \in Priority, NEW y \in Endpoint, ~(p = x /\ e = y),
         Steps(c.it, p, PriorityCount) <= Steps(c.it, x, PriorityCount),
         p = x => Steps(c.ep_it[x], e, NumEndpoints)
                    <= Steps(c.ep_it[x], y, NumEndpoints),
         Granted(c, p, e) \in CreditQueueType
  PROVE  Bypass(Granted(c, p, e), x, y) < Bypass(c, x, y)
<1> DEFINE n == Granted(c, p, e)
           s == Steps(c.ep_it[x], y, NumEndpoints)
           t == Steps(n.ep_it[x], y, NumEndpoints)
<1>1. n.ep_it = [c.ep_it EXCEPT ![p] = NextEndpoint(e)]
  BY GrantedPlace DEF PlaceAfter
<1>2. TurnsBefore(c, x) \in 0 .. 20 /\ TurnsBefore(n, x) \in 0 .. 20
  BY TurnsBounded, GrantedRounds
<1>3. c.ep_it \in [Priority -> Endpoint] /\ n.ep_it[x] \in Endpoint
  BY DEF CreditQueueType
<1>4. s \in Nat /\ t \in Nat
  BY <1>3, EndpointsAssumption DEF Steps, Endpoint
<1>5. CASE p # x
  <2>1. TurnsBefore(n, x) < TurnsBefore(c, x)
    BY <1>5, OtherPriorityTurns
  <2>2. t = s
    BY <1>1, <1>3, <1>5
  <2> HIDE DEF n, s, t
  <2>3. QED
    BY <1>2, <1>4, <2>1, <2>2, Weights DEF Bypass, n, s, t
<1>6. CASE p = x
  <2>1. n.ep_it[x] = NextEndpoint(e)
    BY <1>1, <1>3, <1>6
  <2>2. t < s
    BY <1>3, <1>6, <2>1, StepsShrink
  <2>3. Bypass(n, x, y) = 21 * t + TurnsBefore(n, x)
        /\ Bypass(c, x, y) = 21 * s + TurnsBefore(c, x)
    BY Weights DEF Bypass
  <2> HIDE DEF n, s, t
  <2>4. Bypass(n, x, y) < Bypass(c, x, y)
    BY <1>2, <1>4, <2>2, <2>3
  <2>5. QED
    BY <2>4 DEF n
<1>7. QED
  BY <1>5, <1>6

\* What pop() does to a head whose endpoint has a free slot: either it grants
\* nothing and the round robin keeps its place, or it grants that head, or it
\* grants another request and the turn of the head comes nearer.
LEMMA PopOvertakes ==
  ASSUME NEW c \in CreditQueueType, RoundsOK(c),
         NEW x \in Priority, NEW y \in Endpoint, c.queue[x][y] # <<>>,
         c.in_flight_per_endpoint[y] < c.per_endpoint_limit[y]
  PROVE  LET n == Pop(c).cq
             g == Pop(c).grant
         IN  \/ g = NoReq /\ SamePlace(c, n)
             \/ /\ \E p \in Priority, e \in Endpoint :
                     c.queue[p][e] # <<>> /\ g = Head(c.queue[p][e])
                /\ \/ Bypass(n, x, y) < Bypass(c, x, y)
                   \/ n.queue[x][y] = Tail(c.queue[x][y])
<1>1. CASE ~Waiting(c) \/ c.in_flight >= c.global_limit
  BY <1>1 DEF Pop, SamePlace
<1>2. CASE ~(~Waiting(c) \/ c.in_flight >= c.global_limit)
  <2>1. Eligible(c, x, y)
    <3>1. c.in_flight \in Int /\ c.global_limit \in Int
      BY DEF CreditQueueType
    <3>2. QED
      BY <1>2, <3>1 DEF Eligible
  <2>2. CanGrant(c)
    BY <2>1 DEF CanGrant, EligiblePriority
  <2> DEFINE p == PopPriority(c)
             e == PopEndpoint(c, p)
             n == Granted(c, p, e)
  <2>3. p \in Priority /\ e \in Endpoint /\ Eligible(c, p, e)
    BY <2>2, PopChoice
  <2>4. /\ Steps(c.it, p, PriorityCount) <= Steps(c.it, x, PriorityCount)
        /\ p = x => Steps(c.ep_it[x], e, NumEndpoints)
                      <= Steps(c.ep_it[x], y, NumEndpoints)
    BY <2>1, PopIsFirst
  <2>5. Pop(c) = [cq |-> n, grant |-> Head(c.queue[p][e])]
    BY <1>2, <2>2 DEF Pop
  <2> HIDE DEF p, e
  <2>6. c.queue[p][e] # <<>> /\ c.remaining_rounds >= 1
    BY <2>3 DEF Eligible, RoundsOK
  <2>7. n \in CreditQueueType /\ n.queue = [c.queue EXCEPT ![p][e] = Tail(@)]
    BY <2>3, <2>6, GrantedFacts, ZenonT(60)
  <2>8. Bypass(n, x, y) < Bypass(c, x, y) \/ n.queue[x][y] = Tail(c.queue[x][y])
    <3>1. CASE p = x /\ e = y
      BY <2>3, <2>7, <3>1 DEF CreditQueueType
    <3>2. CASE ~(p = x /\ e = y)
      BY <2>3, <2>4, <2>7, <3>2, GrantedOvertakes
    <3>3. QED
      BY <3>1, <3>2
  <2> HIDE DEF n
  <2>9. QED
    BY <2>3, <2>5, <2>6, <2>8
<1>3. QED
  BY <1>1, <1>2

LEMMA PopRounds ==
  ASSUME NEW c \in CreditQueueType, RoundsOK(c)
  PROVE  RoundsOK(Pop(c).cq)
<1>1. RoundsOK(Unsuccessful(c))
  <2>1. c.it \in Priority /\ Weight[c.it] \in Nat \ {0}
    BY RoundsType DEF CreditQueueType
  <2>2. Unsuccessful(c).it = c.it /\ Unsuccessful(c).remaining_rounds = Weight[c.it]
    BY DEF CreditQueueType, Unsuccessful
  <2>3. QED
    BY <2>1, <2>2 DEF RoundsOK
<1>2. \A p \in Priority, e \in Endpoint : RoundsOK(Granted(c, p, e))
  BY GrantedRounds
<1>3. QED
  BY <1>1, <1>2, PopCases
=============================================================================
