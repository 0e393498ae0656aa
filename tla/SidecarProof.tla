---------------------------- MODULE SidecarProof ----------------------------
(***************************************************************************)
(* Safety of the sidecar for every set of requests, every configuration of *)
(* services and downstreams and every limit.  The inductive invariant Inv  *)
(* is TypeOK, FanoutConsistent and NoStrandedRequest together with QueueOK,*)
(* which says of the credit queue what QueueHoldsWaiting and               *)
(* InFlightCountsActive say, and that its limits are positive.             *)
(*                                                                         *)
(* A handler changes the queue (a counter or a push), then the stage of    *)
(* one request, then it pops.  The lemmas state what each of these does to *)
(* a queue c and stages st that are related as the invariant requires.     *)
(***************************************************************************)
EXTENDS Sidecar, CreditQueueProof, FiniteSetTheorems

-----------------------------------------------------------------------------
(* Counting *)

OccupyingRequests == {r \in Req : Occupies(r)}
TwoSlotRequests == {r \in Req : OccupiesTwo(r)}

\* The counters of c count the requests of O, and those of W a second time.
Counts(c, O, W) ==
  /\ c.in_flight = Cardinality(O) + Cardinality(W)
  /\ \A e \in Endpoint :
       c.in_flight_per_endpoint[e] =
         Cardinality(O \cap RequestsOf(e)) + Cardinality(W \cap RequestsOf(e))

\* Adding a request to a set counts in its own endpoint only.
LEMMA CountAdd ==
  ASSUME NEW O \in SUBSET Req, NEW x \in Req \ O
  PROVE  /\ Cardinality(O) \in Nat
         /\ Cardinality(O \cup {x}) = Cardinality(O) + 1
         /\ \A e \in Endpoint :
              /\ Cardinality(O \cap RequestsOf(e)) \in Nat
              /\ Cardinality((O \cup {x}) \cap RequestsOf(e)) =
                   Cardinality(O \cap RequestsOf(e))
                   + IF e = ServiceOf[x] THEN 1 ELSE 0
<1>1. IsFiniteSet(O)
  BY ConfigAssumption, FS_Subset
<1>2. Cardinality(O) \in Nat /\ Cardinality(O \cup {x}) = Cardinality(O) + 1
  BY <1>1, FS_AddElement, FS_CardinalityType
<1>3. ASSUME NEW e \in Endpoint
      PROVE  /\ Cardinality(O \cap RequestsOf(e)) \in Nat
             /\ Cardinality((O \cup {x}) \cap RequestsOf(e)) =
                  Cardinality(O \cap RequestsOf(e))
                  + IF e = ServiceOf[x] THEN 1 ELSE 0
  <2> DEFINE A == O \cap RequestsOf(e)
  <2>1. IsFiniteSet(A)
    BY <1>1, FS_Subset
  <2>2. Cardinality(A) \in Nat
    BY <2>1, FS_CardinalityType
  <2>3. CASE e = ServiceOf[x]
    <3>1. (O \cup {x}) \cap RequestsOf(e) = A \cup {x} /\ x \notin A
      BY <2>3 DEF RequestsOf
    <3> HIDE DEF A
    <3>2. Cardinality(A \cup {x}) = Cardinality(A) + 1
      BY <2>1, <3>1, FS_AddElement
    <3>3. QED
      BY <2>2, <2>3, <3>1, <3>2 DEF A
  <2>4. CASE e # ServiceOf[x]
    <3>1. (O \cup {x}) \cap RequestsOf(e) = A
      BY <2>4 DEF RequestsOf
    <3> HIDE DEF A
    <3>2. QED
      BY <2>2, <2>4, <3>1 DEF A
  <2>5. QED
    BY <2>3, <2>4
<1>4. QED
  BY <1>2, <1>3

LEMMA CountType ==
  ASSUME NEW O \in SUBSET Req
  PROVE  /\ Cardinality(O) \in Nat
         /\ \A e \in Endpoint :
              /\ Cardinality(O \cap RequestsOf(e)) \in Nat
              /\ Cardinality(O \cap RequestsOf(e)) <= Cardinality(O)
<1>1. IsFiniteSet(O)
  BY ConfigAssumption, FS_Subset
<1>2. ASSUME NEW e \in Endpoint
      PROVE  /\ Cardinality(O \cap RequestsOf(e)) \in Nat
             /\ Cardinality(O \cap RequestsOf(e)) <= Cardinality(O)
  <2>1. O \cap RequestsOf(e) \in SUBSET O
    OBVIOUS
  <2>2. QED
    BY <1>1, <2>1, FS_Subset, FS_CardinalityType
<1>3. QED
  BY <1>1, <1>2, FS_CardinalityType

\* The counters of n are the ones of c with one more (less) at endpoint e.
CountersUp(n, c, e) ==
  /\ n.in_flight = c.in_flight + 1
  /\ n.in_flight_per_endpoint = [c.in_flight_per_endpoint EXCEPT ![e] = @ + 1]
CountersDown(n, c, e) ==
  /\ n.in_flight = c.in_flight - 1
  /\ n.in_flight_per_endpoint = [c.in_flight_per_endpoint EXCEPT ![e] = @ - 1]

LEMMA CountsAdd ==
  ASSUME NEW c \in CreditQueueType, NEW n,
         NEW O \in SUBSET Req, NEW W \in SUBSET Req, Counts(c, O, W),
         NEW x \in Req, CountersUp(n, c, ServiceOf[x])
  PROVE  /\ x \notin O => Counts(n, O \cup {x}, W)
         /\ x \notin W => Counts(n, O, W \cup {x})
<1>1. c.in_flight_per_endpoint \in [Endpoint -> Int] /\ ServiceOf[x] \in Endpoint
  BY ConfigAssumption DEF CreditQueueType
<1>2. \A e \in Endpoint :
        n.in_flight_per_endpoint[e] =
          c.in_flight_per_endpoint[e] + IF e = ServiceOf[x] THEN 1 ELSE 0
  BY <1>1 DEF CountersUp
<1>3. n.in_flight = c.in_flight + 1
  BY DEF CountersUp
<1>4. /\ Cardinality(W) \in Nat
      /\ \A e \in Endpoint : Cardinality(W \cap RequestsOf(e)) \in Nat
  BY CountType
<1>5. /\ Cardinality(O) \in Nat
      /\ \A e \in Endpoint : Cardinality(O \cap RequestsOf(e)) \in Nat
  BY CountType
<1>6. ASSUME x \notin O PROVE Counts(n, O \cup {x}, W)
  <2>1. /\ Cardinality(O \cup {x}) = Cardinality(O) + 1
        /\ \A e \in Endpoint :
             Cardinality((O \cup {x}) \cap RequestsOf(e)) =
               Cardinality(O \cap RequestsOf(e))
               + IF e = ServiceOf[x] THEN 1 ELSE 0
    BY <1>6, CountAdd
  <2>2. n.in_flight = Cardinality(O \cup {x}) + Cardinality(W)
    BY <1>3, <1>4, <1>5, <2>1 DEF Counts
  <2>3. ASSUME NEW e \in Endpoint
        PROVE  n.in_flight_per_endpoint[e] =
                 Cardinality((O \cup {x}) \cap RequestsOf(e))
                 + Cardinality(W \cap RequestsOf(e))
    <3>1. c.in_flight_per_endpoint[e] =
            Cardinality(O \cap RequestsOf(e)) + Cardinality(W \cap RequestsOf(e))
      BY DEF Counts
    <3>2. QED
      BY <1>2, <1>4, <1>5, <2>1, <3>1
  <2>4. QED
    BY <2>2, <2>3 DEF Counts
<1>7. ASSUME x \notin W PROVE Counts(n, O, W \cup {x})
  <2>1. /\ Cardinality(W \cup {x}) = Cardinality(W) + 1
        /\ \A e \in Endpoint :
             Cardinality((W \cup {x}) \cap RequestsOf(e)) =
               Cardinality(W \cap RequestsOf(e))
               + IF e = ServiceOf[x] THEN 1 ELSE 0
    BY <1>7, CountAdd
  <2>2. n.in_flight = Cardinality(O) + Cardinality(W \cup {x})
    BY <1>3, <1>4, <1>5, <2>1 DEF Counts
  <2>3. ASSUME NEW e \in Endpoint
        PROVE  n.in_flight_per_endpoint[e] =
                 Cardinality(O \cap RequestsOf(e))
                 + Cardinality((W \cup {x}) \cap RequestsOf(e))
    <3>1. c.in_flight_per_endpoint[e] =
            Cardinality(O \cap RequestsOf(e)) + Cardinality(W \cap RequestsOf(e))
      BY DEF Counts
    <3>2. QED
      BY <1>2, <1>4, <1>5, <2>1, <3>1
  <2>4. QED
    BY <2>2, <2>3 DEF Counts
<1>8. QED
  BY <1>6, <1>7

LEMMA CountsRemove ==
  ASSUME NEW c \in CreditQueueType, NEW n,
         NEW O \in SUBSET Req, NEW W \in SUBSET Req, Counts(c, O, W),
         NEW x \in Req, CountersDown(n, c, ServiceOf[x])
  PROVE  /\ x \in O => Counts(n, O \ {x}, W)
         /\ x \in W => Counts(n, O, W \ {x})
<1>1. c.in_flight_per_endpoint \in [Endpoint -> Int] /\ ServiceOf[x] \in Endpoint
  BY ConfigAssumption DEF CreditQueueType
<1>2. \A e \in Endpoint :
        n.in_flight_per_endpoint[e] =
          c.in_flight_per_endpoint[e] - IF e = ServiceOf[x] THEN 1 ELSE 0
  BY <1>1 DEF CountersDown
<1>3. n.in_flight = c.in_flight - 1
  BY DEF CountersDown, CreditQueueType
<1>4. /\ Cardinality(W) \in Nat
      /\ \A e \in Endpoint : Cardinality(W \cap RequestsOf(e)) \in Nat
  BY CountType
<1>5. /\ Cardinality(O) \in Nat
      /\ \A e \in Endpoint : Cardinality(O \cap RequestsOf(e)) \in Nat
  BY CountType
<1>6. ASSUME x \in O PROVE Counts(n, O \ {x}, W)
  <2> DEFINE P == O \ {x}
  <2>1. P \in SUBSET Req /\ x \in Req \ P /\ O = P \cup {x}
    BY <1>6
  <2> HIDE DEF P
  <2>2. /\ Cardinality(P) \in Nat
        /\ Cardinality(O) = Cardinality(P) + 1
        /\ \A e \in Endpoint :
             /\ Cardinality(P \cap RequestsOf(e)) \in Nat
             /\ Cardinality(O \cap RequestsOf(e)) =
                  Cardinality(P \cap RequestsOf(e))
                  + IF e = ServiceOf[x] THEN 1 ELSE 0
    BY <2>1, CountAdd
  <2>3. n.in_flight = Cardinality(P) + Cardinality(W)
    BY <1>3, <1>4, <1>5, <2>2 DEF Counts
  <2>4. ASSUME NEW e \in Endpoint
        PROVE  n.in_flight_per_endpoint[e] =
                 Cardinality(P \cap RequestsOf(e))
                 + Cardinality(W \cap RequestsOf(e))
    <3>1. c.in_flight_per_endpoint[e] =
            Cardinality(O \cap RequestsOf(e)) + Cardinality(W \cap RequestsOf(e))
      BY DEF Counts
    <3>2. QED
      BY <1>2, <1>4, <1>5, <2>2, <3>1
  <2>5. Counts(n, P, W)
    BY <2>3, <2>4 DEF Counts
  <2>6. QED
    BY <2>5 DEF P
<1>7. ASSUME x \in W PROVE Counts(n, O, W \ {x})
  <2> DEFINE P == W \ {x}
  <2>1. P \in SUBSET Req /\ x \in Req \ P /\ W = P \cup {x}
    BY <1>7
  <2> HIDE DEF P
  <2>2. /\ Cardinality(P) \in Nat
        /\ Cardinality(W) = Cardinality(P) + 1
        /\ \A e \in Endpoint :
             /\ Cardinality(P \cap RequestsOf(e)) \in Nat
             /\ Cardinality(W \cap RequestsOf(e)) =
                  Cardinality(P \cap RequestsOf(e))
                  + IF e = ServiceOf[x] THEN 1 ELSE 0
    BY <2>1, CountAdd
  <2>3. n.in_flight = Cardinality(O) + Cardinality(P)
    BY <1>3, <1>4, <1>5, <2>2 DEF Counts
  <2>4. ASSUME NEW e \in Endpoint
        PROVE  n.in_flight_per_endpoint[e] =
                 Cardinality(O \cap RequestsOf(e))
                 + Cardinality(P \cap RequestsOf(e))
    <3>1. c.in_flight_per_endpoint[e] =
            Cardinality(O \cap RequestsOf(e)) + Cardinality(W \cap RequestsOf(e))
      BY DEF Counts
    <3>2. QED
      BY <1>2, <1>4, <1>5, <2>2, <3>1
  <2>5. Counts(n, O, P)
    BY <2>3, <2>4 DEF Counts
  <2>6. QED
    BY <2>5 DEF P
<1>8. QED
  BY <1>6, <1>7

-----------------------------------------------------------------------------
(* The credit queue and the stages *)

QueueType == [Priority -> [Endpoint -> Seq(Req)]]

LEMMA TailFacts ==
  ASSUME NEW s \in Seq(Req), s # <<>>
  PROVE  /\ Head(s) \in Req
         /\ Len(s) \in Nat /\ DOMAIN s = 1 .. Len(s)
         /\ 1 \in DOMAIN s /\ Head(s) = s[1]
         /\ DOMAIN Tail(s) = 1 .. Len(s) - 1
         /\ \A i \in 1 .. Len(s) - 1 : Tail(s)[i] = s[i + 1]
<1>1. Len(s) \in Nat /\ Len(s) # 0 /\ DOMAIN s = 1 .. Len(s)
  OBVIOUS
<1>2. 1 \in DOMAIN s /\ Head(s) = s[1] /\ Head(s) \in Req
  BY <1>1
<1>3. Tail(s) \in Seq(Req) /\ Len(Tail(s)) = Len(s) - 1
  BY <1>1
<1>4. \A i \in 1 .. Len(s) - 1 : Tail(s)[i] = s[i + 1]
  BY <1>1
<1>5. QED
  BY <1>1, <1>2, <1>3, <1>4

\* Receiving a Credit Request.
LEMMA MatchesPush ==
  ASSUME NEW q \in QueueType, NEW st \in [Req -> Stage], QueueMatches(q, st),
         NEW r \in Req, st[r] # "queued", PriorityOf[r] \in Priority
  PROVE  QueueMatches([q EXCEPT ![PriorityOf[r]][ServiceOf[r]] = Append(@, r)],
                      [st EXCEPT ![r] = "queued"])
<1> DEFINE P == PriorityOf[r]
           E == ServiceOf[r]
           q2 == [q EXCEPT ![P][E] = Append(@, r)]
           st2 == [st EXCEPT ![r] = "queued"]
<1>1. P \in Priority /\ E \in Endpoint
  BY ConfigAssumption
<1>2. /\ \A p \in Priority, e \in Endpoint : q[p][e] \in Seq(Req)
      /\ q2[P][E] = Append(q[P][E], r)
      /\ \A p \in Priority, e \in Endpoint :
           ~(p = P /\ e = E) => q2[p][e] = q[p][e]
  BY <1>1 DEF QueueType
<1>3. /\ Len(q[P][E]) \in Nat /\ DOMAIN q[P][E] = 1 .. Len(q[P][E])
      /\ DOMAIN q2[P][E] = 1 .. Len(q[P][E]) + 1
      /\ q2[P][E][Len(q[P][E]) + 1] = r
      /\ \A i \in 1 .. Len(q[P][E]) : q2[P][E][i] = q[P][E][i]
  BY <1>1, <1>2
<1>4. /\ st2[r] = "queued"
      /\ \A x \in Req : x # r => st2[x] = st[x]
  OBVIOUS
<1> HIDE DEF q2, st2
<1>5. ASSUME NEW p \in Priority, NEW e \in Endpoint, NEW i \in DOMAIN q[p][e]
      PROVE  /\ q[p][e][i] \in Req /\ q[p][e][i] # r
             /\ st[q[p][e][i]] = "queued"
             /\ ServiceOf[q[p][e][i]] = e /\ PriorityOf[q[p][e][i]] = p
             /\ \A j \in DOMAIN q[p][e] : q[p][e][j] = q[p][e][i] => j = i
  <2>1. q[p][e][i] \in Req
    BY <1>2
  <2>2. QED
    BY <2>1 DEF QueueMatches
<1>6. ASSUME NEW p \in Priority, NEW e \in Endpoint, NEW i \in DOMAIN q2[p][e]
      PROVE  /\ st2[q2[p][e][i]] = "queued"
             /\ ServiceOf[q2[p][e][i]] = e /\ PriorityOf[q2[p][e][i]] = p
             /\ \A j \in DOMAIN q2[p][e] : q2[p][e][j] = q2[p][e][i] => j = i
  <2>1. CASE p = P /\ e = E
    <3>1. \A j \in DOMAIN q2[P][E] : j # Len(q[P][E]) + 1 =>
            /\ j \in DOMAIN q[P][E] /\ q2[P][E][j] = q[P][E][j]
            /\ q2[P][E][j] \in Req \ {r}
      <4> SUFFICES ASSUME NEW j \in DOMAIN q2[P][E], j # Len(q[P][E]) + 1
                   PROVE  /\ j \in DOMAIN q[P][E] /\ q2[P][E][j] = q[P][E][j]
                          /\ q2[P][E][j] \in Req \ {r}
        OBVIOUS
      <4>1. j \in 1 .. Len(q[P][E])
        BY <1>3
      <4>2. j \in DOMAIN q[P][E] /\ q2[P][E][j] = q[P][E][j]
        BY <1>3, <4>1
      <4>3. QED
        BY <1>1, <1>5, <4>2
    <3>2. CASE i = Len(q[P][E]) + 1
      <4>1. q2[P][E][i] = r
        BY <1>3, <3>2
      <4>2. ServiceOf[r] = E /\ PriorityOf[r] = P
        OBVIOUS
      <4>3. \A j \in DOMAIN q2[P][E] : q2[P][E][j] = q2[P][E][i] => j = i
        BY <3>1, <3>2, <4>1
      <4>4. QED
        BY <1>4, <2>1, <4>1, <4>2, <4>3
    <3>3. CASE i # Len(q[P][E]) + 1
      <4>1. /\ i \in DOMAIN q[P][E] /\ q2[P][E][i] = q[P][E][i]
            /\ q2[P][E][i] \in Req \ {r}
        BY <2>1, <3>1, <3>3
      <4>2. /\ st[q[P][E][i]] = "queued"
            /\ ServiceOf[q[P][E][i]] = E /\ PriorityOf[q[P][E][i]] = P
            /\ \A j \in DOMAIN q[P][E] : q[P][E][j] = q[P][E][i] => j = i
        BY <1>1, <1>5, <4>1
      <4>3. \A j \in DOMAIN q2[P][E] : q2[P][E][j] = q2[P][E][i] => j = i
        BY <1>3, <3>1, <4>1, <4>2
      <4>4. QED
        BY <1>4, <2>1, <4>1, <4>2, <4>3
    <3>4. QED
      BY <3>2, <3>3
  <2>2. CASE ~(p = P /\ e = E)
    BY <1>2, <1>4, <1>5, <2>2
  <2>3. QED
    BY <2>1, <2>2
<1>7. ASSUME NEW x \in Req, st2[x] = "queued"
      PROVE  /\ PriorityOf[x] \in Priority
             /\ \E i \in DOMAIN q2[PriorityOf[x]][ServiceOf[x]] :
                  q2[PriorityOf[x]][ServiceOf[x]][i] = x
  <2>1. CASE x = r
    <3>1. /\ Len(q[P][E]) + 1 \in DOMAIN q2[P][E]
          /\ q2[P][E][Len(q[P][E]) + 1] = r
      BY <1>3
    <3>2. QED
      BY <1>1, <2>1, <3>1, Zenon
  <2>2. CASE x # r
    <3>1. PriorityOf[x] \in Priority /\ ServiceOf[x] \in Endpoint
      BY <1>4, <1>7, <2>2, ConfigAssumption DEF QueueMatches
    <3>2. PICK i \in DOMAIN q[PriorityOf[x]][ServiceOf[x]] :
            q[PriorityOf[x]][ServiceOf[x]][i] = x
      BY <1>4, <1>7, <2>2 DEF QueueMatches
    <3>3. CASE PriorityOf[x] = P /\ ServiceOf[x] = E
      <4>1. i \in 1 .. Len(q[P][E]) /\ q[P][E][i] = x
        <5>1. i \in DOMAIN q[P][E] /\ q[P][E][i] = x
          BY <3>2, <3>3
        <5>2. QED
          BY <1>3, <5>1
      <4>2. i \in DOMAIN q2[P][E]
        BY <1>3, <4>1
      <4>3. q2[P][E][i] = x
        BY <1>3, <4>1
      <4>4. QED
        BY <3>1, <3>3, <4>2, <4>3
    <3>4. CASE ~(PriorityOf[x] = P /\ ServiceOf[x] = E)
      BY <1>2, <3>1, <3>2, <3>4
    <3>5. QED
      BY <3>3, <3>4
  <2>3. QED
    BY <2>1, <2>2
<1>8. QueueMatches(q2, st2)
  BY <1>6, <1>7 DEF QueueMatches
<1>9. QED
  BY <1>8 DEF q2, st2

\* Granting the head of a queue.
LEMMA MatchesPop ==
  ASSUME NEW q \in QueueType, NEW st \in [Req -> Stage], QueueMatches(q, st),
         NEW P \in Priority, NEW E \in Endpoint, q[P][E] # <<>>
  PROVE  /\ Head(q[P][E]) \in Req
         /\ st[Head(q[P][E])] = "queued"
         /\ ServiceOf[Head(q[P][E])] = E
         /\ QueueMatches([q EXCEPT ![P][E] = Tail(@)],
                         [st EXCEPT ![Head(q[P][E])] = "granted"])
<1> DEFINE r == Head(q[P][E])
           q2 == [q EXCEPT ![P][E] = Tail(@)]
           st2 == [st EXCEPT ![r] = "granted"]
<1>1. \A p \in Priority, e \in Endpoint : q[p][e] \in Seq(Req)
  BY DEF QueueType
<1>2. /\ q2[P][E] = Tail(q[P][E])
      /\ \A p \in Priority, e \in Endpoint :
           ~(p = P /\ e = E) => q2[p][e] = q[p][e]
  BY DEF QueueType
<1>3. /\ r \in Req
      /\ Len(q[P][E]) \in Nat /\ DOMAIN q[P][E] = 1 .. Len(q[P][E])
      /\ 1 \in DOMAIN q[P][E] /\ r = q[P][E][1]
      /\ DOMAIN q2[P][E] = 1 .. Len(q[P][E]) - 1
      /\ \A i \in 1 .. Len(q[P][E]) - 1 : q2[P][E][i] = q[P][E][i + 1]
  <2> DEFINE s == q[P][E]
  <2>1. s \in Seq(Req) /\ s # <<>>
    BY <1>1
  <2> HIDE DEF s, q2
  <2>2. /\ Head(s) \in Req
        /\ Len(s) \in Nat /\ DOMAIN s = 1 .. Len(s)
        /\ 1 \in DOMAIN s /\ Head(s) = s[1]
        /\ DOMAIN Tail(s) = 1 .. Len(s) - 1
        /\ \A i \in 1 .. Len(s) - 1 : Tail(s)[i] = s[i + 1]
    BY <2>1, TailFacts
  <2>3. r = Head(s) /\ q2[P][E] = Tail(s)
    BY <1>2 DEF s
  <2> HIDE DEF r
  <2>4. QED
    BY <2>2, <2>3 DEF s
<1>4. /\ st2[r] = "granted"
      /\ \A x \in Req : x # r => st2[x] = st[x]
  BY <1>3
<1> HIDE DEF q2, st2, r
<1>5. ASSUME NEW p \in Priority, NEW e \in Endpoint, NEW i \in DOMAIN q[p][e]
      PROVE  /\ q[p][e][i] \in Req
             /\ st[q[p][e][i]] = "queued"
             /\ ServiceOf[q[p][e][i]] = e /\ PriorityOf[q[p][e][i]] = p
             /\ \A j \in DOMAIN q[p][e] : q[p][e][j] = q[p][e][i] => j = i
  <2>1. q[p][e][i] \in Req
    BY <1>1
  <2>2. QED
    BY <2>1 DEF QueueMatches
<1>6. st[r] = "queued" /\ ServiceOf[r] = E /\ PriorityOf[r] = P
  BY <1>3, <1>5
<1>7. ASSUME NEW p \in Priority, NEW e \in Endpoint, NEW i \in DOMAIN q2[p][e]
      PROVE  /\ st2[q2[p][e][i]] = "queued"
             /\ ServiceOf[q2[p][e][i]] = e /\ PriorityOf[q2[p][e][i]] = p
             /\ \A j \in DOMAIN q2[p][e] : q2[p][e][j] = q2[p][e][i] => j = i
  <2>1. CASE p = P /\ e = E
    <3>1. /\ i + 1 \in DOMAIN q[P][E] /\ i + 1 # 1 /\ i \in Int
          /\ q2[P][E][i] = q[P][E][i + 1]
      <4>1. i \in 1 .. Len(q[P][E]) - 1
        <5>1. i \in DOMAIN q2[P][E]
          BY <2>1
        <5>2. QED
          BY <1>3, <5>1
      <4>2. q2[P][E][i] = q[P][E][i + 1]
        BY <1>3, <4>1
      <4>3. i + 1 \in 1 .. Len(q[P][E]) /\ i + 1 # 1 /\ i \in Int
        BY <1>3, <4>1
      <4>4. QED
        BY <1>3, <4>2, <4>3
    <3>2. q[P][E][i + 1] # r
      BY <1>3, <1>5, <3>1
    <3>3. /\ st2[q2[P][E][i]] = "queued"
          /\ ServiceOf[q2[P][E][i]] = E /\ PriorityOf[q2[P][E][i]] = P
      BY <1>4, <1>5, <3>1, <3>2
    <3>4. ASSUME NEW j \in DOMAIN q2[P][E], q2[P][E][j] = q2[P][E][i]
          PROVE  j = i
      <4>1. /\ j + 1 \in DOMAIN q[P][E] /\ j \in Int
            /\ q2[P][E][j] = q[P][E][j + 1]
        <5>1. j \in 1 .. Len(q[P][E]) - 1
          BY <1>3
        <5>2. q2[P][E][j] = q[P][E][j + 1]
          BY <1>3, <5>1
        <5>3. j + 1 \in 1 .. Len(q[P][E]) /\ j \in Int
          BY <1>3, <5>1
        <5>4. QED
          BY <1>3, <5>2, <5>3
      <4>2. j + 1 = i + 1
        <5>1. q[P][E][j + 1] = q[P][E][i + 1]
          BY <3>1, <3>4, <4>1
        <5> DEFINE k == i + 1
                   m == j + 1
        <5>2. k \in DOMAIN q[P][E] /\ m \in DOMAIN q[P][E]
              /\ q[P][E][m] = q[P][E][k]
          BY <3>1, <4>1, <5>1
        <5> HIDE DEF k, m
        <5>3. m = k
          BY <1>5, <5>2
        <5>4. QED
          BY <5>3 DEF k, m
      <4>3. QED
        BY <3>1, <4>1, <4>2
    <3>5. QED
      BY <2>1, <3>3, <3>4
  <2>2. CASE ~(p = P /\ e = E)
    <3>1. q2[p][e] = q[p][e]
      BY <1>2, <2>2
    <3>2. q[p][e][i] # r
      BY <1>5, <1>6, <2>2, <3>1
    <3>3. QED
      BY <1>4, <1>5, <3>1, <3>2
  <2>3. QED
    BY <2>1, <2>2
<1>8. ASSUME NEW x \in Req, st2[x] = "queued"
      PROVE  /\ PriorityOf[x] \in Priority
             /\ \E i \in DOMAIN q2[PriorityOf[x]][ServiceOf[x]] :
                  q2[PriorityOf[x]][ServiceOf[x]][i] = x
  <2>1. x # r /\ st[x] = "queued"
    BY <1>4, <1>8
  <2>2. PriorityOf[x] \in Priority /\ ServiceOf[x] \in Endpoint
    BY <2>1, ConfigAssumption DEF QueueMatches
  <2>3. PICK i \in DOMAIN q[PriorityOf[x]][ServiceOf[x]] :
          q[PriorityOf[x]][ServiceOf[x]][i] = x
    BY <2>1 DEF QueueMatches
  <2>4. CASE PriorityOf[x] = P /\ ServiceOf[x] = E
    <3>1. i \in 1 .. Len(q[P][E]) /\ i # 1
      BY <1>3, <2>1, <2>3, <2>4
    <3>2. i - 1 \in DOMAIN q2[P][E] /\ q2[P][E][i - 1] = q[P][E][i - 1 + 1]
      <4>1. i - 1 \in 1 .. Len(q[P][E]) - 1
        BY <1>3, <3>1
      <4>2. QED
        BY <1>3, <4>1
    <3>3. i - 1 + 1 = i
      BY <3>1
    <3>4. QED
      BY <2>2, <2>3, <2>4, <3>2, <3>3
  <2>5. CASE ~(PriorityOf[x] = P /\ ServiceOf[x] = E)
    BY <1>2, <2>2, <2>3, <2>5
  <2>6. QED
    BY <2>4, <2>5
<1>9. QueueMatches(q2, st2)
  BY <1>7, <1>8 DEF QueueMatches
<1>10. QED
  BY <1>3, <1>6, <1>9 DEF q2, st2, r

\* A request that neither was nor becomes queued changes its stage.
LEMMA MatchesStage ==
  ASSUME NEW q \in QueueType, NEW st \in [Req -> Stage], QueueMatches(q, st),
         NEW r \in Req, st[r] # "queued", NEW s \in Stage, s # "queued"
  PROVE  QueueMatches(q, [st EXCEPT ![r] = s])
<1> DEFINE st2 == [st EXCEPT ![r] = s]
<1>1. /\ st2[r] # "queued"
      /\ \A x \in Req : x # r => st2[x] = st[x]
  OBVIOUS
<1> HIDE DEF st2
<1>2. ASSUME NEW p \in Priority, NEW e \in Endpoint, NEW i \in DOMAIN q[p][e]
      PROVE  q[p][e][i] \in Req /\ st2[q[p][e][i]] = "queued"
  <2>1. q[p][e] \in Seq(Req)
    BY DEF QueueType
  <2>2. q[p][e][i] \in Req
    BY <2>1
  <2>3. st[q[p][e][i]] = "queued"
    BY DEF QueueMatches
  <2>4. QED
    BY <1>1, <2>2, <2>3
<1>3. QueueMatches(q, st2)
  BY <1>1, <1>2 DEF QueueMatches
<1>4. QED
  BY <1>3 DEF st2

-----------------------------------------------------------------------------
(* The queue between two handlers, and what a pop does to it *)

LimitsPositive(c) ==
  /\ c.global_limit \in Nat \ {0}
  /\ c.per_endpoint_limit \in [Endpoint -> PossibleLimits]

\* Queue c agrees with the stages st and counts the requests of O and W.
QueueOK(c, st, O, W) ==
  /\ c \in CreditQueueType
  /\ c.remaining_rounds >= 1
  /\ LimitsPositive(c)
  /\ st \in [Req -> Stage]
  /\ QueueMatches(c.queue, st)
  /\ O \in SUBSET Req /\ W \in SUBSET Req
  /\ Counts(c, O, W)

StagesAfter(st, g) == IF g = NoReq THEN st ELSE [st EXCEPT ![g] = "granted"]

\* Every limit the configuration can yield is positive.
LEMMA LimitsArePositive == PossibleLimits \subseteq Nat \ {0}
<1>1. InitialLimit \in Nat \ {0}
  BY ConfigAssumption DEF InitialLimit
<1>2. ASSUME NEW e \in Endpoint, NEW k \in Ratios
      PROVE  NewLimit(e, k) \in Nat \ {0}
  <2>1. CpuCount \in Nat \ {0} /\ ExtraLimit \in Int
        /\ CpuCount * 2 + ExtraLimit >= 1 /\ k \in Nat \ {0}
    BY ConfigAssumption
  <2>2. (k + 1) * CpuCount >= CpuCount * 2
    <3>1. PICK m \in Nat : k = m + 1
      BY <2>1
    <3>2. (k + 1) * CpuCount = CpuCount * 2 + m * CpuCount
      BY <2>1, <3>1
    <3>3. m * CpuCount \in Nat
      BY <2>1
    <3>4. QED
      BY <2>1, <3>2, <3>3
  <2>3. Cardinality(Downstreams[e]) \in Nat
    <3>1. IsFiniteSet(Downstreams[e])
      BY ConfigAssumption, FS_Subset
    <3>2. QED
      BY <3>1, FS_CardinalityType
  <2>4. (k + 1) * CpuCount \in Int
    BY <2>1
  <2> DEFINE a == (k + 1) * CpuCount
             b == IF Fanout[e] = "dfanout" THEN 0
                                           ELSE Cardinality(Downstreams[e])
  <2>5. a \in Int /\ b \in Nat /\ a >= CpuCount * 2
    BY <2>2, <2>3, <2>4
  <2>6. NewLimit(e, k) = a + ExtraLimit + b
    BY DEF NewLimit
  <2> HIDE DEF a, b
  <2>7. QED
    BY <2>1, <2>5, <2>6
<1>3. QED
  BY <1>1, <1>2 DEF PossibleLimits

\* A pop turned queue and stages into n and st2, granting the requests G.
PopResult(st, n, st2, O, W, G) ==
  /\ QueueOK(n, st2, O \cup G, W)
  /\ \A x \in G : st[x] = "queued" /\ st2[x] = "granted"
  /\ \A x \in Req \ G : st2[x] = st[x]
  /\ \A x \in G :
       /\ n.in_flight <= n.global_limit
       /\ n.in_flight_per_endpoint[ServiceOf[x]]
            <= n.per_endpoint_limit[ServiceOf[x]]

\* A pop keeps the queue in order: the request it grants, if any, was queued,
\* is now granted and counted, and the limits hold with it.  If requests are
\* left waiting, some request is active.
LEMMA PopKeepsQueue ==
  ASSUME NEW c, NEW st, NEW O, NEW W, QueueOK(c, st, O, W),
         \A x \in O : st[x] # "queued",
         NEW n, n = Pop(c).cq, NEW g, g = Pop(c).grant,
         NEW st2, st2 = StagesAfter(st, g)
  PROVE  /\ \E G \in SUBSET Req : PopResult(st, n, st2, O, W, G)
         /\ Waiting(n) => n.in_flight >= 1
<1>1. /\ c \in CreditQueueType /\ c.remaining_rounds >= 1
      /\ LimitsPositive(c) /\ st \in [Req -> Stage]
      /\ QueueMatches(c.queue, st)
      /\ O \in SUBSET Req /\ W \in SUBSET Req /\ Counts(c, O, W)
  BY DEF QueueOK
<1>2. /\ c.queue \in QueueType
      /\ c.in_flight \in Int /\ c.global_limit \in Int
      /\ c.in_flight_per_endpoint \in [Endpoint -> Int]
      /\ c.per_endpoint_limit \in [Endpoint -> Int]
  BY <1>1 DEF CreditQueueType, QueueType
<1>3. /\ n \in CreditQueueType
      /\ n.remaining_rounds >= 1
      /\ n.global_limit = c.global_limit
      /\ n.per_endpoint_limit = c.per_endpoint_limit
      /\ \/ /\ g = NoReq
            /\ n.queue = c.queue
            /\ n.in_flight = c.in_flight
            /\ n.in_flight_per_endpoint = c.in_flight_per_endpoint
            /\ ~CanGrant(c)
         \/ \E p \in Priority, e \in Endpoint :
              /\ Eligible(c, p, e)
              /\ g = Head(c.queue[p][e])
              /\ g \in Req
              /\ n.queue = [c.queue EXCEPT ![p][e] = Tail(@)]
              /\ n.in_flight = c.in_flight + 1
              /\ n.in_flight_per_endpoint =
                   [c.in_flight_per_endpoint EXCEPT ![e] = @ + 1]
  BY <1>1, PopFacts, ZenonT(60)
<1>4. LimitsPositive(n)
  BY <1>1, <1>3 DEF LimitsPositive
<1>5. /\ c.in_flight \in Nat
      /\ \A e \in Endpoint : c.in_flight_per_endpoint[e] <= c.in_flight
  <2>1. /\ Cardinality(O) \in Nat /\ Cardinality(W) \in Nat
        /\ \A e \in Endpoint :
             /\ Cardinality(O \cap RequestsOf(e)) \in Nat
             /\ Cardinality(O \cap RequestsOf(e)) <= Cardinality(O)
             /\ Cardinality(W \cap RequestsOf(e)) \in Nat
             /\ Cardinality(W \cap RequestsOf(e)) <= Cardinality(W)
    BY <1>1, CountType
  <2>2. c.in_flight = Cardinality(O) + Cardinality(W)
    BY <1>1 DEF Counts
  <2>3. ASSUME NEW e \in Endpoint
        PROVE  c.in_flight_per_endpoint[e] <= c.in_flight
    <3>1. c.in_flight_per_endpoint[e] =
            Cardinality(O \cap RequestsOf(e)) + Cardinality(W \cap RequestsOf(e))
      BY <1>1 DEF Counts
    <3>2. QED
      BY <2>1, <2>2, <3>1
  <2>4. QED
    BY <2>1, <2>2, <2>3
<1>6. CASE /\ g = NoReq
           /\ n.queue = c.queue
           /\ n.in_flight = c.in_flight
           /\ n.in_flight_per_endpoint = c.in_flight_per_endpoint
           /\ ~CanGrant(c)
  <2>1. st2 = st
    BY <1>6 DEF StagesAfter
  <2>2. Counts(n, O, W)
    BY <1>1, <1>6 DEF Counts
  <2>3. QueueOK(n, st2, O, W)
    BY <1>1, <1>3, <1>4, <1>6, <2>1, <2>2 DEF QueueOK
  <2>4. Waiting(n) => n.in_flight >= 1
    <3> SUFFICES ASSUME NEW p \in Priority, NEW e \in Endpoint,
                        c.queue[p][e] # <<>>
                 PROVE  c.in_flight >= 1
      BY <1>6 DEF Waiting
    <3>1. ~Eligible(c, p, e)
      BY <1>6 DEF CanGrant, EligiblePriority
    <3>2. \/ ~(c.in_flight_per_endpoint[e] < c.per_endpoint_limit[e])
          \/ ~(c.in_flight < c.global_limit)
      BY <3>1 DEF Eligible
    <3>3. c.per_endpoint_limit[e] \in Nat \ {0} /\ c.global_limit \in Nat \ {0}
      BY <1>1, LimitsArePositive DEF LimitsPositive
    <3>4. c.in_flight_per_endpoint[e] \in Int
          /\ c.in_flight_per_endpoint[e] <= c.in_flight
      BY <1>2, <1>5
    <3>5. QED
      BY <1>5, <3>2, <3>3, <3>4
  <2>5. PopResult(st, n, st2, O, W, {})
    <3>1. O \cup {} = O
      OBVIOUS
    <3>2. QED
      BY <2>1, <2>3, <3>1 DEF PopResult
  <2>6. QED
    BY <2>4, <2>5
<1>7. CASE \E p \in Priority, e \in Endpoint :
              /\ Eligible(c, p, e)
              /\ g = Head(c.queue[p][e])
              /\ g \in Req
              /\ n.queue = [c.queue EXCEPT ![p][e] = Tail(@)]
              /\ n.in_flight = c.in_flight + 1
              /\ n.in_flight_per_endpoint =
                   [c.in_flight_per_endpoint EXCEPT ![e] = @ + 1]
  <2>1. PICK p \in Priority, e \in Endpoint :
              /\ Eligible(c, p, e)
              /\ g = Head(c.queue[p][e])
              /\ g \in Req
              /\ n.queue = [c.queue EXCEPT ![p][e] = Tail(@)]
              /\ n.in_flight = c.in_flight + 1
              /\ n.in_flight_per_endpoint =
                   [c.in_flight_per_endpoint EXCEPT ![e] = @ + 1]
    BY <1>7
  <2>2. /\ c.queue[p][e] # <<>>
        /\ c.in_flight_per_endpoint[e] < c.per_endpoint_limit[e]
        /\ c.in_flight < c.global_limit
    BY <2>1 DEF Eligible
  <2>3. st2 = [st EXCEPT ![g] = "granted"]
    BY <2>1, NoReqAssumption DEF StagesAfter
  <2>4. /\ st[g] = "queued" /\ ServiceOf[g] = e
        /\ QueueMatches(n.queue, st2)
    <3> DEFINE q == c.queue
    <3>1. q \in QueueType /\ QueueMatches(q, st) /\ q[p][e] # <<>>
      BY <1>1, <1>2, <2>2
    <3>2. n.queue = [q EXCEPT ![p][e] = Tail(@)] /\ g = Head(q[p][e])
      BY <2>1
    <3> HIDE DEF q
    <3>3. /\ st[Head(q[p][e])] = "queued"
          /\ ServiceOf[Head(q[p][e])] = e
          /\ QueueMatches([q EXCEPT ![p][e] = Tail(@)],
                          [st EXCEPT ![Head(q[p][e])] = "granted"])
      BY <1>1, <3>1, MatchesPop, ZenonT(60)
    <3>4. QED
      BY <2>3, <3>2, <3>3
  <2>5. Counts(n, O \cup {g}, W)
    <3>1. g \notin O
      BY <2>4
    <3>2. CountersUp(n, c, ServiceOf[g])
      BY <2>1, <2>4 DEF CountersUp
    <3>3. QED
      BY <1>1, <2>1, <3>1, <3>2, CountsAdd
  <2>6. st2 \in [Req -> Stage] /\ st2[g] = "granted"
        /\ \A x \in Req \ {g} : st2[x] = st[x]
    BY <1>1, <2>1, <2>3 DEF Stage
  <2>7. QueueOK(n, st2, O \cup {g}, W)
    BY <1>1, <1>3, <1>4, <2>1, <2>4, <2>5, <2>6 DEF QueueOK
  <2>8. n.in_flight <= n.global_limit /\ n.in_flight >= 1
    BY <1>2, <1>3, <1>5, <2>1, <2>2
  <2>9. n.in_flight_per_endpoint[ServiceOf[g]]
          <= n.per_endpoint_limit[ServiceOf[g]]
    <3>1. n.in_flight_per_endpoint[e] = c.in_flight_per_endpoint[e] + 1
      BY <1>2, <2>1
    <3>2. c.in_flight_per_endpoint[e] \in Int /\ c.per_endpoint_limit[e] \in Int
      BY <1>2
    <3>3. QED
      BY <1>3, <2>2, <2>4, <3>1, <3>2
  <2>10. PopResult(st, n, st2, O, W, {g})
    BY <2>4, <2>6, <2>7, <2>8, <2>9 DEF PopResult
  <2>11. QED
    BY <2>1, <2>8, <2>10
<1>8. QED
  BY <1>3, <1>6, <1>7

-----------------------------------------------------------------------------
(* What a handler does to the queue before it pops *)

LEMMA StageKeepsQueue ==
  ASSUME NEW c, NEW st, NEW O, NEW W, QueueOK(c, st, O, W),
         NEW r \in Req, st[r] # "queued", NEW s \in Stage, s # "queued"
  PROVE  QueueOK(c, [st EXCEPT ![r] = s], O, W)
<1>1. st \in [Req -> Stage] /\ c.queue \in QueueType
      /\ QueueMatches(c.queue, st)
  BY DEF QueueOK, CreditQueueType, QueueType
<1>2. QueueMatches(c.queue, [st EXCEPT ![r] = s])
  BY <1>1, MatchesStage
<1>3. [st EXCEPT ![r] = s] \in [Req -> Stage]
  BY <1>1
<1>4. QED
  BY <1>2, <1>3 DEF QueueOK

LEMMA PushKeepsQueue ==
  ASSUME NEW c, NEW st, NEW O, NEW W, QueueOK(c, st, O, W),
         NEW r \in Req, st[r] # "queued", PriorityOf[r] \in Priority
  PROVE  QueueOK(Push(c, r, ServiceOf[r], PriorityOf[r]),
                 [st EXCEPT ![r] = "queued"], O, W)
<1> DEFINE e == ServiceOf[r]
           p == PriorityOf[r]
           n == Push(c, r, e, p)
           q == c.queue
           st2 == [st EXCEPT ![r] = "queued"]
<1>1. /\ c \in CreditQueueType /\ c.remaining_rounds >= 1
      /\ LimitsPositive(c) /\ st \in [Req -> Stage]
      /\ QueueMatches(q, st) /\ q \in QueueType /\ Counts(c, O, W)
      /\ O \in SUBSET Req /\ W \in SUBSET Req
  BY DEF QueueOK, CreditQueueType, QueueType
<1>2. e \in Endpoint /\ p \in Priority
  BY ConfigAssumption
<1> HIDE DEF e, p
<1>3. /\ n \in CreditQueueType
      /\ n.queue = [q EXCEPT ![p][e] = Append(@, r)]
      /\ n.remaining_rounds = c.remaining_rounds
      /\ n.in_flight = c.in_flight
      /\ n.global_limit = c.global_limit
      /\ n.in_flight_per_endpoint = c.in_flight_per_endpoint
      /\ n.per_endpoint_limit = c.per_endpoint_limit
  BY <1>1, <1>2, PushFacts
<1> HIDE DEF n, q
<1>4. QueueMatches(n.queue, st2)
  <2>1. QueueMatches([q EXCEPT ![PriorityOf[r]][ServiceOf[r]] = Append(@, r)],
                     [st EXCEPT ![r] = "queued"])
    BY <1>1, MatchesPush
  <2>2. QED
    BY <1>3, <2>1 DEF e, p
<1>5. st2 \in [Req -> Stage]
  BY <1>1 DEF Stage
<1> HIDE DEF st2
<1>6. Counts(n, O, W) /\ LimitsPositive(n)
  BY <1>1, <1>3 DEF Counts, LimitsPositive
<1>7. QueueOK(n, st2, O, W)
  BY <1>1, <1>3, <1>4, <1>5, <1>6 DEF QueueOK
<1>8. QED
  BY <1>7 DEF n, st2, e, p

LEMMA LimitsKeepQueue ==
  ASSUME NEW c, NEW st, NEW O, NEW W, QueueOK(c, st, O, W),
         NEW e \in Endpoint, NEW n \in LimitsMaybeUpdated(c, e)
  PROVE  QueueOK(n, st, O, W)
<1>1. CASE n = c
  BY <1>1
<1>2. ASSUME NEW k \in Ratios, n = UpdateLimits(c, e, k)
      PROVE  QueueOK(n, st, O, W)
  <2> DEFINE l == NewLimit(e, k)
             u == UpdateEndpointLimit(c, l, e)
             gl == LeafGlobalLimit(u.per_endpoint_limit)
  <2>1. l \in PossibleLimits /\ PossibleLimits \subseteq Nat \ {0}
    BY LimitsArePositive DEF PossibleLimits
  <2> HIDE DEF l
  <2>2. l \in Int /\ c \in CreditQueueType /\ LimitsPositive(c)
    <3>1. l \in Int
      BY <2>1
    <3>2. QED
      BY <3>1 DEF QueueOK
  <2>3. /\ u \in CreditQueueType
        /\ u.queue = c.queue
        /\ u.remaining_rounds = c.remaining_rounds
        /\ u.in_flight = c.in_flight
        /\ u.global_limit = c.global_limit
        /\ u.in_flight_per_endpoint = c.in_flight_per_endpoint
        /\ u.per_endpoint_limit = [c.per_endpoint_limit EXCEPT ![e] = l]
    BY <2>2, LimitFacts
  <2> HIDE DEF u
  <2>4. u.per_endpoint_limit \in [Endpoint -> PossibleLimits]
        /\ u.global_limit \in Nat \ {0}
    BY <2>1, <2>2, <2>3 DEF LimitsPositive
  <2>5. gl \in Nat \ {0}
    BY <2>4, GlobalLimitAssumption
  <2> HIDE DEF gl
  <2>5a. gl \in Int
    BY <2>5
  <2> DEFINE v == UpdateGlobalLimit(u, gl)
  <2>6. /\ v \in CreditQueueType
        /\ v.queue = u.queue
        /\ v.remaining_rounds = u.remaining_rounds
        /\ v.in_flight = u.in_flight
        /\ v.global_limit = gl
        /\ v.in_flight_per_endpoint = u.in_flight_per_endpoint
        /\ v.per_endpoint_limit = u.per_endpoint_limit
    BY <2>3, <2>5a, LimitFacts, ZenonT(60)
  <2> HIDE DEF v
  <2>7. n = u \/ n = v
    BY <1>2 DEF UpdateLimits, u, v, gl, l
  <2>8. QueueOK(u, st, O, W)
    BY <2>3, <2>4 DEF QueueOK, Counts, LimitsPositive
  <2>9. QueueOK(v, st, O, W)
    BY <2>3, <2>4, <2>5, <2>6 DEF QueueOK, Counts, LimitsPositive
  <2>10. QED
    BY <2>7, <2>8, <2>9
<1>3. QED
  BY <1>1, <1>2 DEF LimitsMaybeUpdated

LEMMA CounterKeepsQueue ==
  ASSUME NEW c, NEW st, NEW O, NEW W, QueueOK(c, st, O, W), NEW r \in Req
  PROVE  /\ r \in O => QueueOK(DecrementInFlight(c, ServiceOf[r]), st, O \ {r}, W)
         /\ r \in W => QueueOK(DecrementInFlight(c, ServiceOf[r]), st, O, W \ {r})
         /\ r \notin O =>
              QueueOK(IncrementInFlight(c, ServiceOf[r]), st, O \cup {r}, W)
         /\ r \notin W =>
              QueueOK(IncrementInFlight(c, ServiceOf[r]), st, O, W \cup {r})
         /\ IncrementInFlight(c, ServiceOf[r]).in_flight = c.in_flight + 1
         /\ IncrementInFlight(c, ServiceOf[r]).queue = c.queue
<1> DEFINE e == ServiceOf[r]
           d == DecrementInFlight(c, e)
           i == IncrementInFlight(c, e)
<1>1. c \in CreditQueueType /\ e \in Endpoint
      /\ O \in SUBSET Req /\ W \in SUBSET Req /\ Counts(c, O, W)
  BY ConfigAssumption DEF QueueOK
<1>2. /\ d \in CreditQueueType
      /\ d.queue = c.queue
      /\ d.remaining_rounds = c.remaining_rounds
      /\ d.in_flight = c.in_flight - 1
      /\ d.global_limit = c.global_limit
      /\ d.in_flight_per_endpoint =
           [c.in_flight_per_endpoint EXCEPT ![e] = @ - 1]
      /\ d.per_endpoint_limit = c.per_endpoint_limit
  BY <1>1, DecrementFacts
<1>3. /\ i \in CreditQueueType
      /\ i.queue = c.queue
      /\ i.remaining_rounds = c.remaining_rounds
      /\ i.in_flight = c.in_flight + 1
      /\ i.global_limit = c.global_limit
      /\ i.in_flight_per_endpoint =
           [c.in_flight_per_endpoint EXCEPT ![e] = @ + 1]
      /\ i.per_endpoint_limit = c.per_endpoint_limit
  BY <1>1, IncrementFacts
<1> HIDE DEF d, i
<1>4. CountersDown(d, c, e) /\ CountersUp(i, c, e)
  BY <1>2, <1>3 DEF CountersDown, CountersUp
<1>5. ASSUME NEW A \in SUBSET Req, NEW B \in SUBSET Req, Counts(d, A, B)
      PROVE  QueueOK(d, st, A, B)
  BY <1>2, <1>5 DEF QueueOK, LimitsPositive
<1>6. ASSUME NEW A \in SUBSET Req, NEW B \in SUBSET Req, Counts(i, A, B)
      PROVE  QueueOK(i, st, A, B)
  BY <1>3, <1>6 DEF QueueOK, LimitsPositive
<1>7. /\ r \in O => QueueOK(d, st, O \ {r}, W)
      /\ r \in W => QueueOK(d, st, O, W \ {r})
  <2>1. /\ r \in O => Counts(d, O \ {r}, W)
        /\ r \in W => Counts(d, O, W \ {r})
    BY <1>1, <1>4, CountsRemove
  <2>2. O \ {r} \in SUBSET Req /\ W \ {r} \in SUBSET Req
    BY <1>1
  <2>3. QED
    BY <1>1, <1>5, <2>1, <2>2
<1>8. /\ r \notin O => QueueOK(i, st, O \cup {r}, W)
      /\ r \notin W => QueueOK(i, st, O, W \cup {r})
  <2>1. /\ r \notin O => Counts(i, O \cup {r}, W)
        /\ r \notin W => Counts(i, O, W \cup {r})
    BY <1>1, <1>4, CountsAdd
  <2>2. O \cup {r} \in SUBSET Req /\ W \cup {r} \in SUBSET Req
    BY <1>1
  <2>3. QED
    BY <1>1, <1>6, <2>1, <2>2
<1>9. QED
  BY <1>3, <1>7, <1>8 DEF d, i

-----------------------------------------------------------------------------
(* Requests that a handler does not touch *)

LEMMA SlotsUnchanged ==
  ASSUME NEW x \in Req, call'[x] = call[x], stage'[x] = stage[x]
  PROVE  /\ Occupies(x)' <=> Occupies(x)
         /\ OccupiesTwo(x)' <=> OccupiesTwo(x)
  BY DEF Occupies, OccupiesTwo, AllSent, SomeAnswered, Blocked, Sent,
         DownstreamsOf, FanoutOf

LEMMA SlotsGranted ==
  ASSUME NEW x \in Req, stage[x] = "queued", stage'[x] = "granted"
  PROVE  Occupies(x)' /\ ~Occupies(x) /\ ~OccupiesTwo(x)' /\ ~OccupiesTwo(x)
  BY DEF Occupies, OccupiesTwo

LEMMA FanoutUnchanged ==
  ASSUME NEW x \in Req, FanoutOK(x), call'[x] = call[x],
         pfanout_req'[x] = pfanout_req[x], pfanout_res'[x] = pfanout_res[x],
         dfanout_service'[x] = dfanout_service[x],
         \A d \in Downstream : x \in ppm_queue'[d] <=> x \in ppm_queue[d],
         \/ stage'[x] = "local"
         \/ stage[x] # "local"
         \/ call[x] = NoCalls /\ pfanout_req[x] = 0 /\ pfanout_res[x] = 0
  PROVE  FanoutOK(x)'
<1>1. SequentialCalls(x) => SequentialCalls(x)'
  BY DEF SequentialCalls
<1>2. PfanoutCalls(x) => PfanoutCalls(x)'
  <2>1. /\ {d \in DownstreamsOf(x) : Sent(x, d)}'
             = {d \in DownstreamsOf(x) : Sent(x, d)}
        /\ {d \in DownstreamsOf(x) : call[x][d] = "answered"}'
             = {d \in DownstreamsOf(x) : call[x][d] = "answered"}
    BY DEF Sent, DownstreamsOf
  <2>2. QED
    BY <2>1 DEF PfanoutCalls, DownstreamsOf
<1>3. DfanoutCalls(x) => DfanoutCalls(x)'
  <2>1. {d \in DownstreamsOf(x) : call[x][d] = "granted"}'
             = {d \in DownstreamsOf(x) : call[x][d] = "granted"}
    BY DEF DownstreamsOf
  <2>2. Sent(x, dfanout_service[x])' <=> Sent(x, dfanout_service[x])
    BY DEF Sent
  <2>3. QED
    BY <2>1, <2>2 DEF DfanoutCalls, DownstreamsOf, NoCalls
<1>4. \A d \in Downstream : AwaitsCredit(x, d)' <=> AwaitsCredit(x, d)
  BY DEF AwaitsCredit, FanoutOf
<1>5. QED
  BY <1>1, <1>2, <1>3, <1>4 DEF FanoutOK, FanoutOf, DownstreamsOf, NoCalls

-----------------------------------------------------------------------------
(* The inductive invariant *)

Inv ==
  /\ TypeOK
  /\ QueueOK(cq, stage, OccupyingRequests, TwoSlotRequests)
  /\ FanoutConsistent
  /\ NoStrandedRequest

\* What GrantsWithinLimits says of a step.
GrantOK ==
  \A r \in Req : stage[r] # "granted" /\ stage'[r] = "granted" =>
    /\ cq'.in_flight <= cq'.global_limit
    /\ cq'.in_flight_per_endpoint[ServiceOf[r]]
         <= cq'.per_endpoint_limit[ServiceOf[r]]

\* check_credit_transmission on a queue in order.
LEMMA AfterPop ==
  ASSUME NEW c, NEW st, NEW O, NEW W, QueueOK(c, st, O, W),
         \A x \in O : st[x] # "queued",
         CheckCreditTransmission(c, st)
  PROVE  /\ \E G \in SUBSET Req : PopResult(st, cq', stage', O, W, G)
         /\ Waiting(cq') => cq'.in_flight >= 1
<1>1. cq' = Pop(c).cq /\ stage' = StagesAfter(st, Pop(c).grant)
  BY DEF CheckCreditTransmission, StagesAfter
<1>2. QED
  BY <1>1, PopKeepsQueue

\* The part of TypeOK about the RPC messages.
RpcTypeOK ==
  /\ call \in [Req -> [Downstream -> CallStage]]
  /\ ppm_queue \in [Downstream -> SUBSET Req]
  /\ pfanout_req \in [Req -> Nat]
  /\ pfanout_res \in [Req -> Nat]
  /\ dfanout_service \in [Req -> Downstream \cup {NoService}]
  /\ aborted \in BOOLEAN

LEMMA TypeFromParts ==
  ASSUME NEW O, NEW W, QueueOK(cq, stage, O, W), RpcTypeOK
  PROVE  TypeOK
  BY DEF QueueOK, RpcTypeOK, TypeOK

\* The step leaves the RPC messages of all requests but r alone.
OthersUntouched(r) ==
  \A x \in Req \ {r} :
    /\ call'[x] = call[x]
    /\ pfanout_req'[x] = pfanout_req[x]
    /\ pfanout_res'[x] = pfanout_res[x]
    /\ dfanout_service'[x] = dfanout_service[x]
    /\ \A d \in Downstream : x \in ppm_queue'[d] <=> x \in ppm_queue[d]

\* A handler that pops: it moves request r to stage s, changes call and the
\* fan-out state of r only, and leaves the requests O and W in their slots.
LEMMA PopPreservesInv ==
  ASSUME Inv, NEW r \in Req, NEW c, NEW s \in Stage, NEW O, NEW W,
         QueueOK(c, [stage EXCEPT ![r] = s], O, W),
         CheckCreditTransmission(c, [stage EXCEPT ![r] = s]),
         RpcTypeOK',
         OthersUntouched(r),
         O \ {r} = OccupyingRequests \ {r},
         W \ {r} = TwoSlotRequests \ {r},
         r \in O => s # "queued", s = "granted" => stage[r] = "granted",
         stage'[r] = s => (Occupies(r)' <=> r \in O),
         stage'[r] = s => (OccupiesTwo(r)' <=> r \in W),
         s = "queued" => r \notin W,
         stage'[r] = s \/ s = "queued" => FanoutOK(r)'
  PROVE  Inv' /\ GrantOK
<1> DEFINE st == [stage EXCEPT ![r] = s]
<1>1. stage \in [Req -> Stage]
  BY DEF Inv, TypeOK
<1>2. st[r] = s /\ \A x \in Req \ {r} : st[x] = stage[x]
  BY <1>1
<1>3. O \in SUBSET Req /\ W \in SUBSET Req
  BY DEF QueueOK
<1> HIDE DEF st
<1>4. \A x \in O : st[x] # "queued"
  <2> SUFFICES ASSUME NEW x \in O, x # r PROVE st[x] # "queued"
    BY <1>2
  <2>1. Occupies(x)
    BY <1>3 DEF OccupyingRequests
  <2>2. QED
    BY <1>2, <1>3, <2>1 DEF Occupies
<1>5. QueueOK(c, st, O, W) /\ CheckCreditTransmission(c, st)
  BY DEF st
<1>6a. PICK G \in SUBSET Req : PopResult(st, cq', stage', O, W, G)
  BY <1>4, <1>5, AfterPop
<1>6. /\ \A x \in G : st[x] = "queued" /\ stage'[x] = "granted"
      /\ \A x \in Req \ G : stage'[x] = st[x]
  BY <1>6a DEF PopResult
<1>7. Waiting(cq') => cq'.in_flight >= 1
  BY <1>4, <1>5, AfterPop
<1>8. OccupyingRequests' = O \cup G
  <2> SUFFICES ASSUME NEW x \in Req
               PROVE  Occupies(x)' <=> x \in O \cup G
    BY <1>3 DEF OccupyingRequests
  <2>1. CASE x \in G
    BY <1>6, <2>1 DEF Occupies
  <2>2. CASE x \notin G /\ x = r
    BY <1>2, <1>6, <2>2
  <2>3. CASE x \notin G /\ x # r
    <3>1. stage'[x] = stage[x] /\ call'[x] = call[x]
      BY <1>2, <1>6, <2>3 DEF OthersUntouched
    <3>2. Occupies(x)' <=> Occupies(x)
      BY <3>1, SlotsUnchanged
    <3>3. QED
      BY <2>3, <3>2 DEF OccupyingRequests
  <2>4. QED
    BY <2>1, <2>2, <2>3
<1>9. TwoSlotRequests' = W
  <2> SUFFICES ASSUME NEW x \in Req
               PROVE  OccupiesTwo(x)' <=> x \in W
    BY <1>3 DEF TwoSlotRequests
  <2>1. CASE x \in G
    <3>1. ~OccupiesTwo(x)'
      BY <1>6, <2>1 DEF OccupiesTwo
    <3>2. x \notin W
      <4>1. CASE x = r
        BY <1>2, <1>6, <2>1, <4>1
      <4>2. CASE x # r
        <5>1. stage[x] = "queued"
          BY <1>2, <1>6, <2>1, <4>2
        <5>2. QED
          BY <4>2, <5>1 DEF TwoSlotRequests, OccupiesTwo
      <4>3. QED
        BY <4>1, <4>2
    <3>3. QED
      BY <3>1, <3>2
  <2>2. CASE x \notin G /\ x = r
    BY <1>2, <1>6, <2>2
  <2>3. CASE x \notin G /\ x # r
    <3>1. stage'[x] = stage[x] /\ call'[x] = call[x]
      BY <1>2, <1>6, <2>3 DEF OthersUntouched
    <3>2. OccupiesTwo(x)' <=> OccupiesTwo(x)
      BY <3>1, SlotsUnchanged
    <3>3. QED
      BY <2>3, <3>2 DEF TwoSlotRequests
  <2>4. QED
    BY <2>1, <2>2, <2>3
<1>10. QueueOK(cq, stage, OccupyingRequests, TwoSlotRequests)'
  <2>1. QueueOK(cq', stage', O \cup G, W)
    BY <1>6a DEF PopResult
  <2>2. QED
    BY <1>8, <1>9, <2>1 DEF QueueOK, LimitsPositive, QueueMatches, Counts
<1>11. TypeOK'
  BY <1>10 DEF QueueOK, RpcTypeOK, TypeOK
<1>12. FanoutConsistent'
  <2> SUFFICES ASSUME NEW x \in Req PROVE FanoutOK(x)'
    BY DEF FanoutConsistent
  <2>1. CASE x = r
    <3>1. stage'[r] = s \/ s = "queued"
      BY <1>2, <1>6
    <3>2. QED
      BY <2>1, <3>1
  <2>2. CASE x # r
    <3>1. FanoutOK(x)
      BY DEF Inv, FanoutConsistent
    <3>2. \/ stage'[x] = "local"
          \/ stage[x] # "local"
          \/ call[x] = NoCalls /\ pfanout_req[x] = 0 /\ pfanout_res[x] = 0
      BY <1>2, <1>6, <2>2
    <3>3. /\ call'[x] = call[x]
          /\ pfanout_req'[x] = pfanout_req[x]
          /\ pfanout_res'[x] = pfanout_res[x]
          /\ dfanout_service'[x] = dfanout_service[x]
          /\ \A d \in Downstream : x \in ppm_queue'[d] <=> x \in ppm_queue[d]
      BY <2>2 DEF OthersUntouched
    <3>4. QED
      BY <3>1, <3>2, <3>3, FanoutUnchanged
  <2>3. QED
    BY <2>1, <2>2
<1>13. NoStrandedRequest'
  BY <1>7 DEF NoStrandedRequest, Waiting
<1>14. GrantOK
  <2> SUFFICES ASSUME NEW x \in Req,
                      stage[x] # "granted", stage'[x] = "granted"
               PROVE  /\ cq'.in_flight <= cq'.global_limit
                      /\ cq'.in_flight_per_endpoint[ServiceOf[x]]
                           <= cq'.per_endpoint_limit[ServiceOf[x]]
    BY DEF GrantOK
  <2>1. x \in G
    BY <1>2, <1>6
  <2>2. QED
    BY <1>6a, <2>1 DEF PopResult
<1>15. QED
  BY <1>10, <1>11, <1>12, <1>13, <1>14 DEF Inv

\* A handler that does not pop and changes the state of request r only.
LEMMA QuietPreservesInv ==
  ASSUME Inv, NEW r \in Req, NEW O, NEW W, QueueOK(cq', stage', O, W),
         RpcTypeOK',
         \A x \in Req \ {r} : stage'[x] = stage[x],
         OthersUntouched(r),
         O \ {r} = OccupyingRequests \ {r},
         W \ {r} = TwoSlotRequests \ {r},
         Occupies(r)' <=> r \in O,
         OccupiesTwo(r)' <=> r \in W,
         stage'[r] = "granted" => stage[r] = "granted",
         FanoutOK(r)',
         Waiting(cq') => cq'.in_flight >= 1
  PROVE  Inv' /\ GrantOK
<1>1. O \in SUBSET Req /\ W \in SUBSET Req
  BY DEF QueueOK
<1>2. ASSUME NEW x \in Req \ {r}
      PROVE  (Occupies(x)' <=> x \in O) /\ (OccupiesTwo(x)' <=> x \in W)
  <2>1. stage'[x] = stage[x] /\ call'[x] = call[x]
    BY DEF OthersUntouched
  <2>2. /\ Occupies(x)' <=> Occupies(x)
        /\ OccupiesTwo(x)' <=> OccupiesTwo(x)
    BY <2>1, SlotsUnchanged
  <2>3. QED
    BY <2>2 DEF OccupyingRequests, TwoSlotRequests
<1>3. OccupyingRequests' = O /\ TwoSlotRequests' = W
  BY <1>1, <1>2 DEF OccupyingRequests, TwoSlotRequests
<1>4. QueueOK(cq, stage, OccupyingRequests, TwoSlotRequests)'
  BY <1>3 DEF QueueOK, LimitsPositive, QueueMatches, Counts
<1>5. TypeOK'
  BY <1>4 DEF QueueOK, RpcTypeOK, TypeOK
<1>6. FanoutConsistent'
  <2> SUFFICES ASSUME NEW x \in Req, x # r PROVE FanoutOK(x)'
    BY DEF FanoutConsistent
  <2>1. FanoutOK(x)
    BY DEF Inv, FanoutConsistent
  <2>2. /\ stage'[x] = stage[x]
        /\ call'[x] = call[x]
        /\ pfanout_req'[x] = pfanout_req[x]
        /\ pfanout_res'[x] = pfanout_res[x]
        /\ dfanout_service'[x] = dfanout_service[x]
        /\ \A d \in Downstream : x \in ppm_queue'[d] <=> x \in ppm_queue[d]
    BY DEF OthersUntouched
  <2>3. QED
    BY <2>1, <2>2, FanoutUnchanged
<1>7. NoStrandedRequest'
  BY DEF NoStrandedRequest, Waiting
<1>8. GrantOK
  BY DEF GrantOK
<1>9. QED
  BY <1>4, <1>5, <1>6, <1>7, <1>8 DEF Inv

-----------------------------------------------------------------------------
(* One lemma per action *)

LEMMA InvFacts ==
  ASSUME Inv, NEW r \in Req
  PROVE  /\ stage \in [Req -> Stage] /\ RpcTypeOK
         /\ QueueOK(cq, stage, OccupyingRequests, TwoSlotRequests)
         /\ FanoutOK(r)
         /\ Occupies(r) <=> r \in OccupyingRequests
         /\ OccupiesTwo(r) <=> r \in TwoSlotRequests
  BY DEF Inv, TypeOK, RpcTypeOK, FanoutConsistent, OccupyingRequests,
         TwoSlotRequests

\* The RPC messages are not touched and r does not leave the local service.
LEMMA RpcUnchanged ==
  ASSUME Inv, NEW r \in Req, UNCHANGED rpcVars,
         aborted' \in BOOLEAN, stage'[r] = "local" \/ stage[r] # "local"
  PROVE  /\ RpcTypeOK'
         /\ FanoutOK(r)'
         /\ OthersUntouched(r)
<1>1. /\ call' = call /\ pfanout_req' = pfanout_req
      /\ pfanout_res' = pfanout_res /\ dfanout_service' = dfanout_service
      /\ ppm_queue' = ppm_queue
  BY DEF rpcVars
<1>2. RpcTypeOK /\ FanoutOK(r)
  BY InvFacts
<1>3. RpcTypeOK'
  BY <1>1, <1>2 DEF RpcTypeOK
<1>4. FanoutOK(r)'
  BY <1>1, <1>2, FanoutUnchanged
<1>5. QED
  BY <1>1, <1>3, <1>4 DEF OthersUntouched

LEMMA ClientCreditRequestStep ==
  ASSUME Inv, NEW r \in Req, ClientCreditRequest(r)
  PROVE  Inv' /\ GrantOK
<1>1. stage[r] = "none" /\ stage' = [stage EXCEPT ![r] = "asked"]
      /\ cq' = cq /\ aborted' = aborted /\ UNCHANGED rpcVars
  BY DEF ClientCreditRequest
<1>2. stage \in [Req -> Stage] /\ aborted \in BOOLEAN
      /\ QueueOK(cq, stage, OccupyingRequests, TwoSlotRequests)
  BY DEF Inv, TypeOK
<1>3. QueueOK(cq', stage', OccupyingRequests, TwoSlotRequests)
  <2>1. "asked" \in Stage /\ "asked" # "queued" /\ stage[r] # "queued"
    BY <1>1 DEF Stage
  <2>2. QueueOK(cq, [stage EXCEPT ![r] = "asked"],
                OccupyingRequests, TwoSlotRequests)
    BY <1>2, <2>1, StageKeepsQueue
  <2>3. QED
    BY <1>1, <2>2
<1>4. stage'[r] = "asked" /\ \A x \in Req \ {r} : stage'[x] = stage[x]
  BY <1>1, <1>2
<1>5. r \notin OccupyingRequests /\ r \notin TwoSlotRequests
      /\ ~Occupies(r)' /\ ~OccupiesTwo(r)'
  BY <1>1, <1>4 DEF OccupyingRequests, TwoSlotRequests, Occupies, OccupiesTwo
<1>6. /\ RpcTypeOK'
      /\ FanoutOK(r)'
      /\ OthersUntouched(r)
  BY <1>1, <1>2, RpcUnchanged
<1>7. Waiting(cq') => cq'.in_flight >= 1
  BY <1>1 DEF Inv, NoStrandedRequest
<1>8. QED
  BY <1>3, <1>4, <1>5, <1>6, <1>7, QuietPreservesInv

LEMMA RecvRequestStep ==
  ASSUME Inv, NEW r \in Req, RecvRequest(r)
  PROVE  Inv' /\ GrantOK
<1>1. stage[r] = "granted" /\ stage' = [stage EXCEPT ![r] = "local"]
      /\ cq' = cq /\ aborted' = aborted /\ UNCHANGED rpcVars
  BY DEF RecvRequest
<1>2. stage \in [Req -> Stage] /\ aborted \in BOOLEAN
      /\ QueueOK(cq, stage, OccupyingRequests, TwoSlotRequests)
  BY DEF Inv, TypeOK
<1>3. QueueOK(cq', stage', OccupyingRequests, TwoSlotRequests)
  <2>1. "local" \in Stage /\ "local" # "queued" /\ stage[r] # "queued"
    BY <1>1 DEF Stage
  <2>2. QueueOK(cq, [stage EXCEPT ![r] = "local"],
                OccupyingRequests, TwoSlotRequests)
    BY <1>2, <2>1, StageKeepsQueue
  <2>3. QED
    BY <1>1, <2>2
<1>4. stage'[r] = "local" /\ \A x \in Req \ {r} : stage'[x] = stage[x]
  BY <1>1, <1>2
<1>5. r \in OccupyingRequests /\ r \notin TwoSlotRequests
      /\ Occupies(r)' /\ ~OccupiesTwo(r)'
  <2>1. r \in OccupyingRequests /\ r \notin TwoSlotRequests
    BY <1>1 DEF OccupyingRequests, TwoSlotRequests, Occupies, OccupiesTwo
  <2>2. call'[r] = NoCalls
    BY <1>1, InvFacts DEF FanoutOK, rpcVars
  <2>3. \A d \in DownstreamsOf(r) : call'[r][d] = "none"
    BY <2>2, ConfigAssumption DEF NoCalls, DownstreamsOf
  <2>4. ~AllSent(r)' /\ ~SomeAnswered(r)' /\ ~Blocked(r)'
    BY <2>3 DEF AllSent, SomeAnswered, Blocked, Sent, DownstreamsOf
  <2>5. QED
    BY <1>4, <2>1, <2>4 DEF Occupies, OccupiesTwo
<1>6. /\ RpcTypeOK'
      /\ FanoutOK(r)'
      /\ OthersUntouched(r)
  BY <1>1, <1>2, <1>4, RpcUnchanged
<1>7. Waiting(cq') => cq'.in_flight >= 1
  BY <1>1 DEF Inv, NoStrandedRequest
<1>8. QED
  BY <1>3, <1>4, <1>5, <1>6, <1>7, QuietPreservesInv

LEMMA RecvCreditRequestStep ==
  ASSUME Inv, NEW r \in Req, RecvCreditRequest(r)
  PROVE  Inv' /\ GrantOK
<1>1. stage[r] = "asked" /\ aborted' = (PriorityOf[r] \notin Priority)
      /\ UNCHANGED rpcVars
  BY DEF RecvCreditRequest
<1>2. stage \in [Req -> Stage] /\ aborted' \in BOOLEAN
      /\ QueueOK(cq, stage, OccupyingRequests, TwoSlotRequests)
  BY <1>1 DEF Inv, TypeOK
<1>3. r \notin OccupyingRequests /\ r \notin TwoSlotRequests
  BY <1>1 DEF OccupyingRequests, TwoSlotRequests, Occupies, OccupiesTwo
<1>4. RpcTypeOK' /\ FanoutOK(r)' /\ OthersUntouched(r)
  BY <1>1, <1>2, RpcUnchanged
<1>5. CASE PriorityOf[r] \in Priority
  <2>1. PICK c \in LimitsMaybeUpdated(cq, ServiceOf[r]) :
          CheckCreditTransmission(Push(c, r, ServiceOf[r], PriorityOf[r]),
                                  [stage EXCEPT ![r] = "queued"])
    BY <1>5 DEF RecvCreditRequest
  <2>2. QueueOK(c, stage, OccupyingRequests, TwoSlotRequests)
    BY <1>2, ConfigAssumption, LimitsKeepQueue
  <2>3. QueueOK(Push(c, r, ServiceOf[r], PriorityOf[r]),
                [stage EXCEPT ![r] = "queued"],
                OccupyingRequests, TwoSlotRequests)
    BY <1>1, <1>5, <2>2, PushKeepsQueue
  <2>4. "queued" \in Stage
    BY DEF Stage
  <2>5. stage'[r] = "queued" => ~Occupies(r)' /\ ~OccupiesTwo(r)'
    BY DEF Occupies, OccupiesTwo
  <2>6. QED
    BY <1>3, <1>4, <2>1, <2>3, <2>4, <2>5, PopPreservesInv
<1>6. CASE PriorityOf[r] \notin Priority
  <2>1. cq' = cq /\ stage' = stage
    BY <1>6 DEF RecvCreditRequest
  <2>2. QueueOK(cq', stage', OccupyingRequests, TwoSlotRequests)
    BY <1>2, <2>1
  <2>3. ~Occupies(r)' /\ ~OccupiesTwo(r)'
    BY <1>1, <2>1 DEF Occupies, OccupiesTwo
  <2>4. Waiting(cq') => cq'.in_flight >= 1
    BY <2>1 DEF Inv, NoStrandedRequest
  <2>5. \A x \in Req \ {r} : stage'[x] = stage[x]
    BY <2>1
  <2>6. stage'[r] = "granted" => stage[r] = "granted"
    BY <2>1
  <2>7. QED
    BY <1>3, <1>4, <2>2, <2>3, <2>4, <2>5, <2>6, QuietPreservesInv
<1>7. QED
  BY <1>5, <1>6

\* A request that occupies one slot gives it back and leaves.
LEMMA SlotReturned ==
  ASSUME Inv, NEW r \in Req, stage[r] # "queued", Occupies(r),
         NEW s \in Stage, s # "queued"
  PROVE  QueueOK(DecrementInFlight(cq, ServiceOf[r]), [stage EXCEPT ![r] = s],
                 OccupyingRequests \ {r}, TwoSlotRequests)
<1>1. QueueOK(cq, stage, OccupyingRequests, TwoSlotRequests)
      /\ r \in OccupyingRequests
  BY InvFacts
<1>2. QueueOK(DecrementInFlight(cq, ServiceOf[r]), stage,
              OccupyingRequests \ {r}, TwoSlotRequests)
  BY <1>1, CounterKeepsQueue
<1>3. QED
  BY <1>2, StageKeepsQueue

LEMMA RecvCreditReturnStep ==
  ASSUME Inv, NEW r \in Req, RecvCreditReturn(r)
  PROVE  Inv' /\ GrantOK
<1>1. stage[r] = "granted" /\ aborted' = aborted /\ UNCHANGED rpcVars
      /\ CheckCreditTransmission(DecrementInFlight(cq, ServiceOf[r]),
                                 [stage EXCEPT ![r] = "none"])
  BY DEF RecvCreditReturn
<1>2. aborted' \in BOOLEAN
  BY <1>1 DEF Inv, TypeOK
<1>3. Occupies(r) /\ ~OccupiesTwo(r)
  BY <1>1 DEF Occupies, OccupiesTwo
<1>4. "none" \in Stage /\ "none" # "queued" /\ stage[r] # "queued"
  BY <1>1 DEF Stage
<1>5. QueueOK(DecrementInFlight(cq, ServiceOf[r]),
              [stage EXCEPT ![r] = "none"],
              OccupyingRequests \ {r}, TwoSlotRequests)
  BY <1>3, <1>4, SlotReturned
<1>6. stage'[r] = "none" => ~Occupies(r)' /\ ~OccupiesTwo(r)'
  BY DEF Occupies, OccupiesTwo
<1>7. RpcTypeOK' /\ FanoutOK(r)' /\ OthersUntouched(r)
  BY <1>1, <1>2, RpcUnchanged
<1>8. r \notin TwoSlotRequests
  BY <1>3, InvFacts
<1> DEFINE O == OccupyingRequests \ {r}
<1>9. r \notin O /\ O \ {r} = OccupyingRequests \ {r}
  OBVIOUS
<1>10. QueueOK(DecrementInFlight(cq, ServiceOf[r]),
               [stage EXCEPT ![r] = "none"], O, TwoSlotRequests)
  BY <1>5
<1> HIDE DEF O
<1>11. QED
  BY <1>1, <1>4, <1>6, <1>7, <1>8, <1>9, <1>10, PopPreservesInv

\* An RPCMessage without calls and with cleared counters is consistent.
LEMMA ClearedFanoutOK ==
  ASSUME NEW r \in Req, call'[r] = NoCalls,
         pfanout_req'[r] = 0, pfanout_res'[r] = 0,
         \A d \in Downstream : r \notin ppm_queue'[d]
  PROVE  FanoutOK(r)'
<1>1. \A d \in Downstream : call'[r][d] = "none"
  BY DEF NoCalls
<1>2. DownstreamsOf(r) \subseteq Downstream
  BY ConfigAssumption DEF DownstreamsOf
<1>3. SequentialCalls(r)'
  BY <1>1 DEF SequentialCalls
<1>4. PfanoutCalls(r)'
  <2>1. /\ {d \in DownstreamsOf(r) : Sent(r, d)'} = {}
        /\ {d \in DownstreamsOf(r) : call'[r][d] = "answered"} = {}
    BY <1>1, <1>2 DEF Sent
  <2>2. QED
    BY <1>1, <2>1, FS_EmptySet DEF PfanoutCalls, DownstreamsOf
<1>5. DfanoutCalls(r)'
  BY DEF DfanoutCalls, NoCalls
<1>6. \A d \in Downstream : ~AwaitsCredit(r, d)'
  BY <1>1 DEF AwaitsCredit
<1>7. QED
  BY <1>1, <1>3, <1>4, <1>5, <1>6 DEF FanoutOK, NoCalls, FanoutOf, DownstreamsOf

\* A request the local service may answer occupies exactly one slot and has
\* no sub-request in a PPMQueue.
LEMMA RespondingRequest ==
  ASSUME Inv, NEW r \in Req, stage[r] = "local", MayRespond(r)
  PROVE  /\ Occupies(r) /\ ~OccupiesTwo(r)
         /\ \A d \in Downstream : call[r][d] \notin {"asked", "sent", "granted"}
         /\ \A d \in Downstream : r \notin ppm_queue[d]
<1>1. FanoutOK(r)
  BY InvFacts
<1>2. DownstreamsOf(r) \subseteq Downstream
  BY ConfigAssumption DEF DownstreamsOf
<1>3. \A d \in Downstream : call[r][d] \notin {"asked", "sent", "granted"}
  <2>1. CASE call[r] = NoCalls
    BY <2>1 DEF NoCalls
  <2>2. CASE FanoutOf(r) = "pfanout"
             /\ \A d \in DownstreamsOf(r) : call[r][d] = "answered"
    BY <1>1, <1>2, <2>2 DEF FanoutOK
  <2>3. CASE FanoutOf(r) # "pfanout"
             /\ \A d \in Downstream :
                  call[r][d] \in {"none", "answered", "returned"}
    BY <2>3
  <2>4. QED
    BY <2>1, <2>2, <2>3 DEF MayRespond
<1>4. \A d \in Downstream : r \notin ppm_queue[d]
  BY <1>1, <1>3 DEF FanoutOK, AwaitsCredit
<1>5. ~Blocked(r)
  BY <1>2, <1>3 DEF Blocked
<1>6. ASSUME FanoutOf(r) = "pfanout"
      PROVE  (~AllSent(r) \/ SomeAnswered(r)) /\ ~(~AllSent(r) /\ SomeAnswered(r))
  <2>1. CASE call[r] = NoCalls
    <3>1. \A d \in DownstreamsOf(r) : call[r][d] = "none"
      BY <1>2, <2>1 DEF NoCalls
    <3>2. QED
      BY <3>1 DEF AllSent, SomeAnswered, Sent
  <2>2. CASE \A d \in DownstreamsOf(r) : call[r][d] = "answered"
    BY <2>2 DEF AllSent, SomeAnswered, Sent
  <2>3. QED
    BY <1>6, <2>1, <2>2 DEF MayRespond
<1>7. QED
  BY <1>3, <1>4, <1>5, <1>6 DEF Occupies, OccupiesTwo

LEMMA LocalResponseStep ==
  ASSUME Inv, NEW r \in Req, LocalResponse(r)
  PROVE  Inv' /\ GrantOK
<1>1. /\ stage[r] = "local" /\ MayRespond(r)
      /\ CheckCreditTransmission(DecrementInFlight(cq, ServiceOf[r]),
                                 [stage EXCEPT ![r] = "none"])
      /\ call' = [call EXCEPT ![r] = NoCalls]
      /\ pfanout_req' = [pfanout_req EXCEPT ![r] = 0]
      /\ pfanout_res' = [pfanout_res EXCEPT ![r] = 0]
      /\ dfanout_service' = [dfanout_service EXCEPT ![r] = NoService]
      /\ ppm_queue' = ppm_queue
      /\ aborted' \in BOOLEAN
  BY DEF LocalResponse
<1>2. RpcTypeOK
  BY InvFacts
<1>3. /\ Occupies(r) /\ ~OccupiesTwo(r)
      /\ \A d \in Downstream : r \notin ppm_queue[d]
  BY <1>1, RespondingRequest
<1>4. "none" \in Stage /\ "none" # "queued" /\ stage[r] # "queued"
  BY <1>1 DEF Stage
<1>5. QueueOK(DecrementInFlight(cq, ServiceOf[r]),
              [stage EXCEPT ![r] = "none"],
              OccupyingRequests \ {r}, TwoSlotRequests)
  BY <1>3, <1>4, SlotReturned
<1>6. stage'[r] = "none" => ~Occupies(r)' /\ ~OccupiesTwo(r)'
  BY DEF Occupies, OccupiesTwo
<1>7. RpcTypeOK'
  <2>1. NoCalls \in [Downstream -> CallStage]
    BY DEF NoCalls, CallStage
  <2>2. QED
    BY <1>1, <1>2, <2>1 DEF RpcTypeOK
<1>8. OthersUntouched(r)
  BY <1>1, <1>2 DEF OthersUntouched, RpcTypeOK
<1>9. FanoutOK(r)'
  <2>1. /\ call'[r] = NoCalls /\ pfanout_req'[r] = 0 /\ pfanout_res'[r] = 0
        /\ \A d \in Downstream : r \notin ppm_queue'[d]
    BY <1>1, <1>2, <1>3 DEF RpcTypeOK
  <2>2. QED
    BY <2>1, ClearedFanoutOK
<1>10. r \notin TwoSlotRequests
  BY <1>3, InvFacts
<1> DEFINE O == OccupyingRequests \ {r}
<1>11. r \notin O /\ O \ {r} = OccupyingRequests \ {r}
  OBVIOUS
<1>12. QueueOK(DecrementInFlight(cq, ServiceOf[r]),
               [stage EXCEPT ![r] = "none"], O, TwoSlotRequests)
  BY <1>5
<1> HIDE DEF O
<1>13. QED
  BY <1>1, <1>4, <1>6, <1>7, <1>8, <1>9, <1>10, <1>11, <1>12, PopPreservesInv

-----------------------------------------------------------------------------
(* Sub-requests *)

LEMMA CallingRequest ==
  ASSUME Inv, NEW r \in Req, NEW d \in Downstream, call[r][d] # "none"
  PROVE  /\ stage[r] = "local"
         /\ d \in DownstreamsOf(r)
         /\ FanoutOf(r) \in {"sequential", "pfanout", "dfanout"}
         /\ DownstreamsOf(r) \subseteq Downstream
         /\ IsFiniteSet(DownstreamsOf(r))
<1>1. FanoutOK(r)
  BY InvFacts
<1>2. stage[r] = "local"
  BY <1>1 DEF FanoutOK, NoCalls
<1>3. d \in DownstreamsOf(r)
  BY <1>1 DEF FanoutOK
<1>4. ServiceOf[r] \in Endpoint
  BY ConfigAssumption
<1>5. DownstreamsOf(r) \subseteq Downstream /\ FanoutOf(r) \in FanoutKind
  BY <1>4, ConfigAssumption DEF DownstreamsOf, FanoutOf
<1>6. QED
  BY <1>2, <1>3, <1>5, ConfigAssumption, FS_Subset DEF FanoutKind

\* If the sub-requests that were sent and answered stay the same, so does the
\* occupation of slots.
LEMMA SlotsFromCalls ==
  ASSUME NEW r \in Req, stage'[r] = stage[r],
         \A f \in DownstreamsOf(r) :
           /\ call'[r][f] = "sent" <=> call[r][f] = "sent"
           /\ call'[r][f] = "answered" <=> call[r][f] = "answered"
  PROVE  /\ Occupies(r)' <=> Occupies(r)
         /\ OccupiesTwo(r)' <=> OccupiesTwo(r)
<1>1. AllSent(r)' <=> AllSent(r)
  BY DEF AllSent, Sent, DownstreamsOf
<1>2. /\ SomeAnswered(r)' <=> SomeAnswered(r)
      /\ Blocked(r)' <=> Blocked(r)
  BY DEF SomeAnswered, Blocked, DownstreamsOf
<1>3. QED
  BY <1>1, <1>2 DEF Occupies, OccupiesTwo, FanoutOf

LEMMA SubRequestStep ==
  ASSUME Inv, NEW r \in Req, NEW d \in Downstream, SubRequest(r, d)
  PROVE  Inv' /\ GrantOK
<1>1. /\ stage[r] = "local" /\ d \in DownstreamsOf(r) /\ MayCall(r, d)
      /\ cq' = cq /\ stage' = stage
      /\ pfanout_req' = pfanout_req /\ pfanout_res' = pfanout_res
      /\ ppm_queue' = [ppm_queue EXCEPT ![d] = @ \cup {r}]
      /\ aborted' \in BOOLEAN
  BY DEF SubRequest, PPMPush
<1>2. /\ RpcTypeOK /\ FanoutOK(r)
      /\ QueueOK(cq, stage, OccupyingRequests, TwoSlotRequests)
      /\ Occupies(r) <=> r \in OccupyingRequests
      /\ OccupiesTwo(r) <=> r \in TwoSlotRequests
  BY InvFacts
<1>3. DownstreamsOf(r) \subseteq Downstream /\ FanoutOf(r) \in FanoutKind
  <2>1. ServiceOf[r] \in Endpoint
    BY ConfigAssumption
  <2>2. QED
    BY <2>1, ConfigAssumption DEF DownstreamsOf, FanoutOf
<1>4. \A f \in Downstream : r \in ppm_queue'[f] <=> f = d \/ r \in ppm_queue[f]
  BY <1>1, <1>2 DEF RpcTypeOK
<1>5. \A x \in Req \ {r}, f \in Downstream :
        x \in ppm_queue'[f] <=> x \in ppm_queue[f]
  BY <1>1, <1>2 DEF RpcTypeOK
<1>6. call[r][d] = "none"
  BY <1>1 DEF MayCall
<1>7. ASSUME FanoutOf(r) = "dfanout"
      PROVE  /\ RpcTypeOK' /\ OthersUntouched(r) /\ FanoutOK(r)'
             /\ Occupies(r)' <=> Occupies(r)
             /\ OccupiesTwo(r)' <=> OccupiesTwo(r)
  <2>1. /\ dfanout_service' = [dfanout_service EXCEPT ![r] = d]
        /\ call' = [call EXCEPT ![r] =
             [f \in Downstream |->
                IF f \in DownstreamsOf(r) THEN "asked" ELSE "none"]]
        /\ call[r] = NoCalls
    BY <1>1, <1>7 DEF SubRequest, MayCall
  <2>2. /\ \A f \in DownstreamsOf(r) : call'[r][f] = "asked"
        /\ \A f \in Downstream \ DownstreamsOf(r) : call'[r][f] = "none"
        /\ \A x \in Req \ {r} : call'[x] = call[x]
        /\ dfanout_service'[r] = d
        /\ \A x \in Req \ {r} : dfanout_service'[x] = dfanout_service[x]
    BY <1>2, <1>3, <2>1 DEF RpcTypeOK
  <2>3. \A f \in Downstream : call[r][f] = "none"
    BY <2>1 DEF NoCalls
  <2>4. RpcTypeOK'
    <3>1. [f \in Downstream |->
             IF f \in DownstreamsOf(r) THEN "asked" ELSE "none"]
            \in [Downstream -> CallStage]
      BY DEF CallStage
    <3>2. call' \in [Req -> [Downstream -> CallStage]]
      BY <1>2, <2>1, <3>1 DEF RpcTypeOK
    <3>3. QED
      BY <1>1, <1>2, <2>1, <3>2 DEF RpcTypeOK
  <2>5. OthersUntouched(r)
    BY <1>1, <1>5, <2>2 DEF OthersUntouched
  <2>6. FanoutOK(r)'
    <3>1. \A f \in Downstream : r \notin ppm_queue[f]
      BY <1>2, <1>7, <2>3 DEF FanoutOK, AwaitsCredit
    <3>2. \A f \in Downstream : r \in ppm_queue'[f] <=> AwaitsCredit(r, f)'
      BY <1>1, <1>3, <1>4, <1>7, <2>2, <3>1 DEF AwaitsCredit, FanoutOf
    <3>3. DfanoutCalls(r)'
      <4>1. pfanout_req[r] = 0
        <5>1. DfanoutCalls(r)
          BY <1>2, <1>7 DEF FanoutOK
        <5>2. QED
          BY <1>1, <1>3, <2>3, <5>1 DEF DfanoutCalls, Sent
      <4>2. {f \in DownstreamsOf(r) : call'[r][f] = "granted"} = {}
        BY <2>2
      <4>3. pfanout_req'[r] =
              Cardinality({f \in DownstreamsOf(r) : call'[r][f] = "granted"})
        BY <1>1, <4>1, <4>2, FS_EmptySet
      <4>4. QED
        BY <1>1, <2>2, <4>3 DEF DfanoutCalls, DownstreamsOf
    <3>4. QED
      BY <1>1, <1>7, <2>2, <3>2, <3>3 DEF FanoutOK, FanoutOf, DownstreamsOf
  <2>7. /\ Occupies(r)' <=> Occupies(r)
        /\ OccupiesTwo(r)' <=> OccupiesTwo(r)
    BY <1>1, <1>3, <2>2, <2>3, SlotsFromCalls
  <2>8. QED
    BY <2>4, <2>5, <2>6, <2>7
<1>8. ASSUME FanoutOf(r) # "dfanout"
      PROVE  /\ RpcTypeOK' /\ OthersUntouched(r) /\ FanoutOK(r)'
             /\ Occupies(r)' <=> Occupies(r)
             /\ OccupiesTwo(r)' <=> OccupiesTwo(r)
  <2>1. dfanout_service' = dfanout_service
        /\ call' = [call EXCEPT ![r][d] = "asked"]
    BY <1>1, <1>8 DEF SubRequest
  <2>2. /\ call'[r][d] = "asked"
        /\ \A f \in Downstream \ {d} : call'[r][f] = call[r][f]
        /\ \A x \in Req \ {r} : call'[x] = call[x]
    BY <1>2, <2>1 DEF RpcTypeOK
  <2>3. RpcTypeOK'
    <3>1. call' \in [Req -> [Downstream -> CallStage]]
      BY <1>2, <2>1 DEF RpcTypeOK, CallStage
    <3>2. QED
      BY <1>1, <1>2, <2>1, <3>1 DEF RpcTypeOK
  <2>4. OthersUntouched(r)
    BY <1>1, <1>5, <2>1, <2>2 DEF OthersUntouched
  <2>5. FanoutOK(r)'
    <3>1. \A f \in Downstream : r \in ppm_queue'[f] <=> AwaitsCredit(r, f)'
      BY <1>2, <1>4, <1>8, <2>2 DEF AwaitsCredit, FanoutOf, FanoutOK
    <3>2. FanoutOf(r) = "sequential" => SequentialCalls(r)'
      <4> SUFFICES ASSUME FanoutOf(r) = "sequential" PROVE SequentialCalls(r)'
        OBVIOUS
      <4>1. \A f \in Downstream : call[r][f] \in {"none", "answered"}
        BY <1>1 DEF MayCall
      <4>2. QED
        BY <2>2, <4>1 DEF SequentialCalls
    <3>3. FanoutOf(r) = "pfanout" => PfanoutCalls(r)'
      <4> SUFFICES ASSUME FanoutOf(r) = "pfanout" PROVE PfanoutCalls(r)'
        OBVIOUS
      <4>1. PfanoutCalls(r)
        BY <1>2 DEF FanoutOK
      <4>2. /\ {f \in DownstreamsOf(r) : Sent(r, f)'}
                 = {f \in DownstreamsOf(r) : Sent(r, f)}
            /\ {f \in DownstreamsOf(r) : call'[r][f] = "answered"}
                 = {f \in DownstreamsOf(r) : call[r][f] = "answered"}
        BY <1>3, <1>6, <2>2 DEF Sent
      <4>3. \A f \in Downstream :
              call'[r][f] \in {"none", "asked", "sent", "answered"}
        BY <2>2, <4>1 DEF PfanoutCalls
      <4>4. QED
        BY <1>1, <4>1, <4>2, <4>3 DEF PfanoutCalls, DownstreamsOf
    <3>4. \A f \in Downstream \ DownstreamsOf(r) : call'[r][f] = "none"
      BY <1>1, <1>2, <2>2 DEF FanoutOK
    <3>5. QED
      BY <1>1, <1>8, <3>1, <3>2, <3>3, <3>4
         DEF FanoutOK, FanoutOf, DownstreamsOf
  <2>6. /\ Occupies(r)' <=> Occupies(r)
        /\ OccupiesTwo(r)' <=> OccupiesTwo(r)
    BY <1>1, <1>3, <1>6, <2>2, SlotsFromCalls
  <2>7. QED
    BY <2>3, <2>4, <2>5, <2>6
<1>9. /\ RpcTypeOK' /\ OthersUntouched(r) /\ FanoutOK(r)'
      /\ Occupies(r)' <=> Occupies(r)
      /\ OccupiesTwo(r)' <=> OccupiesTwo(r)
  <2>1. CASE FanoutOf(r) = "dfanout"
    BY <1>7, <2>1
  <2>2. CASE FanoutOf(r) # "dfanout"
    BY <1>8, <2>2
  <2>3. QED
    BY <2>1, <2>2
<1>10. QueueOK(cq', stage', OccupyingRequests, TwoSlotRequests)
       /\ \A x \in Req \ {r} : stage'[x] = stage[x]
  BY <1>1, <1>2
<1>11. Waiting(cq') => cq'.in_flight >= 1
  BY <1>1 DEF Inv, NoStrandedRequest
<1>12. QED
  BY <1>1, <1>2, <1>9, <1>10, <1>11, QuietPreservesInv

\* One sub-request of r changes its stage.
LEMMA CallChanged ==
  ASSUME RpcTypeOK, NEW r \in Req, NEW d \in Downstream, NEW v \in CallStage,
         call' = [call EXCEPT ![r][d] = v]
  PROVE  /\ call' \in [Req -> [Downstream -> CallStage]]
         /\ call'[r][d] = v
         /\ \A f \in Downstream \ {d} : call'[r][f] = call[r][f]
         /\ \A x \in Req \ {r} : call'[x] = call[x]
  BY DEF RpcTypeOK

\* A request takes its sub-request out of a PPMQueue.
LEMMA PPMPopFacts ==
  ASSUME RpcTypeOK, NEW r \in Req, NEW d \in Downstream, PPMPop(r, d)
  PROVE  /\ ppm_queue' \in [Downstream -> SUBSET Req]
         /\ aborted' \in BOOLEAN
         /\ \A f \in Downstream :
              r \in ppm_queue'[f] <=> f # d /\ r \in ppm_queue[f]
         /\ \A x \in Req \ {r}, f \in Downstream :
              x \in ppm_queue'[f] <=> x \in ppm_queue[f]
  BY DEF RpcTypeOK, PPMPop

\* The last sub-request of r left: r gives a slot back and stays local.
LEMMA ReleaseStep ==
  ASSUME Inv, NEW r \in Req, stage[r] = "local", ReleaseParent(r), RpcTypeOK',
         OthersUntouched(r),
         stage'[r] = "local" => FanoutOK(r)',
         \/ /\ Occupies(r) /\ ~OccupiesTwo(r)
            /\ stage'[r] = "local" => ~Occupies(r)' /\ ~OccupiesTwo(r)'
         \/ /\ Occupies(r) /\ OccupiesTwo(r)
            /\ stage'[r] = "local" => Occupies(r)' /\ ~OccupiesTwo(r)'
  PROVE  Inv' /\ GrantOK
<1>1. /\ stage \in [Req -> Stage]
      /\ QueueOK(cq, stage, OccupyingRequests, TwoSlotRequests)
      /\ Occupies(r) <=> r \in OccupyingRequests
      /\ OccupiesTwo(r) <=> r \in TwoSlotRequests
  BY InvFacts
<1>2. stage = [stage EXCEPT ![r] = "local"]
  BY <1>1
<1>3. CheckCreditTransmission(DecrementInFlight(cq, ServiceOf[r]),
                              [stage EXCEPT ![r] = "local"])
  BY <1>2 DEF ReleaseParent
<1>4. "local" \in Stage /\ "local" # "queued" /\ "local" # "granted"
  BY DEF Stage
<1> DEFINE O == OccupyingRequests \ {r}
           W == TwoSlotRequests \ {r}
<1>5. /\ r \notin O /\ O \ {r} = OccupyingRequests \ {r}
      /\ r \notin W /\ W \ {r} = TwoSlotRequests \ {r}
  OBVIOUS
<1>6. CASE /\ Occupies(r) /\ ~OccupiesTwo(r)
           /\ stage'[r] = "local" => ~Occupies(r)' /\ ~OccupiesTwo(r)'
  <2>1. QueueOK(DecrementInFlight(cq, ServiceOf[r]),
                [stage EXCEPT ![r] = "local"], O, TwoSlotRequests)
    BY <1>1, <1>2, <1>6, CounterKeepsQueue
  <2> HIDE DEF O, W
  <2>2. QED
    BY <1>1, <1>3, <1>4, <1>5, <1>6, <2>1, PopPreservesInv
<1>7. CASE /\ Occupies(r) /\ OccupiesTwo(r)
           /\ stage'[r] = "local" => Occupies(r)' /\ ~OccupiesTwo(r)'
  <2>1. QueueOK(DecrementInFlight(cq, ServiceOf[r]),
                [stage EXCEPT ![r] = "local"], OccupyingRequests, W)
    BY <1>1, <1>2, <1>7, CounterKeepsQueue
  <2> HIDE DEF O, W
  <2>2. QED
    BY <1>1, <1>3, <1>4, <1>5, <1>7, <2>1, PopPreservesInv
<1>8. QED
  BY <1>6, <1>7

LEMMA SequentialGrantStep ==
  ASSUME Inv, NEW r \in Req, NEW d \in Downstream, call[r][d] = "asked",
         FanoutOf(r) = "sequential", SequentialGrant(r, d),
         pfanout_res' = pfanout_res, dfanout_service' = dfanout_service
  PROVE  Inv' /\ GrantOK
<1>1. /\ stage[r] = "local" /\ d \in DownstreamsOf(r)
      /\ DownstreamsOf(r) \subseteq Downstream
  BY CallingRequest
<1>2. RpcTypeOK /\ FanoutOK(r)
  BY InvFacts
<1>3. /\ PPMPop(r, d) /\ ReleaseParent(r) /\ pfanout_req' = pfanout_req
      /\ call' = [call EXCEPT ![r][d] = "sent"]
  BY DEF SequentialGrant
<1>4. /\ call' \in [Req -> [Downstream -> CallStage]]
      /\ call'[r][d] = "sent"
      /\ \A f \in Downstream \ {d} : call'[r][f] = call[r][f]
      /\ \A x \in Req \ {r} : call'[x] = call[x]
  <2>1. "sent" \in CallStage
    BY DEF CallStage
  <2>2. QED
    BY <1>2, <1>3, <2>1, CallChanged
<1>5. /\ ppm_queue' \in [Downstream -> SUBSET Req]
      /\ aborted' \in BOOLEAN
      /\ \A f \in Downstream :
           r \in ppm_queue'[f] <=> f # d /\ r \in ppm_queue[f]
      /\ \A x \in Req \ {r}, f \in Downstream :
           x \in ppm_queue'[f] <=> x \in ppm_queue[f]
  BY <1>2, <1>3, PPMPopFacts
<1>6. RpcTypeOK' /\ OthersUntouched(r)
  BY <1>2, <1>3, <1>4, <1>5 DEF RpcTypeOK, OthersUntouched
<1>7. SequentialCalls(r)
  BY <1>2 DEF FanoutOK
<1>8. Occupies(r) /\ ~OccupiesTwo(r)
  <2>1. ~Blocked(r)
    BY <1>1, <1>7 DEF Blocked, SequentialCalls
  <2>2. QED
    BY <1>1, <2>1 DEF Occupies, OccupiesTwo
<1>9. stage'[r] = "local" => ~Occupies(r)' /\ ~OccupiesTwo(r)'
  <2>1. Blocked(r)'
    BY <1>1, <1>4 DEF Blocked, DownstreamsOf
  <2>2. QED
    BY <2>1 DEF Occupies, OccupiesTwo, FanoutOf
<1>10. stage'[r] = "local" => FanoutOK(r)'
  <2>1. \A f \in Downstream : r \in ppm_queue'[f] <=> AwaitsCredit(r, f)'
    BY <1>2, <1>4, <1>5 DEF AwaitsCredit, FanoutOf, FanoutOK
  <2>2. SequentialCalls(r)'
    BY <1>4, <1>7 DEF SequentialCalls
  <2>3. \A f \in Downstream \ DownstreamsOf(r) : call'[r][f] = "none"
    BY <1>1, <1>2, <1>4 DEF FanoutOK
  <2>4. QED
    BY <2>1, <2>2, <2>3 DEF FanoutOK, FanoutOf, DownstreamsOf
<1>11. QED
  BY <1>1, <1>3, <1>6, <1>8, <1>9, <1>10, ReleaseStep

LEMMA PfanoutGrantStep ==
  ASSUME Inv, NEW r \in Req, NEW d \in Downstream, call[r][d] = "asked",
         FanoutOf(r) = "pfanout", PfanoutGrant(r, d),
         pfanout_res' = pfanout_res, dfanout_service' = dfanout_service
  PROVE  Inv' /\ GrantOK
<1>1. /\ stage[r] = "local" /\ d \in DownstreamsOf(r)
      /\ DownstreamsOf(r) \subseteq Downstream
      /\ IsFiniteSet(DownstreamsOf(r))
  BY CallingRequest
<1>2. /\ RpcTypeOK /\ FanoutOK(r)
      /\ QueueOK(cq, stage, OccupyingRequests, TwoSlotRequests)
      /\ Occupies(r) <=> r \in OccupyingRequests
      /\ OccupiesTwo(r) <=> r \in TwoSlotRequests
  BY InvFacts
<1>3. /\ PPMPop(r, d)
      /\ pfanout_req' = [pfanout_req EXCEPT ![r] = @ + 1]
      /\ call' = [call EXCEPT ![r][d] = "sent"]
  BY DEF PfanoutGrant
<1>4. /\ call' \in [Req -> [Downstream -> CallStage]]
      /\ call'[r][d] = "sent"
      /\ \A f \in Downstream \ {d} : call'[r][f] = call[r][f]
      /\ \A x \in Req \ {r} : call'[x] = call[x]
  <2>1. "sent" \in CallStage
    BY DEF CallStage
  <2>2. QED
    BY <1>2, <1>3, <2>1, CallChanged
<1>5. /\ ppm_queue' \in [Downstream -> SUBSET Req]
      /\ aborted' \in BOOLEAN
      /\ \A f \in Downstream :
           r \in ppm_queue'[f] <=> f # d /\ r \in ppm_queue[f]
      /\ \A x \in Req \ {r}, f \in Downstream :
           x \in ppm_queue'[f] <=> x \in ppm_queue[f]
  BY <1>2, <1>3, PPMPopFacts
<1>6. /\ pfanout_req' \in [Req -> Nat]
      /\ pfanout_req'[r] = pfanout_req[r] + 1
      /\ \A x \in Req \ {r} : pfanout_req'[x] = pfanout_req[x]
  BY <1>2, <1>3 DEF RpcTypeOK
<1>7. RpcTypeOK' /\ OthersUntouched(r)
  BY <1>2, <1>4, <1>5, <1>6 DEF RpcTypeOK, OthersUntouched
<1>8. PfanoutCalls(r)
  BY <1>2 DEF FanoutOK
<1> DEFINE S == {f \in DownstreamsOf(r) : Sent(r, f)}
           S2 == {f \in DownstreamsOf(r) : Sent(r, f)'}
<1>9. /\ S2 = S \cup {d} /\ d \notin S
      /\ S2 \in SUBSET DownstreamsOf(r)
  BY <1>1, <1>4 DEF Sent
<1>10. Cardinality(S2) = Cardinality(S) + 1
  <2>1. IsFiniteSet(S)
    BY <1>1, FS_Subset
  <2> HIDE DEF S, S2
  <2>2. QED
    BY <1>9, <2>1, FS_AddElement
<1>11. pfanout_req[r] = Cardinality(S)
  BY <1>8 DEF PfanoutCalls
<1>12. FanoutOK(r)' \/ stage'[r] # "local"
  <2>1. \A f \in Downstream : r \in ppm_queue'[f] <=> AwaitsCredit(r, f)'
    BY <1>2, <1>4, <1>5 DEF AwaitsCredit, FanoutOf, FanoutOK
  <2>2. PfanoutCalls(r)'
    <3>1. pfanout_req'[r] = Cardinality(S2)
      BY <1>6, <1>10, <1>11
    <3>2. {f \in DownstreamsOf(r) : call'[r][f] = "answered"}
            = {f \in DownstreamsOf(r) : call[r][f] = "answered"}
      BY <1>1, <1>4
    <3>3. pfanout_res'[r] =
            Cardinality({f \in DownstreamsOf(r) : call'[r][f] = "answered"})
      BY <1>8, <3>2 DEF PfanoutCalls
    <3>4. \A f \in Downstream :
            call'[r][f] \in {"none", "asked", "sent", "answered"}
      BY <1>4, <1>8 DEF PfanoutCalls
    <3>5. QED
      BY <3>1, <3>3, <3>4 DEF PfanoutCalls, DownstreamsOf
  <2>3. \A f \in Downstream \ DownstreamsOf(r) : call'[r][f] = "none"
    BY <1>1, <1>2, <1>4 DEF FanoutOK
  <2>4. QED
    BY <2>1, <2>2, <2>3 DEF FanoutOK, FanoutOf, DownstreamsOf
<1>13. AllSent(r)' <=> S2 = DownstreamsOf(r)
  BY <1>1 DEF AllSent, DownstreamsOf
<1>14. ~AllSent(r) /\ (SomeAnswered(r)' <=> SomeAnswered(r))
  <2>1. ~AllSent(r)
    BY <1>1 DEF AllSent, Sent
  <2>2. SomeAnswered(r)' <=> SomeAnswered(r)
    BY <1>1, <1>4 DEF SomeAnswered, DownstreamsOf
  <2>3. QED
    BY <2>1, <2>2
<1>15. S2 = DownstreamsOf(r) <=>
         pfanout_req[r] + 1 = Cardinality(DownstreamsOf(r))
  <2> HIDE DEF S, S2
  <2>1. Cardinality(S2) = Cardinality(DownstreamsOf(r)) => S2 = DownstreamsOf(r)
    BY <1>1, <1>9, FS_Subset
  <2>2. QED
    BY <1>10, <1>11, <2>1
<1>16. CASE pfanout_req[r] + 1 = Cardinality(DownstreamsOf(r))
  <2>1. ReleaseParent(r) /\ AllSent(r)'
    BY <1>13, <1>15, <1>16 DEF PfanoutGrant
  <2>2. \/ /\ Occupies(r) /\ ~OccupiesTwo(r)
           /\ stage'[r] = "local" => ~Occupies(r)' /\ ~OccupiesTwo(r)'
        \/ /\ Occupies(r) /\ OccupiesTwo(r)
           /\ stage'[r] = "local" => Occupies(r)' /\ ~OccupiesTwo(r)'
    BY <1>1, <1>14, <2>1 DEF Occupies, OccupiesTwo, FanoutOf
  <2>3. QED
    BY <1>1, <1>7, <1>12, <2>1, <2>2, ReleaseStep
<1>17. CASE pfanout_req[r] + 1 # Cardinality(DownstreamsOf(r))
  <2>1. cq' = cq /\ stage' = stage /\ ~AllSent(r)'
    BY <1>13, <1>15, <1>17 DEF PfanoutGrant
  <2>2. /\ Occupies(r)' <=> Occupies(r)
        /\ OccupiesTwo(r)' <=> OccupiesTwo(r)
    BY <1>14, <2>1 DEF Occupies, OccupiesTwo, FanoutOf
  <2>3. QueueOK(cq', stage', OccupyingRequests, TwoSlotRequests)
    BY <1>2, <2>1
  <2>4. Waiting(cq') => cq'.in_flight >= 1
    BY <2>1 DEF Inv, NoStrandedRequest
  <2>5. FanoutOK(r)'
    BY <1>1, <1>12, <2>1
  <2>6. QED
    BY <1>2, <1>7, <2>1, <2>2, <2>3, <2>4, <2>5, QuietPreservesInv
<1>18. QED
  BY <1>16, <1>17

\* While credits are collected every downstream is asked or granted, the
\* sub-request is in the PPMQueue of the chosen service and the parent active.
LEMMA CollectingRequest ==
  ASSUME Inv, NEW r \in Req, NEW d \in Downstream, call[r][d] = "asked",
         FanoutOf(r) = "dfanout"
  PROVE  /\ dfanout_service[r] \in DownstreamsOf(r)
         /\ \A f \in DownstreamsOf(r) : call[r][f] \in {"asked", "granted"}
         /\ pfanout_req[r] =
              Cardinality({f \in DownstreamsOf(r) : call[r][f] = "granted"})
         /\ \A f \in Downstream :
              r \in ppm_queue[f] <=> f = dfanout_service[r]
         /\ Occupies(r) /\ ~OccupiesTwo(r)
<1>1. stage[r] = "local" /\ d \in DownstreamsOf(r) /\ FanoutOK(r)
  BY CallingRequest, InvFacts
<1>2. /\ dfanout_service[r] \in DownstreamsOf(r)
      /\ \A f \in DownstreamsOf(r) : call[r][f] \in {"asked", "granted"}
      /\ pfanout_req[r] =
           Cardinality({f \in DownstreamsOf(r) : call[r][f] = "granted"})
  <2>1. DfanoutCalls(r)
    BY <1>1 DEF FanoutOK
  <2>2. call[r] # NoCalls
    BY DEF NoCalls
  <2>3. ~ /\ dfanout_service[r] \in DownstreamsOf(r)
          /\ Sent(r, dfanout_service[r])
          /\ \A f \in DownstreamsOf(r) \ {dfanout_service[r]} :
               call[r][f] = "returned"
    BY <1>1 DEF Sent
  <2>4. QED
    BY <2>1, <2>2, <2>3 DEF DfanoutCalls
<1>3. \A f \in Downstream : r \in ppm_queue[f] <=> f = dfanout_service[r]
  BY <1>1 DEF FanoutOK, AwaitsCredit
<1>4. ~Blocked(r)
  BY <1>2 DEF Blocked
<1>5. QED
  BY <1>1, <1>2, <1>3, <1>4 DEF Occupies, OccupiesTwo

LEMMA DfanoutCollectStep ==
  ASSUME Inv, NEW r \in Req, NEW d \in Downstream, call[r][d] = "asked",
         FanoutOf(r) = "dfanout", DfanoutCollect(r, d),
         pfanout_req' = [pfanout_req EXCEPT ![r] = @ + 1],
         pfanout_res' = pfanout_res, dfanout_service' = dfanout_service
  PROVE  Inv' /\ GrantOK
<1>1. /\ stage[r] = "local" /\ d \in DownstreamsOf(r)
      /\ DownstreamsOf(r) \subseteq Downstream
      /\ IsFiniteSet(DownstreamsOf(r))
  BY CallingRequest
<1>2. /\ RpcTypeOK /\ FanoutOK(r)
      /\ QueueOK(cq, stage, OccupyingRequests, TwoSlotRequests)
      /\ Occupies(r) <=> r \in OccupyingRequests
      /\ OccupiesTwo(r) <=> r \in TwoSlotRequests
  BY InvFacts
<1>3. /\ pfanout_req[r] + 1 # Cardinality(DownstreamsOf(r))
      /\ aborted' \in BOOLEAN
      /\ call' = [call EXCEPT ![r][d] = "granted"]
      /\ cq' = cq /\ stage' = stage /\ ppm_queue' = ppm_queue
  BY DEF DfanoutCollect
<1>4. /\ call' \in [Req -> [Downstream -> CallStage]]
      /\ call'[r][d] = "granted"
      /\ \A f \in Downstream \ {d} : call'[r][f] = call[r][f]
      /\ \A x \in Req \ {r} : call'[x] = call[x]
  <2>1. "granted" \in CallStage
    BY DEF CallStage
  <2>2. QED
    BY <1>2, <1>3, <2>1, CallChanged
<1>5. /\ dfanout_service[r] \in DownstreamsOf(r)
      /\ \A f \in DownstreamsOf(r) : call[r][f] \in {"asked", "granted"}
      /\ pfanout_req[r] =
           Cardinality({f \in DownstreamsOf(r) : call[r][f] = "granted"})
      /\ \A f \in Downstream : r \in ppm_queue[f] <=> f = dfanout_service[r]
  BY CollectingRequest
<1>6. /\ pfanout_req' \in [Req -> Nat]
      /\ pfanout_req'[r] = pfanout_req[r] + 1
      /\ \A x \in Req \ {r} : pfanout_req'[x] = pfanout_req[x]
  BY <1>2 DEF RpcTypeOK
<1>7. RpcTypeOK' /\ OthersUntouched(r)
  BY <1>2, <1>3, <1>4, <1>6 DEF RpcTypeOK, OthersUntouched
<1> DEFINE S == {f \in DownstreamsOf(r) : call[r][f] = "granted"}
           S2 == {f \in DownstreamsOf(r) : call'[r][f] = "granted"}
<1>8. S2 = S \cup {d} /\ d \notin S
  BY <1>1, <1>4
<1>9. Cardinality(S2) = Cardinality(S) + 1
  <2>1. IsFiniteSet(S)
    BY <1>1, FS_Subset
  <2> HIDE DEF S, S2
  <2>2. QED
    BY <1>8, <2>1, FS_AddElement
<1>10. pfanout_req'[r] = Cardinality(S2)
  BY <1>5, <1>6, <1>9
<1>11. S2 # DownstreamsOf(r)
  <2> HIDE DEF S, S2
  <2>1. QED
    BY <1>3, <1>6, <1>10
<1>12. \A f \in DownstreamsOf(r) : call'[r][f] \in {"asked", "granted"}
  BY <1>1, <1>4, <1>5
<1>13. PICK a \in DownstreamsOf(r) : call'[r][a] = "asked"
  BY <1>11, <1>12
<1>14. FanoutOK(r)'
  <2>1. \A f \in Downstream : r \in ppm_queue'[f] <=> AwaitsCredit(r, f)'
    BY <1>1, <1>3, <1>5, <1>13 DEF AwaitsCredit, FanoutOf
  <2>2. DfanoutCalls(r)'
    BY <1>5, <1>10, <1>12, <1>13 DEF DfanoutCalls, DownstreamsOf
  <2>3. \A f \in Downstream \ DownstreamsOf(r) : call'[r][f] = "none"
    BY <1>1, <1>2, <1>4 DEF FanoutOK
  <2>4. QED
    BY <1>1, <1>3, <2>1, <2>2, <2>3 DEF FanoutOK, FanoutOf, DownstreamsOf
<1>15. /\ Occupies(r)' <=> Occupies(r)
       /\ OccupiesTwo(r)' <=> OccupiesTwo(r)
  <2>1. \A f \in DownstreamsOf(r) :
          /\ call'[r][f] = "sent" <=> call[r][f] = "sent"
          /\ call'[r][f] = "answered" <=> call[r][f] = "answered"
    BY <1>5, <1>12
  <2>2. QED
    BY <1>3, <2>1, SlotsFromCalls
<1>16. QueueOK(cq', stage', OccupyingRequests, TwoSlotRequests)
  BY <1>2, <1>3
<1>17. Waiting(cq') => cq'.in_flight >= 1
  BY <1>3 DEF Inv, NoStrandedRequest
<1>18. QED
  BY <1>2, <1>3, <1>7, <1>14, <1>15, <1>16, <1>17, QuietPreservesInv

LEMMA DfanoutCompleteStep ==
  ASSUME Inv, NEW r \in Req, NEW d \in Downstream, call[r][d] = "asked",
         FanoutOf(r) = "dfanout", DfanoutComplete(r, d),
         pfanout_req' = [pfanout_req EXCEPT ![r] = @ + 1],
         pfanout_res' = pfanout_res, dfanout_service' = dfanout_service
  PROVE  Inv' /\ GrantOK
<1> DEFINE c == dfanout_service[r]
<1>1. /\ stage[r] = "local"
      /\ DownstreamsOf(r) \subseteq Downstream
  BY CallingRequest
<1>2. RpcTypeOK /\ FanoutOK(r)
  BY InvFacts
<1>3. /\ PPMPop(r, c) /\ ReleaseParent(r)
      /\ call' = [call EXCEPT ![r] =
           [f \in Downstream |-> IF f = c THEN "sent"
                                 ELSE IF f \in DownstreamsOf(r) THEN "returned"
                                 ELSE "none"]]
  BY DEF DfanoutComplete
<1>4. /\ c \in DownstreamsOf(r) /\ c \in Downstream
      /\ \A f \in Downstream : r \in ppm_queue[f] <=> f = c
      /\ Occupies(r) /\ ~OccupiesTwo(r)
  BY <1>1, CollectingRequest
<1> HIDE DEF c
<1>5. /\ call' \in [Req -> [Downstream -> CallStage]]
      /\ call'[r][c] = "sent"
      /\ \A f \in DownstreamsOf(r) \ {c} : call'[r][f] = "returned"
      /\ \A f \in Downstream \ DownstreamsOf(r) : call'[r][f] = "none"
      /\ \A x \in Req \ {r} : call'[x] = call[x]
  <2> DEFINE g == [f \in Downstream |-> IF f = c THEN "sent"
                                 ELSE IF f \in DownstreamsOf(r) THEN "returned"
                                 ELSE "none"]
  <2>1. /\ g \in [Downstream -> CallStage] /\ g[c] = "sent"
        /\ \A f \in DownstreamsOf(r) \ {c} : g[f] = "returned"
        /\ \A f \in Downstream \ DownstreamsOf(r) : g[f] = "none"
    BY <1>1, <1>4 DEF CallStage
  <2>2. call' = [call EXCEPT ![r] = g]
    BY <1>3
  <2> HIDE DEF g
  <2>3. call \in [Req -> [Downstream -> CallStage]]
    BY <1>2 DEF RpcTypeOK
  <2>4. call'[r] = g /\ \A x \in Req \ {r} : call'[x] = call[x]
    BY <2>2, <2>3
  <2>5. call' \in [Req -> [Downstream -> CallStage]]
    BY <2>1, <2>2, <2>3
  <2>6. QED
    BY <2>1, <2>4, <2>5
<1>6. /\ ppm_queue' \in [Downstream -> SUBSET Req]
      /\ aborted' \in BOOLEAN
      /\ \A f \in Downstream :
           r \in ppm_queue'[f] <=> f # c /\ r \in ppm_queue[f]
      /\ \A x \in Req \ {r}, f \in Downstream :
           x \in ppm_queue'[f] <=> x \in ppm_queue[f]
  BY <1>2, <1>3, <1>4, PPMPopFacts
<1>7. /\ pfanout_req' \in [Req -> Nat]
      /\ \A x \in Req \ {r} : pfanout_req'[x] = pfanout_req[x]
  BY <1>2 DEF RpcTypeOK
<1>8. RpcTypeOK' /\ OthersUntouched(r)
  BY <1>2, <1>5, <1>6, <1>7 DEF RpcTypeOK, OthersUntouched
<1>9. stage'[r] = "local" => ~Occupies(r)' /\ ~OccupiesTwo(r)'
  <2>1. Blocked(r)'
    BY <1>4, <1>5 DEF Blocked, DownstreamsOf
  <2>2. QED
    BY <2>1 DEF Occupies, OccupiesTwo, FanoutOf
<1>10. stage'[r] = "local" => FanoutOK(r)'
  <2>1. \A f \in Downstream : r \in ppm_queue'[f] <=> AwaitsCredit(r, f)'
    <3>1. \A f \in Downstream : call'[r][f] # "asked"
      BY <1>5
    <3>2. QED
      BY <1>4, <1>6, <3>1 DEF AwaitsCredit, FanoutOf
  <2>2. DfanoutCalls(r)'
    BY <1>4, <1>5 DEF DfanoutCalls, DownstreamsOf, Sent, c
  <2>3. QED
    BY <1>5, <2>1, <2>2 DEF FanoutOK, FanoutOf, DownstreamsOf
<1>11. QED
  BY <1>1, <1>3, <1>4, <1>8, <1>9, <1>10, ReleaseStep

LEMMA RecvCreditGrantStep ==
  ASSUME Inv, NEW r \in Req, NEW d \in Downstream, RecvCreditGrant(r, d)
  PROVE  Inv' /\ GrantOK
<1>1. /\ call[r][d] = "asked" /\ pfanout_res' = pfanout_res
      /\ dfanout_service' = dfanout_service
  BY DEF RecvCreditGrant
<1>2. CASE FanoutOf(r) = "sequential" /\ SequentialGrant(r, d)
  BY <1>1, <1>2, SequentialGrantStep
<1>3. CASE FanoutOf(r) = "pfanout" /\ PfanoutGrant(r, d)
  BY <1>1, <1>3, PfanoutGrantStep
<1>4. CASE FanoutOf(r) = "dfanout" /\ DfanoutGrant(r, d)
  <2>1. /\ pfanout_req' = [pfanout_req EXCEPT ![r] = @ + 1]
        /\ DfanoutCollect(r, d) \/ DfanoutComplete(r, d)
    BY <1>4 DEF DfanoutGrant
  <2>2. QED
    BY <1>1, <1>4, <2>1, DfanoutCollectStep, DfanoutCompleteStep
<1>5. QED
  BY <1>2, <1>3, <1>4 DEF RecvCreditGrant

\* A response counts its parent as active again.
LEMMA SlotTaken ==
  ASSUME Inv, NEW r \in Req, cq' = IncrementInFlight(cq, ServiceOf[r]),
         stage' = stage
  PROVE  /\ ~Occupies(r) =>
              QueueOK(cq', stage', OccupyingRequests \cup {r}, TwoSlotRequests)
         /\ ~OccupiesTwo(r) =>
              QueueOK(cq', stage', OccupyingRequests, TwoSlotRequests \cup {r})
         /\ Waiting(cq') => cq'.in_flight >= 1
<1>1. /\ QueueOK(cq, stage, OccupyingRequests, TwoSlotRequests)
      /\ Occupies(r) <=> r \in OccupyingRequests
      /\ OccupiesTwo(r) <=> r \in TwoSlotRequests
  BY InvFacts
<1> DEFINE i == IncrementInFlight(cq, ServiceOf[r])
<1>2. /\ r \notin OccupyingRequests =>
           QueueOK(i, stage, OccupyingRequests \cup {r}, TwoSlotRequests)
      /\ r \notin TwoSlotRequests =>
           QueueOK(i, stage, OccupyingRequests, TwoSlotRequests \cup {r})
      /\ i.in_flight = cq.in_flight + 1
      /\ i.queue = cq.queue
  BY <1>1, CounterKeepsQueue
<1>3. cq' = i
  OBVIOUS
<1> HIDE DEF i
<1>4. cq.in_flight \in Int
  BY DEF Inv, TypeOK, CreditQueueType
<1>5. Waiting(cq') => cq'.in_flight >= 1
  <2>1. Waiting(cq') => Waiting(cq)
    BY <1>2, <1>3 DEF Waiting
  <2>2. Waiting(cq) => cq.in_flight >= 1
    BY DEF Inv, NoStrandedRequest
  <2>3. QED
    BY <1>2, <1>3, <1>4, <2>1, <2>2
<1>6. QED
  BY <1>1, <1>2, <1>3, <1>5

LEMMA RecvResponseStep ==
  ASSUME Inv, NEW r \in Req, NEW d \in Downstream, RecvResponse(r, d)
  PROVE  Inv' /\ GrantOK
<1>1. /\ call[r][d] = "sent" /\ aborted' \in BOOLEAN
      /\ call' = [call EXCEPT ![r][d] = "answered"]
      /\ stage' = stage /\ ppm_queue' = ppm_queue
      /\ pfanout_req' = pfanout_req /\ dfanout_service' = dfanout_service
  BY DEF RecvResponse
<1>2. /\ stage[r] = "local" /\ d \in DownstreamsOf(r)
      /\ FanoutOf(r) \in {"sequential", "pfanout", "dfanout"}
      /\ DownstreamsOf(r) \subseteq Downstream
      /\ IsFiniteSet(DownstreamsOf(r))
  BY <1>1, CallingRequest
<1>3. /\ RpcTypeOK /\ FanoutOK(r)
      /\ QueueOK(cq, stage, OccupyingRequests, TwoSlotRequests)
      /\ Occupies(r) <=> r \in OccupyingRequests
      /\ OccupiesTwo(r) <=> r \in TwoSlotRequests
  BY InvFacts
<1>4. /\ call' \in [Req -> [Downstream -> CallStage]]
      /\ call'[r][d] = "answered"
      /\ \A f \in Downstream \ {d} : call'[r][f] = call[r][f]
      /\ \A x \in Req \ {r} : call'[x] = call[x]
  <2>1. "answered" \in CallStage
    BY DEF CallStage
  <2>2. QED
    BY <1>1, <1>3, <2>1, CallChanged
<1>5. /\ pfanout_res' \in [Req -> Nat]
      /\ \A x \in Req \ {r} : pfanout_res'[x] = pfanout_res[x]
      /\ FanoutOf(r) = "pfanout" => pfanout_res'[r] = pfanout_res[r] + 1
  BY <1>3 DEF RpcTypeOK, RecvResponse
<1>6. RpcTypeOK' /\ OthersUntouched(r)
  BY <1>1, <1>3, <1>4, <1>5 DEF RpcTypeOK, OthersUntouched
<1>7. \A f \in Downstream \ DownstreamsOf(r) : call'[r][f] = "none"
  BY <1>2, <1>3, <1>4 DEF FanoutOK
<1>8. \A f \in Downstream : r \in ppm_queue'[f] <=> AwaitsCredit(r, f)'
  <2>1. \A f \in Downstream : AwaitsCredit(r, f)' <=> AwaitsCredit(r, f)
    BY <1>1, <1>4 DEF AwaitsCredit, FanoutOf
  <2>2. QED
    BY <1>1, <1>3, <2>1 DEF FanoutOK
<1> DEFINE O == OccupyingRequests \cup {r}
           W == TwoSlotRequests \cup {r}
<1>9. /\ r \in O /\ O \ {r} = OccupyingRequests \ {r}
      /\ r \in W /\ W \ {r} = TwoSlotRequests \ {r}
  OBVIOUS
<1>10. \A x \in Req \ {r} : stage'[x] = stage[x]
  BY <1>1
<1>11. stage'[r] = "granted" => stage[r] = "granted"
  BY <1>1
<1>12. CASE FanoutOf(r) # "pfanout"
  <2>1. cq' = IncrementInFlight(cq, ServiceOf[r])
    BY <1>12 DEF RecvResponse
  <2>2. ~Occupies(r) /\ ~OccupiesTwo(r)
    <3>1. Blocked(r)
      BY <1>1, <1>2 DEF Blocked
    <3>2. QED
      BY <1>2, <1>12, <3>1 DEF Occupies, OccupiesTwo
  <2>3. QueueOK(cq', stage', O, TwoSlotRequests)
        /\ (Waiting(cq') => cq'.in_flight >= 1)
    BY <1>1, <2>1, <2>2, SlotTaken
  <2>4. \A f \in DownstreamsOf(r) : call'[r][f] # "sent"
    <3>1. CASE FanoutOf(r) = "sequential"
      <4>1. SequentialCalls(r)
        BY <1>3, <3>1 DEF FanoutOK
      <4>2. QED
        BY <1>1, <1>2, <1>4, <4>1 DEF SequentialCalls
    <3>2. CASE FanoutOf(r) = "dfanout"
      <4>1. DfanoutCalls(r)
        BY <1>3, <3>2 DEF FanoutOK
      <4>2. \A f \in DownstreamsOf(r) \ {d} : call[r][f] = "returned"
        BY <1>1, <1>2, <4>1 DEF DfanoutCalls, NoCalls
      <4>3. QED
        BY <1>2, <1>4, <4>2
    <3>3. QED
      BY <1>2, <1>12, <3>1, <3>2
  <2>5. Occupies(r)' /\ ~OccupiesTwo(r)'
    <3>1. ~Blocked(r)'
      BY <2>4 DEF Blocked, DownstreamsOf
    <3>2. QED
      BY <1>1, <1>2, <1>12, <3>1 DEF Occupies, OccupiesTwo, FanoutOf
  <2>6. FanoutOf(r) = "sequential" => SequentialCalls(r)'
    <3>1. FanoutOf(r) = "sequential" => SequentialCalls(r)
      BY <1>3 DEF FanoutOK
    <3>2. QED
      BY <1>4, <3>1 DEF SequentialCalls
  <2>7. FanoutOf(r) = "dfanout" => DfanoutCalls(r)'
    <3> SUFFICES ASSUME FanoutOf(r) = "dfanout" PROVE DfanoutCalls(r)'
      OBVIOUS
    <3>1. DfanoutCalls(r)
      BY <1>3 DEF FanoutOK
    <3>2. /\ dfanout_service[r] = d
          /\ \A f \in DownstreamsOf(r) \ {d} : call[r][f] = "returned"
      BY <1>1, <1>2, <3>1 DEF DfanoutCalls, NoCalls
    <3>3. QED
      BY <1>1, <1>2, <1>4, <3>2 DEF DfanoutCalls, Sent, DownstreamsOf
  <2>8. FanoutOK(r)'
    BY <1>1, <1>2, <1>7, <1>8, <1>12, <2>6, <2>7
       DEF FanoutOK, FanoutOf, DownstreamsOf
  <2>9. r \notin TwoSlotRequests
    BY <1>3, <2>2
  <2> HIDE DEF O, W
  <2>10. QED
    BY <1>6, <1>9, <1>10, <1>11, <2>3, <2>5, <2>8, <2>9, QuietPreservesInv
<1>13. CASE FanoutOf(r) = "pfanout"
  <2>1. PfanoutCalls(r)
    BY <1>3, <1>13 DEF FanoutOK
  <2> DEFINE A == {f \in DownstreamsOf(r) : call[r][f] = "answered"}
             A2 == {f \in DownstreamsOf(r) : call'[r][f] = "answered"}
  <2>2. A2 = A \cup {d} /\ d \notin A
    BY <1>1, <1>2, <1>4
  <2>3. IsFiniteSet(A)
    BY <1>2, FS_Subset
  <2>4. pfanout_res[r] = Cardinality(A)
    BY <2>1 DEF PfanoutCalls
  <2>5. A = {} <=> ~SomeAnswered(r)
    BY DEF SomeAnswered
  <2>6. /\ Cardinality(A2) = Cardinality(A) + 1
        /\ Cardinality(A) \in Nat /\ (Cardinality(A) = 0 <=> A = {})
    <3> HIDE DEF A, A2
    <3>1. QED
      BY <2>2, <2>3, FS_AddElement, FS_CardinalityType, FS_EmptySet
  <2>7. \A f \in DownstreamsOf(r) : Sent(r, f)' <=> Sent(r, f)
    BY <1>1, <1>2, <1>4 DEF Sent
  <2>8. AllSent(r)' <=> AllSent(r)
    BY <2>7 DEF AllSent, DownstreamsOf
  <2>9. SomeAnswered(r)'
    BY <1>2, <1>4 DEF SomeAnswered, DownstreamsOf
  <2>10. PfanoutCalls(r)'
    <3>1. {f \in DownstreamsOf(r) : Sent(r, f)'}
            = {f \in DownstreamsOf(r) : Sent(r, f)}
      BY <2>7
    <3>2. pfanout_req'[r] = Cardinality({f \in DownstreamsOf(r) : Sent(r, f)'})
      BY <1>1, <2>1, <3>1 DEF PfanoutCalls
    <3>3. pfanout_res'[r] = Cardinality(A2)
      BY <1>5, <1>13, <2>4, <2>6
    <3>4. \A f \in Downstream :
            call'[r][f] \in {"none", "asked", "sent", "answered"}
      BY <1>4, <2>1 DEF PfanoutCalls
    <3>5. QED
      BY <3>2, <3>3, <3>4 DEF PfanoutCalls, DownstreamsOf
  <2>11. FanoutOK(r)'
    BY <1>1, <1>2, <1>7, <1>8, <1>13, <2>10
       DEF FanoutOK, FanoutOf, DownstreamsOf
  <2>12. Occupies(r)' /\ (OccupiesTwo(r)' <=> ~AllSent(r))
    BY <1>1, <1>2, <1>13, <2>8, <2>9 DEF Occupies, OccupiesTwo, FanoutOf
  <2>13. /\ Occupies(r) <=> ~AllSent(r) \/ SomeAnswered(r)
         /\ OccupiesTwo(r) <=> ~AllSent(r) /\ SomeAnswered(r)
    BY <1>2, <1>13 DEF Occupies, OccupiesTwo
  <2> HIDE DEF A, A2
  <2>14. CASE pfanout_res[r] + 1 > 1
    <3>1. cq' = cq
      BY <1>13, <2>14 DEF RecvResponse
    <3>2. SomeAnswered(r)
      BY <2>4, <2>5, <2>6, <2>14
    <3>3. QueueOK(cq', stage', OccupyingRequests, TwoSlotRequests)
      BY <1>1, <1>3, <3>1
    <3>4. Waiting(cq') => cq'.in_flight >= 1
      BY <3>1 DEF Inv, NoStrandedRequest
    <3>5. (Occupies(r)' <=> r \in OccupyingRequests)
          /\ (OccupiesTwo(r)' <=> r \in TwoSlotRequests)
      BY <1>3, <2>12, <2>13, <3>2
    <3>6. QED
      BY <1>6, <1>10, <1>11, <2>11, <3>3, <3>4, <3>5, QuietPreservesInv
  <2>15. CASE ~(pfanout_res[r] + 1 > 1)
    <3>1. cq' = IncrementInFlight(cq, ServiceOf[r])
      BY <1>13, <2>15 DEF RecvResponse
    <3>2. ~SomeAnswered(r)
      BY <2>4, <2>5, <2>6, <2>15
    <3>3. CASE AllSent(r)
      <4>1. ~Occupies(r) /\ r \notin TwoSlotRequests
        BY <1>3, <2>13, <3>2, <3>3
      <4>2. QueueOK(cq', stage', O, TwoSlotRequests)
            /\ (Waiting(cq') => cq'.in_flight >= 1)
        BY <1>1, <3>1, <4>1, SlotTaken
      <4>3. Occupies(r)' /\ ~OccupiesTwo(r)'
        BY <2>12, <3>3
      <4> HIDE DEF O, W
      <4>4. QED
        BY <1>6, <1>9, <1>10, <1>11, <2>11, <4>1, <4>2, <4>3,
           QuietPreservesInv
    <3>4. CASE ~AllSent(r)
      <4>1. ~OccupiesTwo(r) /\ r \in OccupyingRequests
        BY <1>3, <2>13, <3>2, <3>4
      <4>2. QueueOK(cq', stage', OccupyingRequests, W)
            /\ (Waiting(cq') => cq'.in_flight >= 1)
        BY <1>1, <3>1, <4>1, SlotTaken
      <4>3. Occupies(r)' /\ OccupiesTwo(r)'
        BY <2>12, <3>4
      <4> HIDE DEF O, W
      <4>4. QED
        BY <1>6, <1>9, <1>10, <1>11, <2>11, <4>1, <4>2, <4>3,
           QuietPreservesInv
    <3>5. QED
      BY <3>3, <3>4
  <2>16. QED
    BY <2>14, <2>15
<1>14. QED
  BY <1>12, <1>13

-----------------------------------------------------------------------------
(* The invariant holds in every reachable state *)

LEMMA InitInv == Init => Inv
<1> SUFFICES ASSUME Init PROVE Inv
  OBVIOUS
<1> DEFINE limit == [e \in Endpoint |-> InitialLimit]
           global == IF IsLeaf THEN LeafGlobalLimit(limit) ELSE IntMax
<1>1. /\ cq = EmptyCreditQueue(limit, global)
      /\ stage = [r \in Req |-> "none"]
      /\ call = [r \in Req |-> NoCalls]
      /\ ppm_queue = [d \in Downstream |-> {}]
      /\ pfanout_req = [r \in Req |-> 0]
      /\ pfanout_res = [r \in Req |-> 0]
      /\ dfanout_service = [r \in Req |-> NoService]
      /\ aborted = FALSE
  BY DEF Init
<1>2. limit \in [Endpoint -> PossibleLimits]
  BY DEF PossibleLimits
<1>3. global \in Nat \ {0}
  BY <1>2, GlobalLimitAssumption DEF IntMax
<1> HIDE DEF limit, global
<1>4. limit \in [Endpoint -> Int] /\ global \in Int
  <2>1. \A x \in PossibleLimits : x \in Int
    BY LimitsArePositive
  <2>2. limit \in [Endpoint -> Int]
    BY <1>2, <2>1
  <2>3. QED
    BY <1>3, <2>2
<1>5. Weight[0] = 16 /\ 0 \in Priority /\ 0 \in Endpoint
  BY EndpointsAssumption DEF Weight, Priority, PriorityCount, Endpoint
<1>6. /\ cq \in CreditQueueType
      /\ cq.remaining_rounds >= 1
      /\ cq.queue = [p \in Priority |-> [e \in Endpoint |-> <<>>]]
      /\ cq.in_flight = 0
      /\ cq.in_flight_per_endpoint = [e \in Endpoint |-> 0]
      /\ cq.global_limit = global
      /\ cq.per_endpoint_limit = limit
  BY <1>1, <1>4, <1>5 DEF EmptyCreditQueue, CreditQueueType
<1>7. stage \in [Req -> Stage] /\ \A r \in Req : stage[r] = "none"
  BY <1>1 DEF Stage
<1>8. RpcTypeOK
  <2>1. NoCalls \in [Downstream -> CallStage]
    BY DEF NoCalls, CallStage
  <2>2. QED
    BY <1>1, <2>1 DEF RpcTypeOK
<1>9. OccupyingRequests = {} /\ TwoSlotRequests = {}
  BY <1>7 DEF OccupyingRequests, TwoSlotRequests, Occupies, OccupiesTwo
<1>10. QueueMatches(cq.queue, stage)
  BY <1>6, <1>7 DEF QueueMatches
<1>11. Counts(cq, {}, {})
  <2>1. Cardinality({}) = 0 /\ \A S : {} \cap S = {}
    BY FS_EmptySet
  <2>2. QED
    BY <1>6, <2>1 DEF Counts
<1>12. LimitsPositive(cq)
  BY <1>2, <1>3, <1>6 DEF LimitsPositive
<1>13. QueueOK(cq, stage, OccupyingRequests, TwoSlotRequests)
  BY <1>6, <1>7, <1>9, <1>10, <1>11, <1>12 DEF QueueOK
<1>14. FanoutConsistent
  <2> SUFFICES ASSUME NEW r \in Req PROVE FanoutOK(r)
    BY DEF FanoutConsistent
  <2>1. /\ call[r] = NoCalls /\ pfanout_req[r] = 0 /\ pfanout_res[r] = 0
        /\ \A d \in Downstream : r \notin ppm_queue[d]
    BY <1>1
  <2>2. \A d \in Downstream : call[r][d] = "none"
    BY <2>1 DEF NoCalls
  <2>3. DownstreamsOf(r) \subseteq Downstream
    BY ConfigAssumption DEF DownstreamsOf
  <2>4. SequentialCalls(r) /\ DfanoutCalls(r)
    BY <2>1, <2>2 DEF SequentialCalls, DfanoutCalls
  <2>5. PfanoutCalls(r)
    <3>1. /\ {d \in DownstreamsOf(r) : Sent(r, d)} = {}
          /\ {d \in DownstreamsOf(r) : call[r][d] = "answered"} = {}
      BY <2>2, <2>3 DEF Sent
    <3>2. QED
      BY <2>1, <2>2, <3>1, FS_EmptySet DEF PfanoutCalls
  <2>6. QED
    BY <2>1, <2>2, <2>4, <2>5 DEF FanoutOK, AwaitsCredit
<1>15. NoStrandedRequest
  BY <1>6 DEF NoStrandedRequest, Waiting
<1>16. QED
  BY <1>8, <1>13, <1>14, <1>15, TypeFromParts DEF Inv

LEMMA StutterInv ==
  ASSUME Inv, UNCHANGED vars
  PROVE  Inv' /\ GrantOK
<1>1. /\ cq' = cq /\ stage' = stage /\ call' = call /\ ppm_queue' = ppm_queue
      /\ pfanout_req' = pfanout_req /\ pfanout_res' = pfanout_res
      /\ dfanout_service' = dfanout_service /\ aborted' = aborted
  BY DEF vars
<1>2. OccupyingRequests' = OccupyingRequests
      /\ TwoSlotRequests' = TwoSlotRequests
  BY <1>1 DEF OccupyingRequests, TwoSlotRequests, Occupies, OccupiesTwo,
              AllSent, SomeAnswered, Blocked, Sent, DownstreamsOf, FanoutOf
<1>3. QueueOK(cq, stage, OccupyingRequests, TwoSlotRequests)'
  BY <1>1, <1>2 DEF Inv, QueueOK, LimitsPositive, QueueMatches, Counts
<1>4. TypeOK' /\ NoStrandedRequest'
  BY <1>1 DEF Inv, TypeOK, NoStrandedRequest, Waiting
<1>5. FanoutConsistent'
  <2> SUFFICES ASSUME NEW r \in Req PROVE FanoutOK(r)'
    BY DEF FanoutConsistent
  <2>1. FanoutOK(r)
    BY InvFacts
  <2>2. QED
    BY <1>1, <2>1, FanoutUnchanged
<1>6. GrantOK
  BY <1>1 DEF GrantOK
<1>7. QED
  BY <1>3, <1>4, <1>5, <1>6 DEF Inv

LEMMA NextInv == Inv /\ [Next]_vars => Inv' /\ GrantOK
<1> SUFFICES ASSUME Inv, [Next]_vars PROVE Inv' /\ GrantOK
  OBVIOUS
<1>1. CASE UNCHANGED vars
  BY <1>1, StutterInv
<1>2. CASE Next
  <2>1. PICK r \in Req :
          \/ ClientCreditRequest(r)
          \/ RecvCreditRequest(r)
          \/ RecvCreditReturn(r)
          \/ RecvRequest(r)
          \/ LocalResponse(r)
          \/ \E d \in Downstream : \/ SubRequest(r, d)
                                   \/ RecvCreditGrant(r, d)
                                   \/ RecvResponse(r, d)
    BY <1>2 DEF Next
  <2>2. CASE ClientCreditRequest(r)
    BY <2>2, ClientCreditRequestStep
  <2>3. CASE RecvCreditRequest(r)
    BY <2>3, RecvCreditRequestStep
  <2>4. CASE RecvCreditReturn(r)
    BY <2>4, RecvCreditReturnStep
  <2>5. CASE RecvRequest(r)
    BY <2>5, RecvRequestStep
  <2>6. CASE LocalResponse(r)
    BY <2>6, LocalResponseStep
  <2>7. ASSUME NEW d \in Downstream, SubRequest(r, d)
        PROVE  Inv' /\ GrantOK
    BY <2>7, SubRequestStep
  <2>8. ASSUME NEW d \in Downstream, RecvCreditGrant(r, d)
        PROVE  Inv' /\ GrantOK
    BY <2>8, RecvCreditGrantStep
  <2>9. ASSUME NEW d \in Downstream, RecvResponse(r, d)
        PROVE  Inv' /\ GrantOK
    BY <2>9, RecvResponseStep
  <2>10. QED
    BY <2>1, <2>2, <2>3, <2>4, <2>5, <2>6, <2>7, <2>8, <2>9
<1>3. QED
  BY <1>1, <1>2

\* Spec implies that the inductive invariant always holds.
THEOREM Invariance == Spec => []Inv
<1>1. Inv /\ [Next]_vars => Inv'
  BY NextInv
<1>2. QED
  BY InitInv, <1>1, PTL DEF Spec

\* The state has the types of the code's variables, and remaining_rounds is
\* never zero when pop() decrements it.
THEOREM TypeCorrect == Spec => []TypeOK
<1>1. Inv => TypeOK
  BY DEF Inv
<1>2. QED
  BY Invariance, <1>1, PTL

\* in_flight and in_flight_per_endpoint count the active requests: no handler
\* leaks a slot or frees it twice, in whatever order the messages arrive.
THEOREM SlotsAccounted == Spec => []InFlightCountsActive
<1>1. Inv => InFlightCountsActive
  <2> SUFFICES ASSUME Inv PROVE InFlightCountsActive
    OBVIOUS
  <2>1. Counts(cq, OccupyingRequests, TwoSlotRequests)
    BY DEF Inv, QueueOK
  <2>2. cq.in_flight = Active(Req)
    BY <2>1 DEF Counts, Active, OccupyingRequests, TwoSlotRequests
  <2>3. ASSUME NEW e \in Endpoint
        PROVE  cq.in_flight_per_endpoint[e] = Active(RequestsOf(e))
    <3>1. /\ OccupyingRequests \cap RequestsOf(e)
               = {r \in RequestsOf(e) : Occupies(r)}
          /\ TwoSlotRequests \cap RequestsOf(e)
               = {r \in RequestsOf(e) : OccupiesTwo(r)}
      BY DEF OccupyingRequests, TwoSlotRequests, RequestsOf
    <3>2. QED
      BY <2>1, <3>1 DEF Counts, Active
  <2>4. QED
    BY <2>2, <2>3 DEF InFlightCountsActive
<1>2. QED
  BY Invariance, <1>1, PTL

\* A Credit Request that was received is in the credit queue exactly once
\* until it is granted.
THEOREM QueueAccounted == Spec => []QueueHoldsWaiting
<1>1. Inv => QueueHoldsWaiting
  BY DEF Inv, QueueOK, QueueHoldsWaiting
<1>2. QED
  BY Invariance, <1>1, PTL

\* Fan-out counters and PPMQueues agree with the sub-requests under way.
THEOREM FanoutAccounted == Spec => []FanoutConsistent
<1>1. Inv => FanoutConsistent
  BY DEF Inv
<1>2. QED
  BY Invariance, <1>1, PTL

\* While a Credit Request waits, some request is active, whose end pops the
\* queue again, also when update_limits changed the limits meanwhile.
THEOREM NothingStranded == Spec => []NoStrandedRequest
<1>1. Inv => NoStrandedRequest
  BY DEF Inv
<1>2. QED
  BY Invariance, <1>1, PTL

\* No Credit Grant is sent beyond the limits in force.
THEOREM GrantsLimited == Spec => GrantsWithinLimits
<1>1. Inv /\ [Next]_vars =>
        [\A r \in Req : stage[r] # "granted" /\ stage'[r] = "granted" =>
           /\ cq'.in_flight <= cq'.global_limit
           /\ cq'.in_flight_per_endpoint[ServiceOf[r]]
                <= cq'.per_endpoint_limit[ServiceOf[r]]]_vars
  BY NextInv DEF GrantOK
<1>2. QED
  BY Invariance, <1>1, PTL DEF Spec, GrantsWithinLimits

-----------------------------------------------------------------------------
(* No handler reaches LOG(FATAL) *)

PrioritiesInRange == \A r \in Req : PriorityOf[r] \in Priority

LEMMA GrantFindsSubRequest ==
  ASSUME Inv, NEW r \in Req, NEW d \in Downstream, RecvCreditGrant(r, d)
  PROVE  aborted' = FALSE
<1>1. call[r][d] = "asked" /\ stage[r] = "local" /\ FanoutOK(r)
  BY CallingRequest, InvFacts DEF RecvCreditGrant
<1>2. CASE FanoutOf(r) # "dfanout"
  <2>1. r \in ppm_queue[d]
    BY <1>1, <1>2 DEF FanoutOK, AwaitsCredit
  <2>2. PPMPop(r, d)
    BY <1>2 DEF RecvCreditGrant, SequentialGrant, PfanoutGrant
  <2>3. QED
    BY <1>1, <2>1, <2>2 DEF PPMPop
<1>3. CASE FanoutOf(r) = "dfanout"
  <2>1. DfanoutCollect(r, d) \/ PPMPop(r, dfanout_service[r])
    BY <1>3 DEF RecvCreditGrant, DfanoutGrant, DfanoutComplete
  <2>2. r \in ppm_queue[dfanout_service[r]]
    <3>1. /\ dfanout_service[r] \in DownstreamsOf(r)
          /\ \A f \in Downstream : r \in ppm_queue[f] <=> f = dfanout_service[r]
      BY <1>1, <1>3, CollectingRequest
    <3>2. DownstreamsOf(r) \subseteq Downstream
      BY ConfigAssumption DEF DownstreamsOf
    <3>3. QED
      BY <3>1, <3>2
  <2>3. QED
    BY <1>1, <2>1, <2>2 DEF DfanoutCollect, PPMPop
<1>4. QED
  BY <1>2, <1>3

LEMMA StepDoesNotAbort ==
  ASSUME PrioritiesInRange, Inv, NoAbort, [Next]_vars
  PROVE  NoAbort'
<1>1. CASE UNCHANGED vars
  BY <1>1 DEF vars, NoAbort
<1>2. CASE Next
  <2>1. PICK r \in Req :
          \/ ClientCreditRequest(r)
          \/ RecvCreditRequest(r)
          \/ RecvCreditReturn(r)
          \/ RecvRequest(r)
          \/ LocalResponse(r)
          \/ \E d \in Downstream : \/ SubRequest(r, d)
                                   \/ RecvCreditGrant(r, d)
                                   \/ RecvResponse(r, d)
    BY <1>2 DEF Next
  <2>2. CASE ClientCreditRequest(r) \/ RecvCreditReturn(r) \/ RecvRequest(r)
    BY <2>2 DEF ClientCreditRequest, RecvCreditReturn, RecvRequest, NoAbort
  <2>3. CASE RecvCreditRequest(r)
    BY <2>3 DEF RecvCreditRequest, PrioritiesInRange, NoAbort
  <2>4. CASE LocalResponse(r)
    <3>1. stage[r] = "local" /\ MayRespond(r)
      BY <2>4 DEF LocalResponse
    <3>2. \A d \in Downstream : call[r][d] # "granted"
      BY <3>1, RespondingRequest
    <3>3. QED
      BY <2>4, <3>2 DEF LocalResponse, NoAbort
  <2>5. ASSUME NEW d \in Downstream, SubRequest(r, d)
        PROVE  NoAbort'
    <3>1. MayCall(r, d) /\ PPMPush(r, d) /\ FanoutOK(r)
      BY <2>5, InvFacts DEF SubRequest
    <3>2. ~AwaitsCredit(r, d)
      BY <3>1 DEF MayCall, AwaitsCredit, NoCalls
    <3>3. r \notin ppm_queue[d]
      BY <3>1, <3>2 DEF FanoutOK
    <3>4. QED
      BY <3>1, <3>3 DEF PPMPush, NoAbort
  <2>6. ASSUME NEW d \in Downstream, RecvCreditGrant(r, d)
        PROVE  NoAbort'
    BY <2>6, GrantFindsSubRequest DEF NoAbort
  <2>7. ASSUME NEW d \in Downstream, RecvResponse(r, d)
        PROVE  NoAbort'
    <3>1. call[r][d] = "sent"
      BY <2>7 DEF RecvResponse
    <3>2. stage[r] = "local"
      BY <3>1, CallingRequest
    <3>3. QED
      BY <2>7, <3>2 DEF RecvResponse, NoAbort
  <2>8. QED
    BY <2>1, <2>2, <2>3, <2>4, <2>5, <2>6, <2>7
<1>3. QED
  BY <1>1, <1>2

\* If every request has a priority the credit queue has a level for, no
\* interleaving of messages makes a handler abort the process: a grant finds
\* its sub-request and its parent, a response finds its parent, and no credit
\* is left to return when the parent is answered.
THEOREM NeverAborts ==
  ASSUME PrioritiesInRange
  PROVE  Spec => []NoAbort
<1>1. Init => NoAbort
  BY DEF Init, NoAbort
<1>2. Inv /\ NoAbort /\ [Next]_vars => NoAbort'
  BY StepDoesNotAbort
<1>3. QED
  BY Invariance, <1>1, <1>2, PTL DEF Spec

-----------------------------------------------------------------------------
(* Work conservation *)

\* What a step does to the credit queue while limits do not change.
CreditQueueSteps(e) ==
  {cq, IncrementInFlight(cq, e), Pop(DecrementInFlight(cq, e)).cq}
    \cup {Pop(Push(cq, r, e, p)).cq : r \in Req, p \in Priority}

LEMMA QueueStep ==
  ASSUME Ratios = {}, NEW r \in Req, NEW e, e = ServiceOf[r],
         \/ ClientCreditRequest(r) \/ RecvCreditRequest(r) \/ RecvCreditReturn(r)
         \/ RecvRequest(r) \/ LocalResponse(r)
         \/ \E d \in Downstream : \/ SubRequest(r, d)
                                  \/ RecvCreditGrant(r, d)
                                  \/ RecvResponse(r, d)
  PROVE  cq' \in CreditQueueSteps(e)
<1> USE DEF CreditQueueSteps
<1>1. CASE ClientCreditRequest(r) \/ RecvRequest(r) \/ \E d \in Downstream : SubRequest(r, d)
  BY <1>1 DEF ClientCreditRequest, RecvRequest, SubRequest
<1>2. CASE RecvCreditRequest(r)
  <2>1. LimitsMaybeUpdated(cq, e) = {cq}
    BY DEF LimitsMaybeUpdated
  <2>2. \/ cq' = cq
        \/ /\ PriorityOf[r] \in Priority
           /\ \E c \in LimitsMaybeUpdated(cq, e) : cq' = Pop(Push(c, r, e, PriorityOf[r])).cq
    BY <1>2 DEF RecvCreditRequest, CheckCreditTransmission
  <2>3. QED
    BY <2>1, <2>2
<1>3. CASE RecvCreditReturn(r) \/ LocalResponse(r)
  <2>1. cq' = Pop(DecrementInFlight(cq, e)).cq
    BY <1>3 DEF RecvCreditReturn, LocalResponse, CheckCreditTransmission
  <2>2. QED
    BY <2>1
<1>4. ASSUME NEW d \in Downstream, RecvCreditGrant(r, d)
      PROVE  cq' \in CreditQueueSteps(e)
  <2>1. ReleaseParent(r) \/ cq' = cq
    BY <1>4 DEF RecvCreditGrant, SequentialGrant, PfanoutGrant, DfanoutGrant,
                DfanoutCollect, DfanoutComplete
  <2>2. QED
    BY <2>1 DEF ReleaseParent, CheckCreditTransmission
<1>5. ASSUME NEW d \in Downstream, RecvResponse(r, d)
      PROVE  cq' \in CreditQueueSteps(e)
  BY <1>5 DEF RecvResponse
<1>6. QED
  BY <1>1, <1>2, <1>3, <1>4, <1>5

LEMMA StepConserves ==
  ASSUME Ratios = {}, Inv, NoIdleCredit, [Next]_vars
  PROVE  NoIdleCredit'
<1>1. cq \in CreditQueueType /\ cq.remaining_rounds >= 1 /\ ~CanGrant(cq)
  BY DEF Inv, TypeOK, NoIdleCredit
<1>2. CASE UNCHANGED vars
  BY <1>2 DEF vars, NoIdleCredit, CanGrant, EligiblePriority, Eligible
<1>3. CASE Next
  <2>1. PICK r \in Req : cq' \in CreditQueueSteps(ServiceOf[r])
    BY <1>3, QueueStep DEF Next
  <2>2. ServiceOf[r] \in Endpoint
    BY ConfigAssumption
  <2>3. ~CanGrant(cq')
    BY <1>1, <2>1, <2>2, IncrementConserves, DecrementPopConserves, PushPopConserves
    DEF CreditQueueSteps
  <2>4. QED
    BY <2>3 DEF NoIdleCredit, CanGrant, EligiblePriority, Eligible
<1>4. QED
  BY <1>2, <1>3

\* While update_limits finds no reason to change the limits, no Credit Request
\* waits that could be granted: one pop at the end of a handler is enough, in
\* whatever order grants, returns, sub-requests and responses free slots.
THEOREM SlotsNeverIdle ==
  ASSUME Ratios = {}
  PROVE  Spec => []NoIdleCredit
<1>1. Init => NoIdleCredit
  BY DEF Init, EmptyCreditQueue, NoIdleCredit, CanGrant, EligiblePriority, Eligible
<1>2. Inv /\ NoIdleCredit /\ [Next]_vars => NoIdleCredit'
  BY StepConserves
<1>3. QED
  BY Invariance, <1>1, <1>2, PTL DEF Spec

-----------------------------------------------------------------------------
(* Bounded overtaking *)

\* A step that does not pop: the round robin keeps its place, nobody gets a
\* grant.
QuietStep ==
  /\ SamePlace(cq, cq')
  /\ \A r \in Req : stage'[r] = "granted" => stage[r] = "granted"

\* A step that pops queue c when the requests are at stages st: what the step
\* did before the pop granted nothing and left every head at its place.
PoppingStep(c, st) ==
  /\ SamePlace(cq, c)
  /\ QueueMatches(c.queue, st)
  /\ \A p \in Priority, e \in Endpoint : cq.queue[p][e] # <<>> =>
       c.queue[p][e] # <<>> /\ Head(c.queue[p][e]) = Head(cq.queue[p][e])
  /\ \A r \in Req : st[r] = "granted" => stage[r] = "granted"
  /\ \A r \in Req : st[r] = "queued" => stage[r] # "granted"
  /\ CheckCreditTransmission(c, st)

LimiterStep ==
  QuietStep \/ \E c \in CreditQueueType, st \in [Req -> Stage] : PoppingStep(c, st)

\* The limit update touches neither the queues nor the iterators.
LEMMA LimitsKeepPlace ==
  ASSUME NEW c \in CreditQueueType, NEW e \in Endpoint,
         NEW n \in LimitsMaybeUpdated(c, e)
  PROVE  SamePlace(c, n) /\ n.queue = c.queue
<1> DEFINE Kept(u) == SamePlace(c, u) /\ u.queue = c.queue
<1>1. \A l : /\ Kept(UpdateEndpointLimit(c, l, e))
             /\ \A g : Kept(UpdateGlobalLimit(UpdateEndpointLimit(c, l, e), g))
  BY DEF SamePlace, CreditQueueType, UpdateEndpointLimit, UpdateGlobalLimit
<1>2. Kept(c)
  BY DEF SamePlace
<1> HIDE DEF Kept
<1>3. \A k \in Ratios : Kept(UpdateLimits(c, e, k))
  BY <1>1 DEF UpdateLimits
<1>4. Kept(n)
  BY <1>2, <1>3 DEF LimitsMaybeUpdated
<1>5. QED
  BY <1>4 DEF Kept

LEMMA RecvCreditRequestPops ==
  ASSUME Inv, NEW r \in Req, RecvCreditRequest(r)
  PROVE  LimiterStep
<1>1. stage[r] = "asked"
  BY DEF RecvCreditRequest
<1>2. CASE PriorityOf[r] \in Priority
  <2> DEFINE p == PriorityOf[r]
             e == ServiceOf[r]
             st == [stage EXCEPT ![r] = "queued"]
  <2>1. PICK l \in LimitsMaybeUpdated(cq, e) :
          CheckCreditTransmission(Push(l, r, e, p), st)
    BY <1>2 DEF RecvCreditRequest
  <2> DEFINE c == Push(l, r, e, p)
  <2>2. cq \in CreditQueueType /\ e \in Endpoint /\ p \in Priority
        /\ stage \in [Req -> Stage]
        /\ QueueOK(cq, stage, OccupyingRequests, TwoSlotRequests)
    BY <1>2, ConfigAssumption DEF Inv, TypeOK
  <2>3. QueueOK(l, stage, OccupyingRequests, TwoSlotRequests)
    BY <2>2, LimitsKeepQueue
  <2>4. QueueOK(c, st, OccupyingRequests, TwoSlotRequests)
    BY <1>1, <1>2, <2>3, PushKeepsQueue
  <2>5. SamePlace(cq, l) /\ l.queue = cq.queue
    BY <2>2, LimitsKeepPlace
  <2>6. l \in CreditQueueType /\ c \in CreditQueueType
        /\ st \in [Req -> Stage] /\ QueueMatches(c.queue, st)
    BY <2>3, <2>4 DEF QueueOK
  <2>7. st[r] = "queued" /\ \A x \in Req \ {r} : st[x] = stage[x]
    BY <2>2
  <2> HIDE DEF p, e, st
  <2>8. SamePlace(l, c) /\ c.queue = [l.queue EXCEPT ![p][e] = Append(@, r)]
    BY <2>2, <2>6, PlaceKept, PushFacts
  <2> HIDE DEF c
  <2>9. SamePlace(cq, c)
    BY <2>5, <2>8 DEF SamePlace
  <2>10. ASSUME NEW x \in Priority, NEW y \in Endpoint, cq.queue[x][y] # <<>>
         PROVE  c.queue[x][y] # <<>> /\ Head(c.queue[x][y]) = Head(cq.queue[x][y])
    <3>1. cq.queue \in [Priority -> [Endpoint -> Seq(Req)]]
      BY <2>2 DEF CreditQueueType
    <3>2. cq.queue[x][y] \in Seq(Req)
      BY <3>1
    <3>3. \/ c.queue[x][y] = cq.queue[x][y]
          \/ c.queue[x][y] = Append(cq.queue[x][y], r)
      BY <2>2, <2>5, <2>8, <3>1
    <3>4. QED
      BY <2>10, <3>2, <3>3
  <2>11. CheckCreditTransmission(c, st)
    BY <2>1 DEF c
  <2>12. PoppingStep(c, st)
    BY <1>1, <2>6, <2>7, <2>9, <2>10, <2>11 DEF PoppingStep
  <2>13. QED
    BY <2>6, <2>12 DEF LimiterStep
<1>3. CASE PriorityOf[r] \notin Priority
  <2>1. cq' = cq /\ stage' = stage
    BY <1>3 DEF RecvCreditRequest
  <2>2. QED
    BY <2>1 DEF LimiterStep, QuietStep, SamePlace
<1>4. QED
  BY <1>2, <1>3

\* A handler that frees a slot of request r, moves it to stage s and pops.
LEMMA FreedSlotPops ==
  ASSUME Inv, NEW r \in Req, NEW s \in {"none", "local"},
         stage[r] \in {"granted", "local"},
         CheckCreditTransmission(DecrementInFlight(cq, ServiceOf[r]),
                                 [stage EXCEPT ![r] = s])
  PROVE  LimiterStep
<1> DEFINE c == DecrementInFlight(cq, ServiceOf[r])
           st == [stage EXCEPT ![r] = s]
<1>1. /\ cq \in CreditQueueType /\ ServiceOf[r] \in Endpoint
      /\ stage \in [Req -> Stage] /\ QueueMatches(cq.queue, stage)
  BY ConfigAssumption DEF Inv, TypeOK, QueueOK
<1>2. c \in CreditQueueType /\ c.queue = cq.queue /\ SamePlace(cq, c)
  BY <1>1, DecrementFacts, PlaceKept
<1>3. cq.queue \in QueueType
  BY <1>1 DEF CreditQueueType, QueueType
<1>4. st \in [Req -> Stage] /\ QueueMatches(cq.queue, st)
  BY <1>1, <1>3, MatchesStage DEF Stage
<1>5. st[r] = s /\ \A x \in Req \ {r} : st[x] = stage[x]
  BY <1>1
<1>6. CheckCreditTransmission(c, st)
  OBVIOUS
<1> HIDE DEF c, st
<1>7. PoppingStep(c, st)
  BY <1>2, <1>4, <1>5, <1>6 DEF PoppingStep
<1>8. QED
  BY <1>2, <1>4, <1>7 DEF LimiterStep

LEMMA EveryLimiterStep ==
  ASSUME Inv, [Next]_vars
  PROVE  LimiterStep
<1>1. CASE UNCHANGED vars
  BY <1>1 DEF vars, LimiterStep, QuietStep, SamePlace
<1>2. ASSUME NEW r \in Req,
             \/ ClientCreditRequest(r)
             \/ RecvRequest(r)
             \/ \E d \in Downstream : SubRequest(r, d)
      PROVE  LimiterStep
  <2>1. stage \in [Req -> Stage]
    BY DEF Inv, TypeOK
  <2>2. cq' = cq /\ \A x \in Req : stage'[x] = "granted" => stage[x] = "granted"
    BY <1>2, <2>1 DEF ClientCreditRequest, RecvRequest, SubRequest
  <2>3. QED
    BY <2>2 DEF LimiterStep, QuietStep, SamePlace
<1>3. ASSUME NEW r \in Req, RecvCreditRequest(r) PROVE LimiterStep
  BY <1>3, RecvCreditRequestPops
<1>4. ASSUME NEW r \in Req, RecvCreditReturn(r) \/ LocalResponse(r) PROVE LimiterStep
  BY <1>4, FreedSlotPops DEF RecvCreditReturn, LocalResponse
<1>5. ASSUME NEW r \in Req, NEW d \in Downstream, RecvCreditGrant(r, d)
      PROVE  LimiterStep
  <2>1. /\ ReleaseParent(r) \/ (cq' = cq /\ stage' = stage)
        /\ call[r][d] = "asked"
    BY <1>5 DEF RecvCreditGrant, SequentialGrant, PfanoutGrant, DfanoutGrant,
                DfanoutCollect, DfanoutComplete
  <2>2. CASE cq' = cq /\ stage' = stage
    BY <2>2 DEF LimiterStep, QuietStep, SamePlace
  <2>3. CASE ReleaseParent(r)
    <3>1. FanoutOK(r) /\ stage \in [Req -> Stage]
      BY InvFacts
    <3>2. stage[r] = "local"
      BY <2>1, <3>1 DEF FanoutOK, NoCalls
    <3>3. stage = [stage EXCEPT ![r] = "local"]
      BY <3>1, <3>2
    <3>4. CheckCreditTransmission(DecrementInFlight(cq, ServiceOf[r]),
                                  [stage EXCEPT ![r] = "local"])
      BY <2>3, <3>3 DEF ReleaseParent
    <3>5. QED
      BY <3>2, <3>4, FreedSlotPops
  <2>4. QED
    BY <2>1, <2>2, <2>3
<1>6. ASSUME NEW r \in Req, NEW d \in Downstream, RecvResponse(r, d)
      PROVE  LimiterStep
  <2>1. cq \in CreditQueueType /\ ServiceOf[r] \in Endpoint
    BY ConfigAssumption DEF Inv, TypeOK
  <2>2. stage' = stage /\ (cq' = cq \/ cq' = IncrementInFlight(cq, ServiceOf[r]))
    BY <1>6 DEF RecvResponse
  <2>3. SamePlace(cq, cq')
    BY <2>1, <2>2, PlaceKept DEF SamePlace
  <2>4. QED
    BY <2>2, <2>3 DEF LimiterStep, QuietStep
<1>7. QED
  BY <1>1, <1>2, <1>3, <1>4, <1>5, <1>6 DEF Next

\* The weight the priority at its turn has left stays within its weight.
LEMMA RoundsInv ==
  ASSUME Inv, RoundsOK(cq), [Next]_vars
  PROVE  RoundsOK(cq')
<1>1. CASE QuietStep
  BY <1>1, SamePlaceFacts DEF QuietStep
<1>2. ASSUME NEW c \in CreditQueueType, NEW st \in [Req -> Stage], PoppingStep(c, st)
      PROVE  RoundsOK(cq')
  <2>1. cq' = Pop(c).cq /\ SamePlace(cq, c)
    BY <1>2 DEF PoppingStep, CheckCreditTransmission
  <2>2. RoundsOK(c)
    BY <2>1, SamePlaceFacts
  <2>3. QED
    BY <2>1, <2>2, PopRounds
<1>3. QED
  BY <1>1, <1>2, EveryLimiterStep DEF LimiterStep

\* Somebody gets a grant in this step.
SomeGrant == \E r \in Req : stage[r] # "granted" /\ stage'[r] = "granted"

\* What OvertakingBounded says of a step.
OvertakingOK(p, e) ==
  /\ cq.queue[p][e] # <<>> /\ cq'.queue[p][e] # <<>>
  /\ Head(cq'.queue[p][e]) = Head(cq.queue[p][e])
  /\ cq'.in_flight_per_endpoint[e] < cq'.per_endpoint_limit[e]
  => /\ Bypass(cq', p, e) < FullTurn * NumEndpoints
     /\ IF SomeGrant THEN Bypass(cq', p, e) < Bypass(cq, p, e)
                     ELSE Bypass(cq', p, e) = Bypass(cq, p, e)

\* A request is queued once, so a head that was granted does not follow itself.
LEMMA HeadsDiffer ==
  ASSUME NEW q \in QueueType, NEW st, QueueMatches(q, st),
         NEW p \in Priority, NEW e \in Endpoint,
         q[p][e] # <<>>, Tail(q[p][e]) # <<>>
  PROVE  Head(Tail(q[p][e])) # Head(q[p][e])
<1> DEFINE s == q[p][e]
<1>1. s \in Seq(Req)
  BY DEF QueueType
<1>2. \A i, j \in DOMAIN s : s[j] = s[i] => j = i
  BY DEF QueueMatches
<1> HIDE DEF s
<1>3. s # <<>> /\ Tail(s) # <<>>
  BY DEF s
<1>4. /\ Len(s) \in Nat /\ DOMAIN s = 1 .. Len(s) /\ 1 \in DOMAIN s
      /\ Head(s) = s[1] /\ DOMAIN Tail(s) = 1 .. Len(s) - 1
      /\ \A i \in 1 .. Len(s) - 1 : Tail(s)[i] = s[i + 1]
  BY <1>1, <1>3, TailFacts
<1>5. Tail(s) \in Seq(Req)
  BY <1>1, <1>3
<1>6. 1 \in DOMAIN Tail(s) /\ Head(Tail(s)) = Tail(s)[1]
  BY <1>3, <1>5, TailFacts
<1>7. 2 \in DOMAIN s /\ Head(Tail(s)) = s[2]
  BY <1>4, <1>6
<1>8. s[2] # s[1]
  BY <1>2, <1>4, <1>7
<1>9. QED
  BY <1>4, <1>7, <1>8 DEF s

LEMMA PopOvertaking ==
  ASSUME NEW c \in CreditQueueType, NEW st \in [Req -> Stage], PoppingStep(c, st),
         RoundsOK(cq), NEW p \in Priority, NEW e \in Endpoint,
         cq.queue[p][e] # <<>>, cq'.queue[p][e] # <<>>,
         Head(cq'.queue[p][e]) = Head(cq.queue[p][e]),
         cq'.in_flight_per_endpoint[e] < cq'.per_endpoint_limit[e]
  PROVE  IF SomeGrant THEN Bypass(cq', p, e) < Bypass(cq, p, e)
                      ELSE Bypass(cq', p, e) = Bypass(cq, p, e)
<1> DEFINE n == Pop(c).cq
           g == Pop(c).grant
<1>1. /\ cq' = n /\ SamePlace(cq, c) /\ QueueMatches(c.queue, st)
      /\ stage' = IF g = NoReq THEN st ELSE [st EXCEPT ![g] = "granted"]
      /\ c.queue[p][e] # <<>> /\ Head(c.queue[p][e]) = Head(cq.queue[p][e])
      /\ \A r \in Req : st[r] = "granted" => stage[r] = "granted"
      /\ \A r \in Req : st[r] = "queued" => stage[r] # "granted"
  BY DEF PoppingStep, CheckCreditTransmission
<1>2. RoundsOK(c) /\ Bypass(c, p, e) = Bypass(cq, p, e)
  BY <1>1, SamePlaceFacts
<1>3. c.remaining_rounds >= 1
  BY <1>2 DEF RoundsOK
<1>4. c.in_flight_per_endpoint[e] < c.per_endpoint_limit[e]
  <2>1. /\ n.per_endpoint_limit = c.per_endpoint_limit
        /\ \/ n.in_flight_per_endpoint = c.in_flight_per_endpoint
           \/ \E y \in Endpoint :
                n.in_flight_per_endpoint =
                  [c.in_flight_per_endpoint EXCEPT ![y] = @ + 1]
    BY <1>3, PopFacts, ZenonT(60)
  <2>2. c.in_flight_per_endpoint \in [Endpoint -> Int]
        /\ c.per_endpoint_limit \in [Endpoint -> Int]
    BY DEF CreditQueueType
  <2>3. n.in_flight_per_endpoint[e] < n.per_endpoint_limit[e]
    BY <1>1
  <2> DEFINE f == c.in_flight_per_endpoint
             l == c.per_endpoint_limit
  <2> HIDE DEF n, f, l
  <2>4. f[e] \in Int /\ l[e] \in Int /\ f \in [Endpoint -> Int]
    BY <2>2 DEF f, l
  <2>5. CASE n.in_flight_per_endpoint = f
    BY <2>1, <2>3, <2>5 DEF f
  <2>6. ASSUME NEW y \in Endpoint, n.in_flight_per_endpoint = [f EXCEPT ![y] = @ + 1]
        PROVE  f[e] < l[e]
    <3>1. n.in_flight_per_endpoint[e] = IF e = y THEN f[e] + 1 ELSE f[e]
      BY <2>4, <2>6
    <3>2. n.in_flight_per_endpoint[e] < l[e]
      BY <2>1, <2>3 DEF l
    <3>3. QED
      BY <2>4, <3>1, <3>2
  <2>7. QED
    BY <2>1, <2>5, <2>6 DEF f, l
<1>5. \/ g = NoReq /\ SamePlace(c, n)
      \/ /\ \E x \in Priority, y \in Endpoint :
              c.queue[x][y] # <<>> /\ g = Head(c.queue[x][y])
         /\ \/ Bypass(n, p, e) < Bypass(c, p, e)
            \/ n.queue[p][e] = Tail(c.queue[p][e])
  BY <1>1, <1>2, <1>4, PopOvertakes, ZenonT(60)
<1>6. c.queue \in QueueType
  BY DEF CreditQueueType, QueueType
<1> HIDE DEF n, g
<1>7. CASE g = NoReq /\ SamePlace(c, n)
  <2>1. ~SomeGrant
    BY <1>1, <1>7 DEF SomeGrant
  <2>2. QED
    BY <1>1, <1>2, <1>7, <2>1, SamePlaceFacts
<1>8. ASSUME NEW x \in Priority, NEW y \in Endpoint,
             c.queue[x][y] # <<>>, g = Head(c.queue[x][y]),
             \/ Bypass(n, p, e) < Bypass(c, p, e)
             \/ n.queue[p][e] = Tail(c.queue[p][e])
      PROVE  SomeGrant /\ Bypass(cq', p, e) < Bypass(cq, p, e)
  <2>1. c.queue[x][y] \in Seq(Req)
    BY <1>6 DEF QueueType
  <2>2. g \in Req /\ 1 \in DOMAIN c.queue[x][y] /\ g = c.queue[x][y][1]
    BY <1>8, <2>1, TailFacts
  <2>3. st[g] = "queued" /\ g # NoReq
    BY <1>1, <2>2, NoReqAssumption DEF QueueMatches
  <2>4. SomeGrant
    BY <1>1, <2>2, <2>3 DEF SomeGrant
  <2>5. n.queue[p][e] # Tail(c.queue[p][e])
    <3>1. n.queue[p][e] # <<>> /\ Head(n.queue[p][e]) = Head(c.queue[p][e])
      BY <1>1
    <3>2. QED
      BY <1>1, <1>6, <3>1, HeadsDiffer
  <2>6. QED
    BY <1>1, <1>2, <1>8, <2>4, <2>5
<1>9. QED
  BY <1>5, <1>7, <1>8

LEMMA StepOvertaking ==
  ASSUME Inv, RoundsOK(cq), [Next]_vars, NEW p \in Priority, NEW e \in Endpoint
  PROVE  OvertakingOK(p, e)
<1> SUFFICES ASSUME cq.queue[p][e] # <<>>, cq'.queue[p][e] # <<>>,
                    Head(cq'.queue[p][e]) = Head(cq.queue[p][e]),
                    cq'.in_flight_per_endpoint[e] < cq'.per_endpoint_limit[e]
             PROVE  /\ Bypass(cq', p, e) < FullTurn * NumEndpoints
                    /\ IF SomeGrant THEN Bypass(cq', p, e) < Bypass(cq, p, e)
                                    ELSE Bypass(cq', p, e) = Bypass(cq, p, e)
  BY DEF OvertakingOK
<1>1. Bypass(cq', p, e) < FullTurn * NumEndpoints
  <2>1. cq' \in CreditQueueType /\ RoundsOK(cq')
    BY NextInv, RoundsInv DEF Inv, TypeOK
  <2>2. QED
    BY <2>1, BypassBounded
<1>2. CASE QuietStep
  <2>1. ~SomeGrant
    BY <1>2 DEF QuietStep, SomeGrant
  <2>2. Bypass(cq', p, e) = Bypass(cq, p, e)
    BY <1>2, SamePlaceFacts DEF QuietStep
  <2>3. QED
    BY <1>1, <2>1, <2>2
<1>3. ASSUME NEW c \in CreditQueueType, NEW st \in [Req -> Stage], PoppingStep(c, st)
      PROVE  IF SomeGrant THEN Bypass(cq', p, e) < Bypass(cq, p, e)
                          ELSE Bypass(cq', p, e) = Bypass(cq, p, e)
  BY <1>3, PopOvertaking
<1>4. QED
  BY <1>1, <1>2, <1>3, EveryLimiterStep DEF LimiterStep

\* The head of every queue with a free slot at its endpoint is overtaken at most
\* 21 times per endpoint, less one, before pop() takes it: each grant to another
\* request lowers the bound by at least one, and nothing else raises it, whatever
\* the limits are updated to and however many requests arrive.
THEOREM OvertakingIsBounded == Spec => OvertakingBounded
<1>1. Init => RoundsOK(cq)
  BY Weights DEF Init, EmptyCreditQueue, RoundsOK
<1>2. Inv /\ RoundsOK(cq) /\ [Next]_vars => RoundsOK(cq)'
  <2>1. Inv /\ RoundsOK(cq) /\ [Next]_vars => RoundsOK(cq')
    BY RoundsInv
  <2>2. QED
    BY <2>1 DEF RoundsOK
<1>3. Inv /\ RoundsOK(cq) /\ [Next]_vars =>
        [\A p \in Priority, e \in Endpoint : OvertakingOK(p, e)]_vars
  BY StepOvertaking
<1>4. [\A p \in Priority, e \in Endpoint : OvertakingOK(p, e)]_vars =>
        [\A p \in Priority, e \in Endpoint :
           /\ cq.queue[p][e] # <<>> /\ cq'.queue[p][e] # <<>>
           /\ Head(cq'.queue[p][e]) = Head(cq.queue[p][e])
           /\ cq'.in_flight_per_endpoint[e] < cq'.per_endpoint_limit[e]
           => /\ Bypass(cq', p, e) < FullTurn * NumEndpoints
              /\ IF \E r \in Req : stage[r] # "granted" /\ stage'[r] = "granted"
                 THEN Bypass(cq', p, e) < Bypass(cq, p, e)
                 ELSE Bypass(cq', p, e) = Bypass(cq, p, e)]_vars
  BY DEF OvertakingOK, SomeGrant
<1>5. QED
  BY Invariance, <1>1, <1>2, <1>3, <1>4, PTL DEF Spec, OvertakingBounded
=============================================================================
