---------------------------- MODULE RlpMeshProof ----------------------------
(***************************************************************************)
(* The parent sidecar of RlpMesh implements Sidecar: real leaf sidecars    *)
(* never make it do what the nondeterministic downstream services of       *)
(* Sidecar do not, so every theorem of SidecarProof holds in the mesh.     *)
(* Then the leaf sidecars: their queues and counters, the sub-requests of  *)
(* the parent and the messages between them agree (LeafInv), from which    *)
(* the conservation of credits follows.  Last, each leaf implements        *)
(* Sidecar, too.                                                           *)
(***************************************************************************)
EXTENDS RlpMesh, SidecarProof

LEMMA LeafStepStutters ==
  ASSUME NEW r \in Req, NEW d \in Downstream, LeafStep(r, d)
  PROVE  UNCHANGED vars
  BY DEF LeafStep, LeafRecvCreditRequest, LeafRecvCreditReturn, LeafRecvRequest,
         LeafResponse

LEMMA ParentStepImplements ==
  ASSUME ~aborted, NEW r \in Req, ParentStep(r)
  PROVE  Next
  BY DEF ParentStep, Next

\* A step of the mesh is a step of its parent sidecar or leaves it alone.
LEMMA MeshStepImplements ==
  ASSUME [MeshNext]_meshVars
  PROVE  [Next]_vars
<1>1. CASE UNCHANGED meshVars
  BY <1>1 DEF meshVars
<1>2. CASE MeshNext
  <2>1. ~aborted
    BY <1>2 DEF MeshNext
  <2>2. PICK r \in Req :
          \/ MeshClientCreditRequest(r)
          \/ ParentStep(r)
          \/ \E d \in Downstream : \/ MeshSubRequest(r, d)
                                   \/ MeshRecvCreditGrant(r, d)
                                   \/ MeshRecvResponse(r, d)
                                   \/ LeafStep(r, d)
    BY <1>2 DEF MeshNext
  <2>3. CASE MeshClientCreditRequest(r)
    BY <2>1, <2>3 DEF MeshClientCreditRequest, Next
  <2>4. CASE ParentStep(r)
    BY <2>1, <2>4, ParentStepImplements
  <2>5. ASSUME NEW d \in Downstream,
               \/ MeshSubRequest(r, d)
               \/ MeshRecvCreditGrant(r, d)
               \/ MeshRecvResponse(r, d)
        PROVE  Next
    BY <2>1, <2>5 DEF MeshSubRequest, MeshRecvCreditGrant, MeshRecvResponse, Next
  <2>6. ASSUME NEW d \in Downstream, LeafStep(r, d)
        PROVE  UNCHANGED vars
    BY <2>6, LeafStepStutters
  <2>7. QED
    BY <2>2, <2>3, <2>4, <2>5, <2>6
<1>3. QED
  BY <1>1, <1>2

\* The mesh implements the specification of one sidecar, whose downstream
\* services grant and answer at any time: protocol_client and protocol_server
\* of different sidecars interact only through the messages Sidecar allows.
THEOREM MeshImplementsSidecar == MeshSpec => Spec
<1>1. MeshInit => Init
  BY DEF MeshInit
<1>2. [MeshNext]_meshVars => [Next]_vars
  BY MeshStepImplements
<1>3. QED
  BY <1>1, <1>2, PTL DEF MeshSpec, Spec

\* In the mesh, too, no interleaving of the messages of several sidecars
\* reaches LOG(FATAL) in the parent sidecar, if priorities are in range.
THEOREM MeshNeverAborts ==
  ASSUME PrioritiesInRange
  PROVE  MeshSpec => []NoAbort
  BY MeshImplementsSidecar, NeverAborts, PTL
-----------------------------------------------------------------------------
(* The leaf sidecars *)

Holding == {"granted", "request", "return", "local"}

\* The queue of a leaf holds requests that wait at it, each once.
LeafQueued(q, st) ==
  /\ \A p \in Priority, e \in Endpoint : \A i \in DOMAIN q[p][e] :
       st[q[p][e][i]] = "queued"
  /\ \A p, p2 \in Priority, e, e2 \in Endpoint :
       \A i \in DOMAIN q[p][e], j \in DOMAIN q[p2][e2] :
         q[p][e][i] = q[p2][e2][j] => p = p2 /\ e = e2 /\ i = j

\* Queue c and the stages st of one leaf: its credits are counted.
LeafOK(c, st) ==
  /\ c \in CreditQueueType
  /\ c.remaining_rounds >= 1
  /\ st \in [Req -> LeafStage]
  /\ LeafQueued(c.queue, st)
  /\ c.in_flight = Cardinality({x \in Req : st[x] \in Holding})

\* Which stages at the leaf go with a stage of the sub-request at the parent.
Matches(c, l) ==
  \/ c = "none" /\ l \in {"none", "return"}
  \/ c = "asked" /\ l \in {"asked", "queued", "granted"}
  \/ c = "granted" /\ l = "granted"
  \/ c = "sent" /\ l \in {"request", "local", "answered"}
  \/ c = "answered" /\ l = "none"
  \/ c = "returned" /\ l \in {"return", "none"}

\* A request that was asked for has no message left of the one before it.
FreshCalls ==
  \A r \in Req, d \in Downstream :
    stage[r] # "none" /\ call[r][d] = "none" => leaf_stage[d][r] = "none"

LeafInv ==
  /\ leaf_cq \in [Downstream -> CreditQueueType]
  /\ leaf_stage \in [Downstream -> [Req -> LeafStage]]
  /\ \A d \in Downstream : LeafOK(leaf_cq[d], leaf_stage[d])
  /\ \A r \in Req, d \in Downstream : Matches(call[r][d], leaf_stage[d][r])
  /\ FreshCalls

LEMMA HolderAdded ==
  ASSUME NEW S \in SUBSET Req, NEW r \in Req
  PROVE  /\ Cardinality(S) \in Nat
         /\ r \notin S => Cardinality(S \cup {r}) = Cardinality(S) + 1
         /\ r \in S => Cardinality(S \ {r}) = Cardinality(S) - 1
<1>1. IsFiniteSet(S)
  BY ConfigAssumption, FS_Subset
<1>2. QED
  BY <1>1, FS_CardinalityType, FS_AddElement, FS_RemoveElement

\* A stage that changes without a credit changing hands.
LEMMA LeafMove ==
  ASSUME NEW c, NEW st, LeafOK(c, st), NEW r \in Req, NEW s \in LeafStage,
         st[r] # "queued", s # "queued", st[r] \in Holding <=> s \in Holding
  PROVE  LeafOK(c, [st EXCEPT ![r] = s])
<1> DEFINE st2 == [st EXCEPT ![r] = s]
<1>1. st \in [Req -> LeafStage] /\ c \in CreditQueueType
  BY DEF LeafOK
<1>2. /\ st2 \in [Req -> LeafStage] /\ st2[r] = s
      /\ \A x \in Req : x # r => st2[x] = st[x]
  BY <1>1
<1> HIDE DEF st2
<1>3. {x \in Req : st2[x] \in Holding} = {x \in Req : st[x] \in Holding}
  BY <1>2
<1>4. \A p \in Priority, e \in Endpoint : \A i \in DOMAIN c.queue[p][e] :
        c.queue[p][e][i] \in Req
  BY <1>1 DEF CreditQueueType
<1>5. LeafQueued(c.queue, st2)
  BY <1>2, <1>4 DEF LeafOK, LeafQueued
<1>6. LeafOK(c, st2)
  BY <1>2, <1>3, <1>5 DEF LeafOK
<1>7. QED
  BY <1>6 DEF st2

\* A credit comes back: DecrementInFlight.
LEMMA LeafRelease ==
  ASSUME NEW c, NEW st, LeafOK(c, st), NEW r \in Req, st[r] \in Holding,
         NEW s \in {"none", "answered"}
  PROVE  LeafOK(DecrementInFlight(c, LeafEndpoint), [st EXCEPT ![r] = s])
<1> DEFINE st2 == [st EXCEPT ![r] = s]
           n == DecrementInFlight(c, LeafEndpoint)
           H == {x \in Req : st[x] \in Holding}
<1>1. st \in [Req -> LeafStage] /\ c \in CreditQueueType
  BY DEF LeafOK
<1>2. LeafEndpoint \in Endpoint
  BY EndpointsAssumption DEF LeafEndpoint, Endpoint
<1>3. /\ n \in CreditQueueType /\ n.queue = c.queue
      /\ n.remaining_rounds = c.remaining_rounds
      /\ n.in_flight = c.in_flight - 1 /\ n.global_limit = c.global_limit
  BY <1>1, <1>2, DecrementFacts
<1>4. /\ st2 \in [Req -> LeafStage] /\ st2[r] = s
      /\ \A x \in Req : x # r => st2[x] = st[x]
  BY <1>1 DEF LeafStage
<1>5. c.in_flight \in Int
  BY <1>1 DEF CreditQueueType
<1> HIDE DEF st2, n
<1>6. {x \in Req : st2[x] \in Holding} = H \ {r}
  BY <1>4 DEF Holding
<1>7. Cardinality(H \ {r}) = c.in_flight - 1
  <2>1. r \in H /\ H \in SUBSET Req
    OBVIOUS
  <2>2. c.in_flight = Cardinality(H)
    BY DEF LeafOK
  <2> HIDE DEF H
  <2>3. QED
    BY <2>1, <2>2, HolderAdded
<1>8. \A p \in Priority, e \in Endpoint : \A i \in DOMAIN c.queue[p][e] :
        c.queue[p][e][i] \in Req
  BY <1>1 DEF CreditQueueType
<1>9. LeafQueued(n.queue, st2)
  <2>1. LeafQueued(c.queue, st2)
    BY <1>4, <1>8 DEF LeafOK, LeafQueued, Holding
  <2>2. QED
    BY <1>3, <2>1
<1>10. n.remaining_rounds >= 1
  BY <1>3 DEF LeafOK
<1>11. n.in_flight = Cardinality({x \in Req : st2[x] \in Holding})
  BY <1>3, <1>6, <1>7
<1>12. LeafOK(n, st2)
  BY <1>3, <1>4, <1>9, <1>10, <1>11 DEF LeafOK
<1>13. QED
  BY <1>12 DEF n, st2

\* A Credit Request enters the queue.
LEMMA LeafPush ==
  ASSUME NEW c, NEW st, LeafOK(c, st), NEW r \in Req, st[r] = "asked",
         NEW P \in Priority
  PROVE  LeafOK(Push(c, r, LeafEndpoint, P), [st EXCEPT ![r] = "queued"])
<1> DEFINE st2 == [st EXCEPT ![r] = "queued"]
           n == Push(c, r, LeafEndpoint, P)
           E == LeafEndpoint
           q == c.queue
<1>1. st \in [Req -> LeafStage] /\ c \in CreditQueueType
  BY DEF LeafOK
<1>2. E \in Endpoint
  BY EndpointsAssumption DEF LeafEndpoint, Endpoint
<1>3. /\ n \in CreditQueueType /\ n.queue = [q EXCEPT ![P][E] = Append(@, r)]
      /\ n.remaining_rounds = c.remaining_rounds
      /\ n.in_flight = c.in_flight /\ n.global_limit = c.global_limit
  BY <1>1, <1>2, PushFacts
<1>4. /\ st2 \in [Req -> LeafStage] /\ st2[r] = "queued"
      /\ \A x \in Req : x # r => st2[x] = st[x]
  BY <1>1 DEF LeafStage
<1>5. q \in QueueType
  BY <1>1 DEF CreditQueueType, QueueType
<1> HIDE DEF st2, n
<1>6. {x \in Req : st2[x] \in Holding} = {x \in Req : st[x] \in Holding}
  BY <1>4 DEF Holding
<1>7. /\ \A p \in Priority, e \in Endpoint : \A i \in DOMAIN q[p][e] :
           q[p][e][i] \in Req /\ st[q[p][e][i]] = "queued" /\ q[p][e][i] # r
      /\ \A p, p2 \in Priority, e, e2 \in Endpoint :
           \A i \in DOMAIN q[p][e], j \in DOMAIN q[p2][e2] :
             q[p][e][i] = q[p2][e2][j] => p = p2 /\ e = e2 /\ i = j
  <2>1. \A p \in Priority, e \in Endpoint : \A i \in DOMAIN q[p][e] : q[p][e][i] \in Req
    BY <1>5 DEF QueueType
  <2>2. QED
    BY <2>1 DEF LeafOK, LeafQueued
<1>8. /\ n.queue[P][E] = Append(q[P][E], r)
      /\ \A p \in Priority, e \in Endpoint :
           ~(p = P /\ e = E) => n.queue[p][e] = q[p][e]
  BY <1>2, <1>3, <1>5 DEF QueueType
<1>9. /\ Len(q[P][E]) \in Nat /\ DOMAIN q[P][E] = 1 .. Len(q[P][E])
      /\ DOMAIN n.queue[P][E] = 1 .. Len(q[P][E]) + 1
      /\ n.queue[P][E][Len(q[P][E]) + 1] = r
      /\ \A i \in 1 .. Len(q[P][E]) : n.queue[P][E][i] = q[P][E][i]
  <2> DEFINE s == q[P][E]
  <2>1. s \in Seq(Req)
    BY <1>2, <1>5 DEF QueueType
  <2> HIDE DEF s
  <2>2. /\ Len(s) \in Nat /\ DOMAIN s = 1 .. Len(s)
        /\ DOMAIN Append(s, r) = 1 .. Len(s) + 1
        /\ Append(s, r)[Len(s) + 1] = r
        /\ \A i \in 1 .. Len(s) : Append(s, r)[i] = s[i]
    BY <2>1
  <2>3. QED
    BY <1>8, <2>2 DEF s
\* Every place of the new queue is one of the old queue, or the new last one.
<1>10. \A p \in Priority, e \in Endpoint : \A i \in DOMAIN n.queue[p][e] :
         \/ i \in DOMAIN q[p][e] /\ n.queue[p][e][i] = q[p][e][i]
         \/ p = P /\ e = E /\ i = Len(q[P][E]) + 1 /\ n.queue[p][e][i] = r
  <2>1. TAKE p \in Priority, e \in Endpoint
  <2>2. TAKE i \in DOMAIN n.queue[p][e]
  <2>3. CASE p = P /\ e = E
    <3>1. i \in 1 .. Len(q[P][E]) + 1
      BY <1>9, <2>3
    <3>2. CASE i = Len(q[P][E]) + 1
      BY <1>9, <2>3, <3>2
    <3>3. CASE i # Len(q[P][E]) + 1
      <4>1. i \in 1 .. Len(q[P][E])
        BY <1>9, <3>1, <3>3
      <4>2. QED
        BY <1>9, <2>3, <4>1
    <3>4. QED
      BY <3>2, <3>3
  <2>4. CASE ~(p = P /\ e = E)
    BY <1>8, <2>4
  <2>5. QED
    BY <2>3, <2>4
<1>11. LeafQueued(n.queue, st2)
  <2>1. \A p \in Priority, e \in Endpoint : \A i \in DOMAIN n.queue[p][e] :
          st2[n.queue[p][e][i]] = "queued"
    BY <1>4, <1>7, <1>10
  <2>2. ASSUME NEW p \in Priority, NEW p2 \in Priority,
               NEW e \in Endpoint, NEW e2 \in Endpoint,
               NEW i \in DOMAIN n.queue[p][e], NEW j \in DOMAIN n.queue[p2][e2],
               n.queue[p][e][i] = n.queue[p2][e2][j]
        PROVE  p = p2 /\ e = e2 /\ i = j
    <3>1. \/ i \in DOMAIN q[p][e] /\ n.queue[p][e][i] = q[p][e][i]
          \/ p = P /\ e = E /\ i = Len(q[P][E]) + 1 /\ n.queue[p][e][i] = r
      BY <1>10
    <3>2. \/ j \in DOMAIN q[p2][e2] /\ n.queue[p2][e2][j] = q[p2][e2][j]
          \/ p2 = P /\ e2 = E /\ j = Len(q[P][E]) + 1 /\ n.queue[p2][e2][j] = r
      BY <1>10
    <3>3. QED
      BY <1>7, <2>2, <3>1, <3>2
  <2>3. QED
    BY <2>1, <2>2 DEF LeafQueued
<1>12. LeafOK(n, st2)
  BY <1>3, <1>4, <1>6, <1>11 DEF LeafOK
<1>13. QED
  BY <1>12 DEF n, st2
\* update_limits of a leaf: one limit for its endpoint and for all of it.
LEMMA LeafLimitsFacts ==
  ASSUME NEW c \in CreditQueueType, NEW n \in LeafLimitsMaybeUpdated(c)
  PROVE  /\ n \in CreditQueueType
         /\ n.queue = c.queue
         /\ n.remaining_rounds = c.remaining_rounds
         /\ n.in_flight = c.in_flight
         /\ n.in_flight_per_endpoint = c.in_flight_per_endpoint
         /\ \/ n = c
            \/ \E l \in LeafLimits :
                 /\ l \in Int /\ l >= LeafLimit
                 /\ n = LeafUpdateLimits(c, l)
                 /\ n.global_limit = l
                 /\ n.per_endpoint_limit = [c.per_endpoint_limit EXCEPT ![LeafEndpoint] = l]
<1>1. CASE n = c
  BY <1>1
<1>2. ASSUME NEW l \in LeafLimits, n = LeafUpdateLimits(c, l)
      PROVE  /\ n \in CreditQueueType
             /\ n.queue = c.queue
             /\ n.remaining_rounds = c.remaining_rounds
             /\ n.in_flight = c.in_flight
             /\ n.in_flight_per_endpoint = c.in_flight_per_endpoint
             /\ l \in Int /\ l >= LeafLimit
             /\ n.global_limit = l
             /\ n.per_endpoint_limit = [c.per_endpoint_limit EXCEPT ![LeafEndpoint] = l]
  <2>1. l \in Int /\ l >= LeafLimit
    BY LeafLimitAssumption DEF LeafLimits
  <2>2. LeafEndpoint \in Endpoint
    BY EndpointsAssumption DEF LeafEndpoint, Endpoint
  <2> DEFINE u == UpdateEndpointLimit(c, l, LeafEndpoint)
  <2>3. /\ u \in CreditQueueType
        /\ u.queue = c.queue
        /\ u.remaining_rounds = c.remaining_rounds
        /\ u.in_flight = c.in_flight
        /\ u.in_flight_per_endpoint = c.in_flight_per_endpoint
        /\ u.per_endpoint_limit = [c.per_endpoint_limit EXCEPT ![LeafEndpoint] = l]
    BY <2>1, <2>2, LimitFacts
  <2>4. n = UpdateGlobalLimit(u, l)
    BY <1>2 DEF LeafUpdateLimits
  <2> HIDE DEF u
  <2>5. /\ n \in CreditQueueType
        /\ n.queue = u.queue
        /\ n.remaining_rounds = u.remaining_rounds
        /\ n.in_flight = u.in_flight
        /\ n.in_flight_per_endpoint = u.in_flight_per_endpoint
        /\ n.per_endpoint_limit = u.per_endpoint_limit
        /\ n.global_limit = l
    BY <2>1, <2>2, <2>3, <2>4, LimitFacts
  <2>6. QED
    BY <2>1, <2>3, <2>5
<1>3. QED
  BY <1>1, <1>2 DEF LeafLimitsMaybeUpdated

LEMMA LeafLimitsOK ==
  ASSUME NEW c, NEW st, LeafOK(c, st), NEW n \in LeafLimitsMaybeUpdated(c)
  PROVE  LeafOK(n, st)
<1>1. c \in CreditQueueType
  BY DEF LeafOK
<1>2. /\ n \in CreditQueueType /\ n.queue = c.queue
      /\ n.remaining_rounds = c.remaining_rounds /\ n.in_flight = c.in_flight
  BY <1>1, LeafLimitsFacts
<1>3. QED
  BY <1>2 DEF LeafOK

\* pop() of a leaf: the request it grants, if any, was queued and takes a credit.
LEMMA LeafPop ==
  ASSUME NEW c, NEW st, LeafOK(c, st), NEW n, n = Pop(c).cq,
         NEW g, g = Pop(c).grant
  PROVE  /\ LeafOK(n, IF g = NoReq THEN st ELSE [st EXCEPT ![g] = "granted"])
         /\ g # NoReq => g \in Req /\ st[g] = "queued"
<1>1. /\ st \in [Req -> LeafStage] /\ c \in CreditQueueType
      /\ c.remaining_rounds >= 1
  BY DEF LeafOK
<1>2. /\ n \in CreditQueueType
      /\ n.remaining_rounds >= 1
      /\ \/ /\ g = NoReq
            /\ n.queue = c.queue
            /\ n.in_flight = c.in_flight
         \/ \E p \in Priority, e \in Endpoint :
              /\ Eligible(c, p, e)
              /\ g = Head(c.queue[p][e])
              /\ g \in Req
              /\ n.queue = [c.queue EXCEPT ![p][e] = Tail(@)]
              /\ n.in_flight = c.in_flight + 1
  BY <1>1, PopFacts
<1>3. CASE g = NoReq /\ n.queue = c.queue /\ n.in_flight = c.in_flight
  BY <1>2, <1>3 DEF LeafOK
<1>4. ASSUME NEW P \in Priority, NEW E \in Endpoint, Eligible(c, P, E),
             g = Head(c.queue[P][E]), g \in Req,
             n.queue = [c.queue EXCEPT ![P][E] = Tail(@)],
             n.in_flight = c.in_flight + 1
      PROVE  LeafOK(n, [st EXCEPT ![g] = "granted"]) /\ st[g] = "queued"
  <2> DEFINE q == c.queue
             st2 == [st EXCEPT ![g] = "granted"]
             H == {x \in Req : st[x] \in Holding}
  <2>1. /\ q \in QueueType /\ c.in_flight \in Int
        /\ q[P][E] \in Seq(Req) /\ q[P][E] # <<>>
    BY <1>1, <1>4 DEF CreditQueueType, QueueType, Eligible
  <2>2. /\ Len(q[P][E]) \in Nat /\ DOMAIN q[P][E] = 1 .. Len(q[P][E])
        /\ 1 \in DOMAIN q[P][E] /\ g = q[P][E][1]
        /\ DOMAIN Tail(q[P][E]) = 1 .. Len(q[P][E]) - 1
        /\ \A i \in 1 .. Len(q[P][E]) - 1 : Tail(q[P][E])[i] = q[P][E][i + 1]
    <3> DEFINE s == q[P][E]
    <3>1. s \in Seq(Req) /\ s # <<>> /\ g = Head(s)
      BY <1>4, <2>1
    <3> HIDE DEF s
    <3>2. /\ Len(s) \in Nat /\ DOMAIN s = 1 .. Len(s)
          /\ 1 \in DOMAIN s /\ Head(s) = s[1]
          /\ DOMAIN Tail(s) = 1 .. Len(s) - 1
          /\ \A i \in 1 .. Len(s) - 1 : Tail(s)[i] = s[i + 1]
      BY <3>1, TailFacts
    <3>3. QED
      BY <3>1, <3>2 DEF s
  <2>3. /\ n.queue[P][E] = Tail(q[P][E])
        /\ \A p \in Priority, e \in Endpoint :
             ~(p = P /\ e = E) => n.queue[p][e] = q[p][e]
    BY <1>4, <2>1 DEF QueueType
  <2>4. /\ \A p \in Priority, e \in Endpoint : \A i \in DOMAIN q[p][e] :
             q[p][e][i] \in Req /\ st[q[p][e][i]] = "queued"
        /\ \A p, p2 \in Priority, e, e2 \in Endpoint :
             \A i \in DOMAIN q[p][e], j \in DOMAIN q[p2][e2] :
               q[p][e][i] = q[p2][e2][j] => p = p2 /\ e = e2 /\ i = j
    <3>1. \A p \in Priority, e \in Endpoint : \A i \in DOMAIN q[p][e] :
            q[p][e][i] \in Req
      BY <2>1 DEF QueueType
    <3>2. QED
      BY <3>1 DEF LeafOK, LeafQueued
  <2>5. st[g] = "queued"
    BY <2>2, <2>4
  <2>6. /\ st2 \in [Req -> LeafStage] /\ st2[g] = "granted"
        /\ \A x \in Req : x # g => st2[x] = st[x]
    BY <1>1, <1>4 DEF LeafStage
  <2> HIDE DEF st2
  \* Every place of the new queue is a place of the old one, not the head.
  <2>7. ASSUME NEW p \in Priority, NEW e \in Endpoint, NEW i \in DOMAIN n.queue[p][e]
        PROVE  LET k == IF p = P /\ e = E THEN i + 1 ELSE i
               IN  /\ k \in DOMAIN q[p][e] /\ n.queue[p][e][i] = q[p][e][k]
                   /\ n.queue[p][e][i] # g
                   /\ p = P /\ e = E => i \in Int
    <3>1. CASE p = P /\ e = E
      <4>1. i \in 1 .. Len(q[P][E]) - 1
        BY <2>2, <2>3, <3>1
      <4>2. i + 1 \in 1 .. Len(q[P][E]) /\ i + 1 # 1 /\ i \in Int
        BY <2>2, <4>1
      <4>3. n.queue[P][E][i] = q[P][E][i + 1]
        BY <2>2, <2>3, <4>1
      <4>4. q[P][E][i + 1] # g
        BY <2>2, <2>4, <4>2
      <4>5. QED
        BY <2>2, <3>1, <4>2, <4>3, <4>4
    <3>2. CASE ~(p = P /\ e = E)
      <4>1. i \in DOMAIN q[p][e] /\ n.queue[p][e][i] = q[p][e][i]
        BY <2>3, <3>2
      <4>2. q[p][e][i] # g
        BY <2>2, <2>4, <3>2, <4>1
      <4>3. QED
        BY <3>2, <4>1, <4>2
    <3>3. QED
      BY <3>1, <3>2
  <2>8. LeafQueued(n.queue, st2)
    <3>1. \A p \in Priority, e \in Endpoint : \A i \in DOMAIN n.queue[p][e] :
            st2[n.queue[p][e][i]] = "queued"
      BY <2>4, <2>6, <2>7
    <3>2. ASSUME NEW p \in Priority, NEW p2 \in Priority,
                 NEW e \in Endpoint, NEW e2 \in Endpoint,
                 NEW i \in DOMAIN n.queue[p][e], NEW j \in DOMAIN n.queue[p2][e2],
                 n.queue[p][e][i] = n.queue[p2][e2][j]
          PROVE  p = p2 /\ e = e2 /\ i = j
      <4> DEFINE k == IF p = P /\ e = E THEN i + 1 ELSE i
                 k2 == IF p2 = P /\ e2 = E THEN j + 1 ELSE j
      <4>1. /\ k \in DOMAIN q[p][e] /\ n.queue[p][e][i] = q[p][e][k]
            /\ p = P /\ e = E => i \in Int
        BY <2>7
      <4>2. /\ k2 \in DOMAIN q[p2][e2] /\ n.queue[p2][e2][j] = q[p2][e2][k2]
            /\ p2 = P /\ e2 = E => j \in Int
        BY <2>7
      <4>3. p = p2 /\ e = e2 /\ k = k2
        <5>1. q[p][e][k] = q[p2][e2][k2]
          BY <3>2, <4>1, <4>2
        <5>2. \A a \in DOMAIN q[p][e], b \in DOMAIN q[p2][e2] :
                q[p][e][a] = q[p2][e2][b] => p = p2 /\ e = e2 /\ a = b
          BY <2>4
        <5> HIDE DEF k, k2, q
        <5>3. QED
          BY <4>1, <4>2, <5>1, <5>2
      <4>4. QED
        BY <4>1, <4>2, <4>3
    <3>3. QED
      BY <3>1, <3>2 DEF LeafQueued
  <2>9. n.in_flight = Cardinality({x \in Req : st2[x] \in Holding})
    <3>1. {x \in Req : st2[x] \in Holding} = H \cup {g}
      BY <1>4, <2>6 DEF Holding
    <3>2. g \notin H /\ H \in SUBSET Req
      BY <2>5 DEF Holding
    <3>3. c.in_flight = Cardinality(H)
      BY DEF LeafOK
    <3> HIDE DEF H
    <3>4. Cardinality(H \cup {g}) = Cardinality(H) + 1
      BY <1>4, <3>2, HolderAdded
    <3>5. QED
      BY <1>4, <3>1, <3>3, <3>4
  <2>10. LeafOK(n, st2)
    BY <1>2, <2>6, <2>8, <2>9 DEF LeafOK
  <2>11. QED
    BY <2>5, <2>10 DEF st2
<1>5. QED
  <2>1. CASE g = NoReq /\ n.queue = c.queue /\ n.in_flight = c.in_flight
    BY <1>3, <2>1
  <2>2. CASE ~(g = NoReq /\ n.queue = c.queue /\ n.in_flight = c.in_flight)
    <3>1. PICK p \in Priority, e \in Endpoint :
              /\ Eligible(c, p, e)
              /\ g = Head(c.queue[p][e])
              /\ g \in Req
              /\ n.queue = [c.queue EXCEPT ![p][e] = Tail(@)]
              /\ n.in_flight = c.in_flight + 1
      BY <1>2, <2>2
    <3>2. LeafOK(n, [st EXCEPT ![g] = "granted"]) /\ st[g] = "queued"
      BY <1>4, <3>1
    <3>3. g # NoReq
      BY <3>1, NoReqAssumption
    <3>4. QED
      BY <3>1, <3>2, <3>3
  <2>3. QED
    BY <2>1, <2>2

-----------------------------------------------------------------------------
(* Steps of a leaf *)

\* check_credit_transmission of leaf d, after its queue and stages changed to c
\* and st by the message of r.
LEMMA LeafStepInv ==
  ASSUME LeafInv, NEW r \in Req, NEW d \in Downstream, NEW c, NEW st,
         LeafOK(c, st), LeafCheckCreditTransmission(d, c, st), UNCHANGED vars,
         \A x \in Req : Matches(call[x][d], st[x]),
         \A x \in Req : stage[x] # "none" /\ call[x][d] = "none" => st[x] = "none"
  PROVE  LeafInv'
<1> DEFINE n == Pop(c).cq
           g == Pop(c).grant
           st2 == IF g = NoReq THEN st ELSE [st EXCEPT ![g] = "granted"]
<1>1. /\ leaf_cq' = [leaf_cq EXCEPT ![d] = n]
      /\ leaf_stage' = [leaf_stage EXCEPT ![d] = st2]
  BY DEF LeafCheckCreditTransmission
<1>2. LeafOK(n, st2) /\ (g # NoReq => g \in Req /\ st[g] = "queued")
  BY LeafPop
<1>3. st \in [Req -> LeafStage]
  BY DEF LeafOK
<1>4. /\ \A x \in Req : st2[x] = st[x] \/ (st[x] = "queued" /\ st2[x] = "granted")
      /\ n \in CreditQueueType /\ st2 \in [Req -> LeafStage]
  <2>1. \A x \in Req : st2[x] = st[x] \/ (st[x] = "queued" /\ st2[x] = "granted")
    <3> HIDE DEF g
    <3>1. CASE g = NoReq
      BY <3>1
    <3>2. CASE g # NoReq
      BY <1>2, <1>3, <3>2
    <3>3. QED
      BY <3>1, <3>2
  <2>2. QED
    BY <1>2, <2>1 DEF LeafOK
<1> HIDE DEF n, g, st2
<1>5. /\ leaf_cq' \in [Downstream -> CreditQueueType]
      /\ leaf_stage' \in [Downstream -> [Req -> LeafStage]]
      /\ leaf_cq'[d] = n /\ leaf_stage'[d] = st2
      /\ \A f \in Downstream \ {d} :
           leaf_cq'[f] = leaf_cq[f] /\ leaf_stage'[f] = leaf_stage[f]
  BY <1>1, <1>4 DEF LeafInv
<1>6. \A f \in Downstream : LeafOK(leaf_cq'[f], leaf_stage'[f])
  BY <1>2, <1>5 DEF LeafInv
<1>7. call' = call /\ stage' = stage
  BY DEF vars
<1>8. \A x \in Req, f \in Downstream : Matches(call[x][f], leaf_stage'[f][x])
  <2>1. \A x \in Req : Matches(call[x][d], st2[x])
    BY <1>4 DEF Matches
  <2>2. QED
    BY <1>5, <2>1 DEF LeafInv
<1>9. \A x \in Req, f \in Downstream :
        stage[x] # "none" /\ call[x][f] = "none" => leaf_stage'[f][x] = "none"
  <2>1. \A x \in Req : stage[x] # "none" /\ call[x][d] = "none" => st2[x] = "none"
    BY <1>4
  <2>2. QED
    BY <1>5, <2>1 DEF LeafInv, FreshCalls
<1>10. QED
  BY <1>5, <1>6, <1>7, <1>8, <1>9 DEF LeafInv, FreshCalls

LEMMA LeafRecvCreditRequestInv ==
  ASSUME PrioritiesInRange, LeafInv, NEW r \in Req, NEW d \in Downstream,
         LeafRecvCreditRequest(r, d)
  PROVE  LeafInv'
<1>1. PICK c \in CreditQueueType : c = leaf_cq[d]
  BY DEF LeafInv
<1>2. PICK st \in [Req -> LeafStage] : st = leaf_stage[d]
  BY DEF LeafInv
<1>3. LeafOK(c, st) /\ st[r] = "asked" /\ PriorityOf[r] \in Priority
  BY <1>1, <1>2 DEF LeafInv, LeafRecvCreditRequest, PrioritiesInRange
<1>4. PICK n \in LeafLimitsMaybeUpdated(c) :
        LeafCheckCreditTransmission(d, Push(n, r, LeafEndpoint, PriorityOf[r]),
                                    [st EXCEPT ![r] = "queued"])
  BY <1>1, <1>2 DEF LeafRecvCreditRequest
<1>5. LeafOK(Push(n, r, LeafEndpoint, PriorityOf[r]), [st EXCEPT ![r] = "queued"])
  BY <1>3, LeafLimitsOK, LeafPush
<1>6. /\ \A x \in Req : Matches(call[x][d], st[x])
      /\ \A x \in Req : stage[x] # "none" /\ call[x][d] = "none" => st[x] = "none"
  BY <1>2 DEF LeafInv, FreshCalls
<1> DEFINE st1 == [st EXCEPT ![r] = "queued"]
<1>7. /\ \A x \in Req : Matches(call[x][d], st1[x])
      /\ \A x \in Req : stage[x] # "none" /\ call[x][d] = "none" => st1[x] = "none"
  BY <1>3, <1>6 DEF Matches
<1>8. UNCHANGED vars
  BY DEF LeafRecvCreditRequest
<1> HIDE DEF st1
<1>9. LeafOK(Push(n, r, LeafEndpoint, PriorityOf[r]), st1)
      /\ LeafCheckCreditTransmission(d, Push(n, r, LeafEndpoint, PriorityOf[r]), st1)
  BY <1>4, <1>5 DEF st1
<1>10. QED
  BY <1>7, <1>8, <1>9, LeafStepInv

LEMMA LeafReleaseStepInv ==
  ASSUME LeafInv, NEW r \in Req, NEW d \in Downstream, NEW s \in {"none", "answered"},
         leaf_stage[d][r] = (IF s = "none" THEN "return" ELSE "local"),
         LeafCheckCreditTransmission(d, DecrementInFlight(leaf_cq[d], LeafEndpoint),
                                     [leaf_stage[d] EXCEPT ![r] = s]),
         UNCHANGED vars
  PROVE  LeafInv'
<1>1. PICK c \in CreditQueueType : c = leaf_cq[d]
  BY DEF LeafInv
<1>2. PICK st \in [Req -> LeafStage] : st = leaf_stage[d]
  BY DEF LeafInv
<1>3. LeafOK(c, st) /\ st[r] = (IF s = "none" THEN "return" ELSE "local")
  BY <1>1, <1>2 DEF LeafInv
<1> DEFINE st1 == [st EXCEPT ![r] = s]
           c1 == DecrementInFlight(c, LeafEndpoint)
<1>4. LeafOK(c1, st1)
  BY <1>3, LeafRelease DEF Holding
<1>5. LeafCheckCreditTransmission(d, c1, st1)
  BY <1>1, <1>2
<1>6. /\ \A x \in Req : Matches(call[x][d], st[x])
      /\ \A x \in Req : stage[x] # "none" /\ call[x][d] = "none" => st[x] = "none"
  BY <1>2 DEF LeafInv, FreshCalls
<1>7. /\ \A x \in Req : Matches(call[x][d], st1[x])
      /\ \A x \in Req : stage[x] # "none" /\ call[x][d] = "none" => st1[x] = "none"
  BY <1>3, <1>6 DEF Matches
<1> HIDE DEF st1, c1
<1>8. QED
  BY <1>4, <1>5, <1>7, LeafStepInv

LEMMA LeafRecvRequestInv ==
  ASSUME LeafInv, NEW r \in Req, NEW d \in Downstream, LeafRecvRequest(r, d)
  PROVE  LeafInv'
<1>1. /\ leaf_stage[d][r] = "request"
      /\ leaf_stage' = [leaf_stage EXCEPT ![d] = [@ EXCEPT ![r] = "local"]]
      /\ leaf_cq' = leaf_cq /\ call' = call /\ stage' = stage
  BY DEF LeafRecvRequest, vars
<1>2. PICK st \in [Req -> LeafStage] : st = leaf_stage[d]
  BY DEF LeafInv
<1>3. PICK c \in CreditQueueType : c = leaf_cq[d]
  BY DEF LeafInv
<1> DEFINE st1 == [st EXCEPT ![r] = "local"]
<1>4. LeafOK(c, st1)
  BY <1>1, <1>2, <1>3, LeafMove DEF LeafInv, LeafStage, Holding
<1>5. /\ leaf_stage' \in [Downstream -> [Req -> LeafStage]]
      /\ leaf_stage'[d] = st1
      /\ \A f \in Downstream \ {d} : leaf_stage'[f] = leaf_stage[f]
  BY <1>1, <1>2 DEF LeafInv, LeafStage
<1>6. \A f \in Downstream : LeafOK(leaf_cq'[f], leaf_stage'[f])
  BY <1>1, <1>3, <1>4, <1>5 DEF LeafInv
<1>7. \A x \in Req, f \in Downstream : Matches(call[x][f], leaf_stage'[f][x])
  BY <1>1, <1>2, <1>5 DEF LeafInv, Matches
<1>8. \A x \in Req, f \in Downstream :
        stage[x] # "none" /\ call[x][f] = "none" => leaf_stage'[f][x] = "none"
  BY <1>1, <1>2, <1>5 DEF LeafInv, FreshCalls
<1>9. QED
  BY <1>1, <1>5, <1>6, <1>7, <1>8 DEF LeafInv, FreshCalls

LEMMA LeafStepsInv ==
  ASSUME PrioritiesInRange, LeafInv, NEW r \in Req, NEW d \in Downstream,
         LeafStep(r, d)
  PROVE  LeafInv'
<1>1. CASE LeafRecvCreditRequest(r, d)
  BY <1>1, LeafRecvCreditRequestInv
<1>2. CASE LeafRecvCreditReturn(r, d)
  <2>1. PICK s \in {"none", "answered"} : s = "none"
    OBVIOUS
  <2>2. /\ leaf_stage[d][r] = (IF s = "none" THEN "return" ELSE "local")
        /\ LeafCheckCreditTransmission(d, DecrementInFlight(leaf_cq[d], LeafEndpoint),
                                       [leaf_stage[d] EXCEPT ![r] = s])
        /\ UNCHANGED vars
    BY <1>2, <2>1 DEF LeafRecvCreditReturn
  <2>3. QED
    BY <2>2, LeafReleaseStepInv
<1>3. CASE LeafRecvRequest(r, d)
  BY <1>3, LeafRecvRequestInv
<1>4. CASE LeafResponse(r, d)
  <2>1. PICK s \in {"none", "answered"} : s = "answered"
    OBVIOUS
  <2>2. /\ leaf_stage[d][r] = (IF s = "none" THEN "return" ELSE "local")
        /\ LeafCheckCreditTransmission(d, DecrementInFlight(leaf_cq[d], LeafEndpoint),
                                       [leaf_stage[d] EXCEPT ![r] = s])
        /\ UNCHANGED vars
    BY <1>4, <2>1 DEF LeafResponse
  <2>3. QED
    BY <2>2, LeafReleaseStepInv
<1>5. QED
  BY <1>1, <1>2, <1>3, <1>4 DEF LeafStep
-----------------------------------------------------------------------------
(* Steps of the parent *)

\* No request is granted a credit without having asked for it.
NoneBegins == \A x \in Req : stage[x] = "none" => stage'[x] = "none"

\* check_credit_transmission of the parent grants only requests that wait.
LEMMA ParentPop ==
  ASSUME NEW c, NEW st, NEW O, NEW W, QueueOK(c, st, O, W),
         \A x \in O : st[x] # "queued", CheckCreditTransmission(c, st)
  PROVE  \A x \in Req : st[x] = "none" => stage'[x] = "none"
<1>1. PICK G \in SUBSET Req : PopResult(st, cq', stage', O, W, G)
  BY AfterPop
<1>2. QED
  BY <1>1 DEF PopResult

LEMMA RecvCreditRequestBegins ==
  ASSUME Inv, NEW r \in Req, RecvCreditRequest(r)
  PROVE  NoneBegins
<1>1. CASE PriorityOf[r] \notin Priority
  BY <1>1 DEF RecvCreditRequest, NoneBegins
<1>2. CASE PriorityOf[r] \in Priority
  <2> DEFINE O == OccupyingRequests
             W == TwoSlotRequests
             st == [stage EXCEPT ![r] = "queued"]
  <2>1. PICK c \in LimitsMaybeUpdated(cq, ServiceOf[r]) :
          CheckCreditTransmission(Push(c, r, ServiceOf[r], PriorityOf[r]), st)
    BY <1>2 DEF RecvCreditRequest
  <2>2. QueueOK(cq, stage, O, W) /\ stage[r] = "asked" /\ stage \in [Req -> Stage]
    BY InvFacts DEF RecvCreditRequest
  <2>3. ServiceOf[r] \in Endpoint
    BY ConfigAssumption
  <2>4. QueueOK(c, stage, O, W)
    BY <2>2, <2>3, LimitsKeepQueue
  <2>5. QueueOK(Push(c, r, ServiceOf[r], PriorityOf[r]), st, O, W)
    BY <1>2, <2>2, <2>4, PushKeepsQueue
  <2>6. \A x \in O : st[x] # "queued"
    BY <2>2 DEF OccupyingRequests, Occupies
  <2> HIDE DEF O, W, st
  <2>7. \A x \in Req : st[x] = "none" => stage'[x] = "none"
    BY <2>1, <2>5, <2>6, ParentPop
  <2>8. QED
    BY <2>2, <2>7 DEF st, NoneBegins
<1>3. QED
  BY <1>1, <1>2

\* Handlers that free a slot of r, which occupies one, and move it to s.
LEMMA ReleaseBegins ==
  ASSUME Inv, NEW r \in Req, NEW s \in {"none", "local"},
         stage[r] # "queued", Occupies(r),
         CheckCreditTransmission(DecrementInFlight(cq, ServiceOf[r]),
                                 [stage EXCEPT ![r] = s])
  PROVE  /\ \A x \in Req : x # r /\ stage[x] = "none" => stage'[x] = "none"
         /\ s = "none" => stage'[r] = "none"
<1> DEFINE O == OccupyingRequests \ {r}
           W == TwoSlotRequests
           st == [stage EXCEPT ![r] = s]
           c == DecrementInFlight(cq, ServiceOf[r])
<1>1. QueueOK(c, st, O, W)
  BY SlotReturned DEF Stage
<1>2. stage \in [Req -> Stage]
  BY DEF Inv, TypeOK
<1>3. \A x \in O : st[x] # "queued"
  BY <1>2 DEF OccupyingRequests, Occupies
<1>4. CheckCreditTransmission(c, st)
  OBVIOUS
<1> HIDE DEF O, W, st, c
<1>5. \A x \in Req : st[x] = "none" => stage'[x] = "none"
  BY <1>1, <1>3, <1>4, ParentPop
<1>6. QED
  BY <1>2, <1>5 DEF st

LEMMA RecvCreditReturnBegins ==
  ASSUME Inv, NEW r \in Req, RecvCreditReturn(r)
  PROVE  NoneBegins
<1>1. stage[r] = "granted" /\ Occupies(r)
  BY DEF RecvCreditReturn, Occupies
<1>2. CheckCreditTransmission(DecrementInFlight(cq, ServiceOf[r]),
                              [stage EXCEPT ![r] = "none"])
  BY DEF RecvCreditReturn
<1>3. PICK s \in {"none", "local"} : s = "none"
  OBVIOUS
<1>4. CheckCreditTransmission(DecrementInFlight(cq, ServiceOf[r]),
                              [stage EXCEPT ![r] = s])
  BY <1>2, <1>3
<1>5. QED
  BY <1>1, <1>3, <1>4, ReleaseBegins DEF NoneBegins

LEMMA LocalResponseBegins ==
  ASSUME Inv, NEW r \in Req, LocalResponse(r)
  PROVE  NoneBegins /\ stage'[r] = "none"
<1>1. stage[r] = "local" /\ Occupies(r)
  BY RespondingRequest DEF LocalResponse
<1>2. CheckCreditTransmission(DecrementInFlight(cq, ServiceOf[r]),
                              [stage EXCEPT ![r] = "none"])
  BY DEF LocalResponse
<1>3. PICK s \in {"none", "local"} : s = "none"
  OBVIOUS
<1>4. CheckCreditTransmission(DecrementInFlight(cq, ServiceOf[r]),
                              [stage EXCEPT ![r] = s])
  BY <1>2, <1>3
<1>5. QED
  BY <1>1, <1>3, <1>4, ReleaseBegins DEF NoneBegins

LEMMA ReleaseParentBegins ==
  ASSUME Inv, NEW r \in Req, stage[r] = "local", Occupies(r), ReleaseParent(r)
  PROVE  NoneBegins
<1>1. PICK s \in {"none", "local"} : s = "local"
  OBVIOUS
<1>2. stage = [stage EXCEPT ![r] = s]
  BY <1>1 DEF Inv, TypeOK
<1>3. CheckCreditTransmission(DecrementInFlight(cq, ServiceOf[r]),
                              [stage EXCEPT ![r] = s])
  BY <1>2 DEF ReleaseParent
<1>4. QED
  BY <1>3, ReleaseBegins DEF NoneBegins

\* A leaf whose stages and credits stay, while the parent changes calls of r
\* only, to stages that match.
LEMMA ParentStepInv ==
  ASSUME LeafInv, NEW r \in Req, UNCHANGED leafVars, NoneBegins,
         \A x \in Req \ {r} : call'[x] = call[x],
         \A d \in Downstream : Matches(call'[r][d], leaf_stage[d][r]),
         stage'[r] = "none" \/ call'[r] = call[r]
  PROVE  LeafInv'
<1>1. leaf_cq' = leaf_cq /\ leaf_stage' = leaf_stage
  BY DEF leafVars
<1>2. \A x \in Req, d \in Downstream : Matches(call'[x][d], leaf_stage[d][x])
  BY DEF LeafInv
<1>3. \A x \in Req, d \in Downstream :
        stage'[x] # "none" /\ call'[x][d] = "none" => leaf_stage[d][x] = "none"
  BY DEF LeafInv, FreshCalls, NoneBegins
<1>4. QED
  BY <1>1, <1>2, <1>3 DEF LeafInv, FreshCalls

LEMMA ParentStepsInv ==
  ASSUME Inv, LeafInv, NEW r \in Req, ParentStep(r)
  PROVE  LeafInv'
<1>1. UNCHANGED leafVars
  BY DEF ParentStep
<1>2. \A d \in Downstream : Matches(call[r][d], leaf_stage[d][r])
  BY DEF LeafInv
<1>3. CASE RecvCreditRequest(r)
  <2>1. call' = call /\ NoneBegins
    BY <1>3, RecvCreditRequestBegins DEF RecvCreditRequest, rpcVars
  <2>2. QED
    BY <1>1, <1>2, <2>1, ParentStepInv
<1>4. CASE RecvCreditReturn(r)
  <2>1. call' = call /\ NoneBegins
    BY <1>4, RecvCreditReturnBegins DEF RecvCreditReturn, rpcVars
  <2>2. QED
    BY <1>1, <1>2, <2>1, ParentStepInv
<1>5. CASE RecvRequest(r)
  <2>1. call' = call /\ NoneBegins
    BY <1>5 DEF RecvRequest, rpcVars, NoneBegins, Inv, TypeOK
  <2>2. QED
    BY <1>1, <1>2, <2>1, ParentStepInv
<1>6. CASE LocalResponse(r)
  <2>1. NoneBegins /\ stage'[r] = "none"
    BY <1>6, LocalResponseBegins
  <2>2. \A d \in Downstream : call[r][d] \notin {"asked", "sent", "granted"}
    BY <1>6, RespondingRequest DEF LocalResponse
  <2>3. /\ call'[r] = NoCalls
        /\ \A x \in Req \ {r} : call'[x] = call[x]
    BY <1>6 DEF LocalResponse, Inv, TypeOK
  <2>4. \A d \in Downstream : Matches(call'[r][d], leaf_stage[d][r])
    BY <1>2, <2>2, <2>3 DEF Matches, NoCalls
  <2>5. QED
    BY <1>1, <2>1, <2>3, <2>4, ParentStepInv
<1>7. QED
  BY <1>3, <1>4, <1>5, <1>6 DEF ParentStep

LEMMA MeshClientCreditRequestInv ==
  ASSUME Inv, LeafInv, NEW r \in Req, MeshClientCreditRequest(r)
  PROVE  LeafInv'
<1>1. /\ leaf_cq' = leaf_cq /\ leaf_stage' = leaf_stage /\ call' = call
      /\ \A d \in Downstream : leaf_stage[d][r] = "none"
      /\ \A x \in Req \ {r} : stage'[x] = stage[x]
  BY DEF MeshClientCreditRequest, ClientCreditRequest, leafVars, rpcVars, Inv, TypeOK
<1>2. FreshCalls'
  BY <1>1 DEF LeafInv, FreshCalls
<1>3. QED
  BY <1>1, <1>2 DEF LeafInv

\* What happens to the sub-request of r to one leaf when the parent's calls
\* change from c to c2 and the stage at the leaf was l.
Allowed(c, c2, l) ==
  \/ c2 = c
  \/ c = "none" /\ c2 = "asked" /\ l = "none"
  \/ c = "asked" /\ c2 \in {"granted", "sent", "returned"} /\ l = "granted"
  \/ c = "granted" /\ c2 \in {"sent", "returned"} /\ l = "granted"

\* A step of the parent after which messages of r are sent.
CallsMove(r) ==
  /\ NoneBegins
  /\ call' \in [Req -> [Downstream -> CallStage]]
  /\ \A x \in Req \ {r} : call'[x] = call[x]
  /\ \A f \in Downstream : Allowed(call[r][f], call'[r][f], leaf_stage[f][r])

LEMMA SendMessagesInv ==
  ASSUME LeafInv, NEW r \in Req, SendMessages(r), leaf_cq' = leaf_cq, CallsMove(r)
  PROVE  LeafInv'
<1> /\ NoneBegins
    /\ call' \in [Req -> [Downstream -> CallStage]]
    /\ \A x \in Req \ {r} : call'[x] = call[x]
    /\ \A f \in Downstream : Allowed(call[r][f], call'[r][f], leaf_stage[f][r])
  BY DEF CallsMove
<1>1. ASSUME NEW f \in Downstream
      PROVE  /\ LeafOK(leaf_cq'[f], leaf_stage'[f])
             /\ Matches(call'[r][f], leaf_stage'[f][r])
             /\ call'[r][f] = "none" =>
                  call[r][f] = "none" /\ leaf_stage'[f][r] = leaf_stage[f][r]
             /\ \A x \in Req \ {r} : leaf_stage'[f][x] = leaf_stage[f][x]
  <2>1. PICK st \in [Req -> LeafStage] : st = leaf_stage[f]
    BY DEF LeafInv
  <2>2. PICK c \in CreditQueueType : c = leaf_cq[f]
    BY DEF LeafInv
  <2>3. LeafOK(c, st) /\ Matches(call[r][f], st[r])
    BY <2>1, <2>2 DEF LeafInv
  <2>4. CASE call'[r][f] = call[r][f]
    <3>1. leaf_stage'[f] = st
      BY <2>1, <2>4 DEF SendMessages
    <3>2. QED
      BY <2>1, <2>2, <2>3, <2>4, <3>1
  <2>5. CASE call'[r][f] # call[r][f]
    <3>1. /\ \/ call[r][f] = "none" /\ call'[r][f] = "asked" /\ st[r] = "none"
             \/ call'[r][f] \in {"granted", "sent", "returned"} /\ st[r] = "granted"
      BY <2>1, <2>5 DEF Allowed
    <3>2. leaf_stage'[f] = [st EXCEPT ![r] = MessageFor(call'[r][f], st[r])]
      BY <2>1, <2>5 DEF SendMessages
    <3>3. PICK s \in {"asked", "granted", "request", "return"} :
            /\ s = MessageFor(call'[r][f], st[r])
            /\ \/ call'[r][f] = "asked" /\ s = "asked"
               \/ call'[r][f] = "granted" /\ s = "granted"
               \/ call'[r][f] = "sent" /\ s = "request"
               \/ call'[r][f] = "returned" /\ s = "return"
      BY <3>1 DEF MessageFor
    <3>4. leaf_stage'[f] = [st EXCEPT ![r] = s]
      BY <3>2, <3>3
    <3>5. LeafOK(c, [st EXCEPT ![r] = s])
      <4>1. /\ st[r] # "queued" /\ s # "queued" /\ s \in LeafStage
            /\ st[r] \in Holding <=> s \in Holding
        BY <3>1, <3>3 DEF Holding, LeafStage
      <4>2. QED
        BY <2>3, <4>1, LeafMove
    <3>6. LeafOK(leaf_cq'[f], leaf_stage'[f])
      BY <2>2, <3>4, <3>5
    <3>7. Matches(call'[r][f], leaf_stage'[f][r])
      BY <3>3, <3>4 DEF Matches
    <3>8. QED
      BY <2>1, <3>1, <3>4, <3>6, <3>7
  <2>6. QED
    BY <2>4, <2>5
<1>2. leaf_stage' \in [Downstream -> [Req -> LeafStage]]
  <2>1. \A f \in Downstream : leaf_stage'[f] \in [Req -> LeafStage]
    BY <1>1 DEF LeafOK
  <2>2. leaf_stage' = [f \in Downstream |-> leaf_stage'[f]]
    BY DEF SendMessages
  <2>3. QED
    BY <2>1, <2>2
<1>3. \A x \in Req, f \in Downstream : Matches(call'[x][f], leaf_stage'[f][x])
  BY <1>1 DEF LeafInv
<1>4. FreshCalls'
  BY <1>1 DEF LeafInv, FreshCalls, NoneBegins
<1>5. QED
  BY <1>1, <1>2, <1>3, <1>4 DEF LeafInv
LEMMA MeshSubRequestMoves ==
  ASSUME Inv, Inv', LeafInv, NEW r \in Req, NEW d \in Downstream,
         MeshSubRequest(r, d)
  PROVE  CallsMove(r)
<1>1. /\ SubRequest(r, d) /\ SendMessages(r) /\ leaf_cq' = leaf_cq
  BY DEF MeshSubRequest
<1>2. /\ call \in [Req -> [Downstream -> CallStage]]
      /\ call' \in [Req -> [Downstream -> CallStage]]
  BY DEF Inv, TypeOK
<1>3. stage[r] = "local" /\ stage' = stage /\ MayCall(r, d)
  BY <1>1 DEF SubRequest
<1>4. \A f \in Downstream : call[r][f] = "none" => leaf_stage[f][r] = "none"
  BY <1>3 DEF LeafInv, FreshCalls
<1>5. \A x \in Req \ {r} : call'[x] = call[x]
  BY <1>1, <1>2 DEF SubRequest
<1>6. ASSUME NEW f \in Downstream
      PROVE  call'[r][f] = call[r][f] \/ (call[r][f] = "none" /\ call'[r][f] = "asked")
  <2>1. CASE FanoutOf(r) = "dfanout"
    <3>1. call[r] = NoCalls
      BY <1>3, <2>1 DEF MayCall
    <3>2. call'[r] = [e \in Downstream |->
                        IF e \in DownstreamsOf(r) THEN "asked" ELSE "none"]
      BY <1>1, <1>2, <2>1 DEF SubRequest
    <3>3. QED
      BY <3>1, <3>2 DEF NoCalls
  <2>2. CASE FanoutOf(r) # "dfanout"
    <3>1. call' = [call EXCEPT ![r] = [@ EXCEPT ![d] = "asked"]]
      BY <1>1, <2>2 DEF SubRequest
    <3>2. call[r][d] = "none"
      BY <1>3 DEF MayCall
    <3>3. QED
      BY <1>2, <3>1, <3>2
  <2>3. QED
    BY <2>1, <2>2
<1>7. \A f \in Downstream : Allowed(call[r][f], call'[r][f], leaf_stage[f][r])
  BY <1>4, <1>6 DEF Allowed
<1>8. NoneBegins
  BY <1>3 DEF NoneBegins
<1>9. QED
  BY <1>2, <1>5, <1>7, <1>8 DEF CallsMove

\* One grant that is used or kept at once.
LEMMA GrantTaken ==
  ASSUME Inv, Inv', LeafInv, NEW r \in Req, NEW d \in Downstream,
         call[r][d] = "asked", leaf_stage[d][r] = "granted",
         NEW v \in {"sent", "granted"}, call' = [call EXCEPT ![r][d] = v],
         NoneBegins
  PROVE  CallsMove(r)
<1>1. /\ call \in [Req -> [Downstream -> CallStage]]
      /\ call' \in [Req -> [Downstream -> CallStage]]
  BY DEF Inv, TypeOK
<1>2. /\ call'[r][d] = v
      /\ \A f \in Downstream \ {d} : call'[r][f] = call[r][f]
      /\ \A x \in Req \ {r} : call'[x] = call[x]
  BY <1>1
<1>3. \A f \in Downstream : Allowed(call[r][f], call'[r][f], leaf_stage[f][r])
  BY <1>2 DEF Allowed
<1>4. QED
  BY <1>1, <1>2, <1>3 DEF CallsMove

\* The last grant of a dfanout request: all others have been collected.
LEMMA LastGrant ==
  ASSUME Inv, NEW r \in Req, NEW d \in Downstream, call[r][d] = "asked",
         FanoutOf(r) = "dfanout",
         pfanout_req[r] + 1 = Cardinality(DownstreamsOf(r))
  PROVE  \A f \in DownstreamsOf(r) : f # d => call[r][f] = "granted"
<1> DEFINE D == DownstreamsOf(r)
           G == {f \in D : call[r][f] = "granted"}
<1>1. d \in D /\ IsFiniteSet(D)
  BY CallingRequest
<1>2. pfanout_req[r] = Cardinality(G)
  BY CollectingRequest
<1>3. d \notin G /\ G \subseteq D /\ G \cup {d} \subseteq D
  BY <1>1
<1> HIDE DEF D, G
<1>4. IsFiniteSet(G) /\ Cardinality(G \cup {d}) = Cardinality(G) + 1
  BY <1>1, <1>3, FS_Subset, FS_AddElement
<1>5. Cardinality(G \cup {d}) = Cardinality(D)
  BY <1>2, <1>4 DEF D
<1>6. G \cup {d} = D
  BY <1>1, <1>3, <1>5, FS_Subset
<1>7. QED
  BY <1>6 DEF D, G

LEMMA MeshRecvCreditGrantMoves ==
  ASSUME Inv, Inv', LeafInv, NEW r \in Req, NEW d \in Downstream,
         MeshRecvCreditGrant(r, d)
  PROVE  CallsMove(r)
<1>1. /\ RecvCreditGrant(r, d) /\ SendMessages(r) /\ leaf_cq' = leaf_cq
      /\ leaf_stage[d][r] = "granted" /\ call[r][d] = "asked"
  BY DEF MeshRecvCreditGrant, RecvCreditGrant
<1>2. /\ stage[r] = "local" /\ d \in DownstreamsOf(r)
      /\ DownstreamsOf(r) \subseteq Downstream
  BY <1>1, CallingRequest
<1>3. FanoutOK(r)
  BY InvFacts
<1>4. CASE FanoutOf(r) = "sequential" /\ SequentialGrant(r, d)
  <2>1. Occupies(r)
    <3>1. ~Blocked(r)
      BY <1>1, <1>2, <1>3, <1>4 DEF FanoutOK, SequentialCalls, Blocked
    <3>2. QED
      BY <1>2, <1>4, <3>1 DEF Occupies
  <2>2. NoneBegins
    BY <1>2, <1>4, <2>1, ReleaseParentBegins DEF SequentialGrant
  <2>3. PICK v \in {"sent", "granted"} : call' = [call EXCEPT ![r][d] = v]
    BY <1>4 DEF SequentialGrant
  <2>4. QED
    BY <1>1, <2>2, <2>3, GrantTaken
<1>5. CASE FanoutOf(r) = "pfanout" /\ PfanoutGrant(r, d)
  <2>1. Occupies(r)
    <3>1. ~AllSent(r)
      BY <1>1, <1>2 DEF AllSent, Sent
    <3>2. QED
      BY <1>2, <1>5, <3>1 DEF Occupies
  <2>2. NoneBegins
    <3>1. CASE ReleaseParent(r)
      BY <1>2, <2>1, <3>1, ReleaseParentBegins
    <3>2. CASE UNCHANGED <<cq, stage>>
      BY <3>2 DEF NoneBegins
    <3>3. QED
      BY <1>5, <3>1, <3>2 DEF PfanoutGrant
  <2>3. PICK v \in {"sent", "granted"} : call' = [call EXCEPT ![r][d] = v]
    BY <1>5 DEF PfanoutGrant
  <2>4. QED
    BY <1>1, <2>2, <2>3, GrantTaken
<1>6. CASE FanoutOf(r) = "dfanout" /\ DfanoutCollect(r, d)
  <2>1. NoneBegins
    BY <1>6 DEF DfanoutCollect, NoneBegins
  <2>2. PICK v \in {"sent", "granted"} : call' = [call EXCEPT ![r][d] = v]
    BY <1>6 DEF DfanoutCollect
  <2>3. QED
    BY <1>1, <2>1, <2>2, GrantTaken
<1>7. CASE FanoutOf(r) = "dfanout" /\ DfanoutComplete(r, d)
  <2>1. Occupies(r) /\ dfanout_service[r] \in DownstreamsOf(r)
    BY <1>1, <1>7, CollectingRequest
  <2>2. NoneBegins
    BY <1>2, <1>7, <2>1, ReleaseParentBegins DEF DfanoutComplete
  <2>3. \A f \in DownstreamsOf(r) : f # d => call[r][f] = "granted"
    BY <1>1, <1>7, LastGrant DEF DfanoutComplete
  <2>4. /\ call \in [Req -> [Downstream -> CallStage]]
        /\ call' \in [Req -> [Downstream -> CallStage]]
    BY DEF Inv, TypeOK
  <2>5. /\ \A f \in DownstreamsOf(r) : call'[r][f] \in {"sent", "returned"}
        /\ \A f \in Downstream \ DownstreamsOf(r) : call'[r][f] = "none"
        /\ \A x \in Req \ {r} : call'[x] = call[x]
    <3> DEFINE h == [f \in Downstream |->
                       IF f = dfanout_service[r] THEN "sent"
                       ELSE IF f \in DownstreamsOf(r) THEN "returned"
                       ELSE "none"]
    <3>1. call' = [call EXCEPT ![r] = h]
      BY <1>7 DEF DfanoutComplete
    <3>2. /\ \A f \in DownstreamsOf(r) : h[f] \in {"sent", "returned"}
          /\ \A f \in Downstream \ DownstreamsOf(r) : h[f] = "none"
      BY <1>2, <2>1
    <3> HIDE DEF h
    <3>3. QED
      BY <2>4, <3>1, <3>2
  <2>6. \A f \in Downstream \ DownstreamsOf(r) : call[r][f] = "none"
    BY <1>3 DEF FanoutOK
  <2>7. \A f \in DownstreamsOf(r) :
          call[r][f] \in {"asked", "granted"} /\ leaf_stage[f][r] = "granted"
    BY <1>1, <1>2, <2>3 DEF LeafInv, Matches
  <2>8. \A f \in Downstream : Allowed(call[r][f], call'[r][f], leaf_stage[f][r])
    BY <2>5, <2>6, <2>7 DEF Allowed
  <2>9. QED
    BY <2>2, <2>4, <2>5, <2>8 DEF CallsMove
<1>8. QED
  BY <1>1, <1>4, <1>5, <1>6, <1>7 DEF RecvCreditGrant, DfanoutGrant

LEMMA MeshRecvResponseInv ==
  ASSUME Inv, LeafInv, NEW r \in Req, NEW d \in Downstream, MeshRecvResponse(r, d)
  PROVE  LeafInv'
<1>1. /\ leaf_stage[d][r] = "answered" /\ call[r][d] = "sent"
      /\ call' = [call EXCEPT ![r] = [@ EXCEPT ![d] = "answered"]]
      /\ leaf_stage' = [leaf_stage EXCEPT ![d] = [@ EXCEPT ![r] = "none"]]
      /\ leaf_cq' = leaf_cq /\ stage' = stage
  BY DEF MeshRecvResponse, RecvResponse
<1>2. call \in [Req -> [Downstream -> CallStage]]
  BY DEF Inv, TypeOK
<1>3. PICK st \in [Req -> LeafStage] : st = leaf_stage[d]
  BY DEF LeafInv
<1>4. PICK c \in CreditQueueType : c = leaf_cq[d]
  BY DEF LeafInv
<1> DEFINE st1 == [st EXCEPT ![r] = "none"]
<1>5. LeafOK(c, st1)
  BY <1>1, <1>3, <1>4, LeafMove DEF LeafInv, LeafStage, Holding
<1>6. /\ leaf_stage' \in [Downstream -> [Req -> LeafStage]]
      /\ leaf_stage'[d] = st1
      /\ \A f \in Downstream \ {d} : leaf_stage'[f] = leaf_stage[f]
  BY <1>1, <1>3 DEF LeafInv, LeafStage
<1>7. /\ call'[r][d] = "answered"
      /\ \A f \in Downstream \ {d} : call'[r][f] = call[r][f]
      /\ \A x \in Req \ {r} : call'[x] = call[x]
  BY <1>1, <1>2
<1>8. st1[r] = "none" /\ \A x \in Req \ {r} : st1[x] = leaf_stage[d][x]
  BY <1>3
<1> HIDE DEF st1
<1>9. \A f \in Downstream : LeafOK(leaf_cq'[f], leaf_stage'[f])
  BY <1>1, <1>4, <1>5, <1>6 DEF LeafInv
<1>10. \A x \in Req, f \in Downstream : Matches(call'[x][f], leaf_stage'[f][x])
  <2>1. TAKE x \in Req, f \in Downstream
  <2>2. CASE x = r /\ f = d
    BY <1>6, <1>7, <1>8, <2>2 DEF Matches
  <2>3. CASE ~(x = r /\ f = d)
    <3>1. call'[x][f] = call[x][f] /\ leaf_stage'[f][x] = leaf_stage[f][x]
      BY <1>6, <1>7, <1>8, <2>3
    <3>2. QED
      BY <3>1 DEF LeafInv
  <2>4. QED
    BY <2>2, <2>3
<1>11. \A x \in Req, f \in Downstream :
         stage'[x] # "none" /\ call'[x][f] = "none" => leaf_stage'[f][x] = "none"
  BY <1>1, <1>6, <1>7, <1>8 DEF LeafInv, FreshCalls
<1>12. QED
  BY <1>1, <1>6, <1>9, <1>10, <1>11 DEF LeafInv, FreshCalls

-----------------------------------------------------------------------------
(* The leaves of the mesh *)

LEMMA EmptyQueueFacts ==
  LET c == EmptyCreditQueue([e \in Endpoint |-> LeafLimit], LeafLimit)
  IN  /\ c \in CreditQueueType /\ c.remaining_rounds >= 1
      /\ c.in_flight = 0
      /\ \A p \in Priority, e \in Endpoint : c.queue[p][e] = <<>>
<1>1. /\ 0 \in Priority /\ 0 \in Endpoint /\ Weight[0] \in Nat \ {0}
      /\ LeafLimit \in Nat \ {0}
  BY RoundsType, EndpointsAssumption, LeafLimitAssumption
  DEF Priority, PriorityCount, Endpoint
<1>2. <<>> \in Seq(Req)
  OBVIOUS
<1>3. QED
  BY <1>1, <1>2 DEF EmptyCreditQueue, CreditQueueType

LEMMA InitLeafInv == MeshInit => LeafInv
<1> SUFFICES ASSUME MeshInit PROVE LeafInv
  OBVIOUS
<1> DEFINE c == EmptyCreditQueue([e \in Endpoint |-> LeafLimit], LeafLimit)
           st == [r \in Req |-> "none"]
<1>1. /\ leaf_cq = [d \in Downstream |-> c]
      /\ leaf_stage = [d \in Downstream |-> st]
      /\ call = [r \in Req |-> NoCalls] /\ stage = [r \in Req |-> "none"]
  BY DEF MeshInit, Init
<1>2. /\ c \in CreditQueueType /\ c.remaining_rounds >= 1
      /\ c.in_flight = 0
      /\ \A p \in Priority, e \in Endpoint : c.queue[p][e] = <<>>
  BY EmptyQueueFacts
<1> HIDE DEF c
<1>3. st \in [Req -> LeafStage]
  BY DEF LeafStage
<1>4. LeafOK(c, st)
  <2>1. {x \in Req : st[x] \in Holding} = {}
    BY DEF Holding
  <2>2. LeafQueued(c.queue, st)
    BY <1>2 DEF LeafQueued
  <2>3. QED
    BY <1>2, <1>3, <2>1, <2>2, FS_EmptySet DEF LeafOK
<1>5. QED
  BY <1>1, <1>2, <1>3, <1>4 DEF LeafInv, FreshCalls, Matches, NoCalls

LEMMA MeshNextInv ==
  ASSUME PrioritiesInRange, Inv, Inv', LeafInv, [MeshNext]_meshVars
  PROVE  LeafInv'
<1>1. CASE UNCHANGED meshVars
  BY <1>1 DEF meshVars, vars, leafVars, LeafInv, FreshCalls
<1>2. ASSUME NEW r \in Req, MeshClientCreditRequest(r) PROVE LeafInv'
  BY <1>2, MeshClientCreditRequestInv
<1>3. ASSUME NEW r \in Req, ParentStep(r) PROVE LeafInv'
  BY <1>3, ParentStepsInv
<1>4. ASSUME NEW r \in Req, NEW d \in Downstream, MeshSubRequest(r, d) PROVE LeafInv'
  BY <1>4, MeshSubRequestMoves, SendMessagesInv DEF MeshSubRequest
<1>5. ASSUME NEW r \in Req, NEW d \in Downstream, MeshRecvCreditGrant(r, d)
      PROVE  LeafInv'
  BY <1>5, MeshRecvCreditGrantMoves, SendMessagesInv DEF MeshRecvCreditGrant
<1>6. ASSUME NEW r \in Req, NEW d \in Downstream, MeshRecvResponse(r, d) PROVE LeafInv'
  BY <1>6, MeshRecvResponseInv
<1>7. ASSUME NEW r \in Req, NEW d \in Downstream, LeafStep(r, d) PROVE LeafInv'
  BY <1>7, LeafStepsInv
<1>8. QED
  BY <1>1, <1>2, <1>3, <1>4, <1>5, <1>6, <1>7 DEF MeshNext

\* The invariant of the parent and that of the leaves hold together.
LEMMA MeshInvariance ==
  ASSUME PrioritiesInRange
  PROVE  MeshSpec => [](Inv /\ LeafInv)
<1>1. Inv /\ Inv' /\ LeafInv /\ [MeshNext]_meshVars => LeafInv'
  BY MeshNextInv
<1>2. MeshSpec => []Inv
  BY MeshImplementsSidecar, Invariance, PTL
<1>3. QED
  BY <1>1, <1>2, InitLeafInv, PTL DEF MeshSpec

\* The queues and stages of all sidecars keep their types.
THEOREM MeshTypeCorrect ==
  ASSUME PrioritiesInRange
  PROVE  MeshSpec => []MeshTypeOK
<1>1. Inv /\ LeafInv => MeshTypeOK
  BY DEF Inv, LeafInv, MeshTypeOK
<1>2. QED
  BY <1>1, MeshInvariance, PTL

\* For any number of requests and leaf sidecars, parent and leaf agree on every
\* sub-request, in whatever order grants, returns, requests and responses of
\* protocol_client and protocol_server arrive.
THEOREM CallsAlwaysMatch ==
  ASSUME PrioritiesInRange
  PROVE  MeshSpec => []CallsMatchLeaves
<1>1. Inv /\ LeafInv => CallsMatchLeaves
  BY DEF LeafInv, Matches, CallsMatchLeaves
<1>2. QED
  BY <1>1, MeshInvariance, PTL

\* For any number of requests and leaf sidecars, the in_flight counter of a leaf
\* (increment_in_flight, decrement_in_flight) is the number of its credits that
\* are somewhere in the mesh, also while the limits of the leaves change.
THEOREM CreditsAlwaysConserved ==
  ASSUME PrioritiesInRange
  PROVE  MeshSpec => []CreditsConserved
<1>1. Inv /\ LeafInv => CreditsConserved
  <2> SUFFICES ASSUME LeafInv, NEW d \in Downstream
               PROVE  leaf_cq[d].in_flight =
                        Cardinality({r \in Req : HoldsCredit(r, d)})
    BY DEF CreditsConserved
  <2>1. {r \in Req : HoldsCredit(r, d)} = {r \in Req : leaf_stage[d][r] \in Holding}
    BY DEF HoldsCredit, Holding
  <2>2. QED
    BY <2>1 DEF LeafInv, LeafOK
<1>2. QED
  BY <1>1, MeshInvariance, PTL

-----------------------------------------------------------------------------
(* No circular wait: leaves with waiting requests gave credits away *)

\* The limits of a leaf that hosts one service: only its limit is ever updated.
LeafEndpointLimits(limit) ==
  [e \in Endpoint |-> IF e = LeafEndpoint THEN limit ELSE LeafLimit]

\* The queue c of a leaf with stages st: whoever waits is in the queue of the
\* one endpoint, whose limit is the global limit.
LeafQueues(c, st) ==
  /\ \A r \in Req : st[r] = "queued" =>
       \E p \in Priority : \E i \in DOMAIN c.queue[p][LeafEndpoint] :
         c.queue[p][LeafEndpoint][i] = r
  /\ \A p \in Priority, e \in Endpoint \ {LeafEndpoint} : c.queue[p][e] = <<>>
  /\ c.global_limit >= LeafLimit
  /\ c.per_endpoint_limit = LeafEndpointLimits(c.global_limit)
  /\ c.in_flight_per_endpoint[LeafEndpoint] = c.in_flight

\* A leaf at which somebody waits has given as many credits away as its smallest
\* limit allows.  (After a limit was raised by more than one it could grant more.)
LeafFull(c) == Waiting(c) => c.in_flight >= LeafLimit

LeafBusy(c, st) == LeafQueues(c, st) /\ LeafFull(c)

BusyInv == \A d \in Downstream : LeafBusy(leaf_cq[d], leaf_stage[d])

LEMMA LeafEndpointType == LeafEndpoint \in Endpoint
  BY EndpointsAssumption DEF LeafEndpoint, Endpoint

LEMMA QueuesLimits ==
  ASSUME NEW c \in CreditQueueType, NEW st \in [Req -> LeafStage], LeafBusy(c, st),
         NEW n \in LeafLimitsMaybeUpdated(c)
  PROVE  LeafBusy(n, st)
<1>1. CASE n = c
  BY <1>1
<1>2. CASE n # c
  <2>1. /\ n.queue = c.queue
        /\ n.in_flight = c.in_flight
        /\ n.in_flight_per_endpoint = c.in_flight_per_endpoint
    BY LeafLimitsFacts
  <2>2. PICK l \in LeafLimits :
          /\ l \in Int /\ l >= LeafLimit
          /\ n.global_limit = l
          /\ n.per_endpoint_limit = [c.per_endpoint_limit EXCEPT ![LeafEndpoint] = l]
    BY <1>2, LeafLimitsFacts
  <2>3. c.per_endpoint_limit = LeafEndpointLimits(c.global_limit)
    BY DEF LeafBusy, LeafQueues
  <2>4. n.per_endpoint_limit = LeafEndpointLimits(l)
    BY <2>2, <2>3 DEF LeafEndpointLimits
  <2>5. LeafQueues(n, st)
    BY <2>1, <2>2, <2>4 DEF LeafBusy, LeafQueues
  <2>6. LeafFull(n)
    BY <2>1 DEF LeafBusy, LeafFull, Waiting
  <2>7. QED
    BY <2>5, <2>6 DEF LeafBusy
<1>3. QED
  BY <1>1, <1>2

LEMMA QueuesPush ==
  ASSUME NEW c \in CreditQueueType, NEW st \in [Req -> LeafStage], LeafQueues(c, st),
         NEW r \in Req, NEW P \in Priority
  PROVE  LeafQueues(Push(c, r, LeafEndpoint, P), [st EXCEPT ![r] = "queued"])
<1> DEFINE n == Push(c, r, LeafEndpoint, P)
           E == LeafEndpoint
           q == c.queue
           st2 == [st EXCEPT ![r] = "queued"]
<1>1. /\ n.queue = [q EXCEPT ![P][E] = Append(@, r)]
      /\ n.in_flight = c.in_flight
      /\ n.global_limit = c.global_limit
      /\ n.in_flight_per_endpoint = c.in_flight_per_endpoint
      /\ n.per_endpoint_limit = c.per_endpoint_limit
  BY LeafEndpointType, PushFacts
<1>2. q \in [Priority -> [Endpoint -> Seq(Req)]] /\ E \in Endpoint
  BY LeafEndpointType DEF CreditQueueType
<1>3. /\ n.queue[P][E] = Append(q[P][E], r)
      /\ \A p \in Priority, e \in Endpoint :
           ~(p = P /\ e = E) => n.queue[p][e] = q[p][e]
  BY <1>1, <1>2
<1>4. q[P][E] \in Seq(Req)
  BY <1>2
<1>5. \A x \in Req : x # r => st2[x] = st[x]
  OBVIOUS
<1> HIDE DEF n, st2
<1>6. ASSUME NEW x \in Req, st2[x] = "queued"
      PROVE  \E p \in Priority : \E i \in DOMAIN n.queue[p][E] : n.queue[p][E][i] = x
  <2> DEFINE s == q[P][E]
  <2>1. s \in Seq(Req) /\ n.queue[P][E] = Append(s, r)
    BY <1>3, <1>4
  <2> HIDE DEF s
  <2>2. /\ Len(s) + 1 \in DOMAIN n.queue[P][E] /\ n.queue[P][E][Len(s) + 1] = r
        /\ \A i \in DOMAIN s : i \in DOMAIN n.queue[P][E] /\ n.queue[P][E][i] = s[i]
    BY <2>1
  <2>3. CASE x = r
    BY <2>2, <2>3
  <2>4. CASE x # r
    <3>1. PICK p \in Priority : \E i \in DOMAIN q[p][E] : q[p][E][i] = x
      BY <1>5, <1>6, <2>4 DEF LeafQueues
    <3>2. PICK i \in DOMAIN q[p][E] : q[p][E][i] = x
      BY <3>1
    <3>3. i \in DOMAIN n.queue[p][E] /\ n.queue[p][E][i] = x
      BY <1>2, <1>3, <2>2, <3>2 DEF s
    <3>4. QED
      BY <3>3
  <2>5. QED
    BY <2>3, <2>4
<1>7. LeafQueues(n, st2)
  BY <1>1, <1>3, <1>6 DEF LeafQueues
<1>8. QED
  BY <1>7 DEF n, st2

LEMMA QueuesRelease ==
  ASSUME NEW c \in CreditQueueType, NEW st \in [Req -> LeafStage], LeafQueues(c, st),
         NEW r \in Req, NEW s \in {"none", "answered"}
  PROVE  LeafQueues(DecrementInFlight(c, LeafEndpoint), [st EXCEPT ![r] = s])
<1> DEFINE n == DecrementInFlight(c, LeafEndpoint)
           st2 == [st EXCEPT ![r] = s]
<1>1. /\ n.queue = c.queue
      /\ n.in_flight = c.in_flight - 1
      /\ n.global_limit = c.global_limit
      /\ n.in_flight_per_endpoint =
           [c.in_flight_per_endpoint EXCEPT ![LeafEndpoint] = @ - 1]
      /\ n.per_endpoint_limit = c.per_endpoint_limit
  BY LeafEndpointType, DecrementFacts
<1>2. n.in_flight_per_endpoint[LeafEndpoint] = n.in_flight
  BY <1>1, LeafEndpointType DEF CreditQueueType, LeafQueues
<1>3. \A x \in Req : st2[x] = "queued" => st[x] = "queued"
  OBVIOUS
<1> HIDE DEF n, st2
<1>4. LeafQueues(n, st2)
  BY <1>1, <1>2, <1>3 DEF LeafQueues
<1>5. QED
  BY <1>4 DEF n, st2

LEMMA QueuesPop ==
  ASSUME NEW c \in CreditQueueType, c.remaining_rounds >= 1,
         NEW st \in [Req -> LeafStage], LeafQueues(c, st),
         NEW n, n = Pop(c).cq, NEW g, g = Pop(c).grant
  PROVE  LeafQueues(n, IF g = NoReq THEN st ELSE [st EXCEPT ![g] = "granted"])
<1> DEFINE E == LeafEndpoint
           q == c.queue
<1>1. /\ n.global_limit = c.global_limit
      /\ n.per_endpoint_limit = c.per_endpoint_limit
      /\ \/ /\ g = NoReq
            /\ n.queue = c.queue
            /\ n.in_flight = c.in_flight
            /\ n.in_flight_per_endpoint = c.in_flight_per_endpoint
         \/ \E p \in Priority, e \in Endpoint :
              /\ Eligible(c, p, e)
              /\ g = Head(c.queue[p][e])
              /\ g \in Req
              /\ n.queue = [c.queue EXCEPT ![p][e] = Tail(@)]
              /\ n.in_flight = c.in_flight + 1
              /\ n.in_flight_per_endpoint =
                   [c.in_flight_per_endpoint EXCEPT ![e] = @ + 1]
  BY PopFacts
<1>2. CASE g = NoReq /\ n.queue = c.queue /\ n.in_flight = c.in_flight
           /\ n.in_flight_per_endpoint = c.in_flight_per_endpoint
  BY <1>1, <1>2 DEF LeafQueues
<1>3. ASSUME NEW P \in Priority, NEW e \in Endpoint, Eligible(c, P, e),
             g = Head(c.queue[P][e]), g \in Req,
             n.queue = [c.queue EXCEPT ![P][e] = Tail(@)],
             n.in_flight = c.in_flight + 1,
             n.in_flight_per_endpoint = [c.in_flight_per_endpoint EXCEPT ![e] = @ + 1]
      PROVE  LeafQueues(n, [st EXCEPT ![g] = "granted"])
  <2> DEFINE st2 == [st EXCEPT ![g] = "granted"]
             s == q[P][E]
  <2>1. e = E /\ q[P][E] # <<>>
    BY <1>3 DEF Eligible, LeafQueues
  <2>2. q \in [Priority -> [Endpoint -> Seq(Req)]] /\ E \in Endpoint
    BY LeafEndpointType DEF CreditQueueType
  <2>3. /\ n.queue[P][E] = Tail(q[P][E])
        /\ \A p \in Priority, x \in Endpoint :
             ~(p = P /\ x = E) => n.queue[p][x] = q[p][x]
    BY <1>3, <2>1, <2>2
  <2>4. s \in Seq(Req) /\ s # <<>> /\ g = Head(s) /\ n.queue[P][E] = Tail(s)
    BY <1>3, <2>1, <2>2, <2>3
  <2>5. n.in_flight_per_endpoint[E] = n.in_flight
    BY <1>3, <2>1, <2>2 DEF CreditQueueType, LeafQueues
  <2>6. \A x \in Req : st2[x] = "queued" => st[x] = "queued" /\ x # g
    BY <1>3
  <2> HIDE DEF st2, s
  <2>7. /\ Len(s) \in Nat /\ DOMAIN s = 1 .. Len(s) /\ g = s[1]
        /\ DOMAIN Tail(s) = 1 .. Len(s) - 1
        /\ \A i \in 1 .. Len(s) - 1 : Tail(s)[i] = s[i + 1]
    BY <2>4, TailFacts
  <2>8. ASSUME NEW x \in Req, st2[x] = "queued"
        PROVE  \E p \in Priority : \E i \in DOMAIN n.queue[p][E] : n.queue[p][E][i] = x
    <3>1. PICK p \in Priority : \E i \in DOMAIN q[p][E] : q[p][E][i] = x
      BY <2>6, <2>8 DEF LeafQueues
    <3>2. PICK i \in DOMAIN q[p][E] : q[p][E][i] = x
      BY <3>1
    <3>3. CASE p # P
      BY <2>2, <2>3, <3>2, <3>3
    <3>4. CASE p = P
      <4>1. i \in 1 .. Len(s) /\ s[i] = x
        BY <2>7, <3>2, <3>4 DEF s
      <4>2. i # 1
        BY <2>6, <2>7, <2>8, <4>1
      <4>3. i - 1 \in 1 .. Len(s) - 1 /\ (i - 1) + 1 = i
        BY <2>7, <4>1, <4>2
      <4>4. i - 1 \in DOMAIN Tail(s) /\ Tail(s)[i - 1] = x
        BY <2>7, <4>1, <4>3
      <4>5. QED
        BY <2>4, <4>4
    <3>5. QED
      BY <3>3, <3>4
  <2>9. LeafQueues(n, st2)
    BY <1>1, <2>3, <2>5, <2>8 DEF LeafQueues
  <2>10. QED
    BY <2>9 DEF st2
<1>4. QED
  BY <1>1, <1>2, <1>3, NoReqAssumption

\* The pop grants a request, or the leaf has reached its limit, or nobody waits.
LEMMA PopFull ==
  ASSUME NEW c \in CreditQueueType, c.remaining_rounds >= 1,
         NEW st \in [Req -> LeafStage], LeafQueues(c, st),
         NEW n, n = Pop(c).cq
  PROVE  /\ c.in_flight \in Int
         /\ \/ n.queue = c.queue /\ n.in_flight = c.in_flight
               /\ (~Waiting(c) \/ c.in_flight >= LeafLimit)
            \/ /\ n.in_flight = c.in_flight + 1
               /\ \E p \in Priority :
                    /\ c.queue[p][LeafEndpoint] # <<>>
                    /\ n.queue = [c.queue EXCEPT ![p][LeafEndpoint] = Tail(@)]
<1>1. /\ c.in_flight \in Int /\ c.global_limit \in Int /\ LeafLimit \in Int
  BY LeafLimitAssumption DEF CreditQueueType
<1>2. /\ c.global_limit >= LeafLimit
      /\ c.per_endpoint_limit[LeafEndpoint] = c.global_limit
      /\ c.in_flight_per_endpoint[LeafEndpoint] = c.in_flight
      /\ \A p \in Priority, e \in Endpoint : c.queue[p][e] # <<>> => e = LeafEndpoint
  BY LeafEndpointType DEF LeafQueues, LeafEndpointLimits
<1>3. CASE n.queue = c.queue /\ n.in_flight = c.in_flight /\ ~CanGrant(c)
  <2>1. ASSUME NEW p \in Priority, NEW e \in Endpoint, c.queue[p][e] # <<>>
        PROVE  c.in_flight >= LeafLimit
    <3>1. c.in_flight >= c.global_limit
      BY <1>2, <1>3, <2>1, IneligibleFacts
    <3>2. QED
      BY <1>1, <1>2, <3>1
  <2>2. QED
    BY <1>1, <1>3, <2>1 DEF Waiting
<1>4. ASSUME NEW p \in Priority, NEW e \in Endpoint, Eligible(c, p, e),
             n.queue = [c.queue EXCEPT ![p][e] = Tail(@)],
             n.in_flight = c.in_flight + 1
      PROVE  \E x \in Priority :
               /\ c.queue[x][LeafEndpoint] # <<>>
               /\ n.queue = [c.queue EXCEPT ![x][LeafEndpoint] = Tail(@)]
  <2>1. c.queue[p][e] # <<>>
    BY <1>4 DEF Eligible
  <2>2. e = LeafEndpoint
    BY <1>2, <2>1
  <2>3. QED
    BY <1>4, <2>1, <2>2
<1>5. QED
  BY <1>1, <1>3, <1>4, PopFacts

\* An event of leaf d that pops: one pop is enough.
LEMMA PushPopFull ==
  ASSUME NEW c \in CreditQueueType, c.remaining_rounds >= 1,
         NEW st \in [Req -> LeafStage], LeafBusy(c, st),
         NEW r \in Req, NEW P \in Priority
  PROVE  LeafFull(Pop(Push(c, r, LeafEndpoint, P)).cq)
<1> DEFINE E == LeafEndpoint
           m == Push(c, r, E, P)
           n == Pop(m).cq
           q == c.queue
<1>1. /\ m \in CreditQueueType /\ m.remaining_rounds = c.remaining_rounds
      /\ m.queue = [q EXCEPT ![P][E] = Append(@, r)]
      /\ m.in_flight = c.in_flight
  BY LeafEndpointType, PushFacts
<1>2. LeafQueues(m, [st EXCEPT ![r] = "queued"]) /\ [st EXCEPT ![r] = "queued"] \in [Req -> LeafStage]
  BY QueuesPush DEF LeafBusy, LeafStage
<1> HIDE DEF m
<1>3. /\ c.in_flight \in Int
      /\ \/ n.queue = m.queue /\ n.in_flight = m.in_flight
            /\ (~Waiting(m) \/ m.in_flight >= LeafLimit)
         \/ /\ n.in_flight = m.in_flight + 1
            /\ \E p \in Priority :
                 /\ m.queue[p][E] # <<>>
                 /\ n.queue = [m.queue EXCEPT ![p][E] = Tail(@)]
  BY <1>1, <1>2, PopFull
<1> HIDE DEF n
<1>4. SUFFICES ASSUME Waiting(n) PROVE n.in_flight >= LeafLimit
  BY DEF LeafFull, n, m
<1>5. LeafLimit \in Int
  BY LeafLimitAssumption
<1>6. CASE Waiting(c)
  BY <1>1, <1>3, <1>5, <1>6 DEF LeafBusy, LeafFull, Waiting
<1>7. CASE ~Waiting(c) /\ n.queue = m.queue /\ n.in_flight = m.in_flight
  BY <1>3, <1>1, <1>4, <1>5, <1>7 DEF Waiting
<1>8. ASSUME ~Waiting(c), NEW p \in Priority, m.queue[p][E] # <<>>,
             n.queue = [m.queue EXCEPT ![p][E] = Tail(@)]
      PROVE  FALSE
  <2>1. q \in [Priority -> [Endpoint -> Seq(Req)]] /\ E \in Endpoint
    BY LeafEndpointType DEF CreditQueueType
  <2>2. \A x \in Priority, e \in Endpoint : q[x][e] = <<>>
    BY <1>8 DEF Waiting
  <2>3. \A x \in Priority, e \in Endpoint :
          m.queue[x][e] = IF x = P /\ e = E THEN Append(<<>>, r) ELSE <<>>
    <3>1. m.queue[P][E] = Append(q[P][E], r)
      BY <1>1, <2>1
    <3>2. \A x \in Priority, e \in Endpoint :
            ~(x = P /\ e = E) => m.queue[x][e] = q[x][e]
      BY <1>1, <2>1
    <3>3. QED
      BY <2>1, <2>2, <3>1, <3>2
  <2>4. p = P
    BY <1>8, <2>1, <2>3
  <2>5. m.queue \in [Priority -> [Endpoint -> Seq(Req)]]
    BY <1>1 DEF CreditQueueType
  <2>6. Tail(Append(<<>>, r)) = <<>>
    OBVIOUS
  <2>7. \A x \in Priority, e \in Endpoint : n.queue[x][e] = <<>>
    <3>1. n.queue[P][E] = Tail(m.queue[P][E])
      BY <1>8, <2>1, <2>4, <2>5
    <3>2. \A x \in Priority, e \in Endpoint :
            ~(x = P /\ e = E) => n.queue[x][e] = m.queue[x][e]
      BY <1>8, <2>1, <2>4, <2>5
    <3>3. QED
      BY <2>1, <2>3, <2>6, <3>1, <3>2
  <2>8. QED
    BY <1>4, <2>7 DEF Waiting
<1>9. QED
  BY <1>3, <1>6, <1>7, <1>8

LEMMA ReleasePopFull ==
  ASSUME NEW c \in CreditQueueType, c.remaining_rounds >= 1,
         NEW st \in [Req -> LeafStage], LeafBusy(c, st),
         NEW r \in Req, NEW s \in {"none", "answered"}
  PROVE  LeafFull(Pop(DecrementInFlight(c, LeafEndpoint)).cq)
<1> DEFINE E == LeafEndpoint
           m == DecrementInFlight(c, E)
           n == Pop(m).cq
<1>1. /\ m \in CreditQueueType /\ m.remaining_rounds = c.remaining_rounds
      /\ m.queue = c.queue
      /\ m.in_flight = c.in_flight - 1
  BY LeafEndpointType, DecrementFacts
<1>2. LeafQueues(m, [st EXCEPT ![r] = s]) /\ [st EXCEPT ![r] = s] \in [Req -> LeafStage]
  BY QueuesRelease DEF LeafBusy, LeafStage
<1> HIDE DEF m
<1>3. /\ m.in_flight \in Int
      /\ \/ n.queue = m.queue /\ n.in_flight = m.in_flight
            /\ (~Waiting(m) \/ m.in_flight >= LeafLimit)
         \/ /\ n.in_flight = m.in_flight + 1
            /\ \E p \in Priority :
                 /\ m.queue[p][E] # <<>>
                 /\ n.queue = [m.queue EXCEPT ![p][E] = Tail(@)]
  BY <1>1, <1>2, PopFull
<1> HIDE DEF n
<1>4. SUFFICES ASSUME Waiting(n) PROVE n.in_flight >= LeafLimit
  BY DEF LeafFull, n, m
<1>5. LeafLimit \in Int /\ c.in_flight \in Int
  BY LeafLimitAssumption DEF CreditQueueType
<1>6. CASE n.queue = m.queue /\ n.in_flight = m.in_flight
           /\ (~Waiting(m) \/ m.in_flight >= LeafLimit)
  BY <1>4, <1>6 DEF Waiting
<1>7. ASSUME n.in_flight = m.in_flight + 1, NEW p \in Priority, m.queue[p][E] # <<>>
      PROVE  n.in_flight >= LeafLimit
  <2>1. Waiting(c)
    BY <1>1, <1>7, LeafEndpointType DEF Waiting
  <2>2. c.in_flight >= LeafLimit
    BY <2>1 DEF LeafBusy, LeafFull
  <2>3. QED
    BY <1>1, <1>5, <1>7, <2>2
<1>8. QED
  BY <1>3, <1>6, <1>7

LEMMA BusyPop ==
  ASSUME LeafInv, BusyInv, NEW d \in Downstream, NEW c \in CreditQueueType,
         c.remaining_rounds >= 1, NEW st \in [Req -> LeafStage],
         LeafQueues(c, st), LeafFull(Pop(c).cq), LeafCheckCreditTransmission(d, c, st)
  PROVE  BusyInv'
<1> DEFINE n == Pop(c).cq
           g == Pop(c).grant
           st2 == IF g = NoReq THEN st ELSE [st EXCEPT ![g] = "granted"]
<1>1. LeafQueues(n, st2)
  BY QueuesPop
<1>2. /\ leaf_cq' = [leaf_cq EXCEPT ![d] = n]
      /\ leaf_stage' = [leaf_stage EXCEPT ![d] = st2]
  BY DEF LeafCheckCreditTransmission
<1> HIDE DEF n, st2
<1>3. /\ leaf_cq'[d] = n /\ leaf_stage'[d] = st2
      /\ \A f \in Downstream \ {d} :
           leaf_cq'[f] = leaf_cq[f] /\ leaf_stage'[f] = leaf_stage[f]
  BY <1>2 DEF LeafInv
<1>4. LeafFull(n)
  BY DEF n
<1>5. \A f \in Downstream : LeafBusy(leaf_cq'[f], leaf_stage'[f])
  BY <1>1, <1>3, <1>4 DEF LeafBusy, BusyInv
<1>6. QED
  BY <1>5 DEF BusyInv, LeafBusy, LeafQueues, LeafEndpointLimits, LeafFull, Waiting

\* An event that changes no queue of a leaf and makes nobody wait.
LEMMA BusyQuiet ==
  ASSUME BusyInv, leaf_cq' = leaf_cq,
         \A d \in Downstream, r \in Req :
           leaf_stage'[d][r] = "queued" => leaf_stage[d][r] = "queued"
  PROVE  BusyInv'
<1>1. \A d \in Downstream : LeafBusy(leaf_cq[d], leaf_stage'[d])
  BY DEF BusyInv, LeafBusy, LeafQueues
<1>2. \A d \in Downstream : LeafBusy(leaf_cq'[d], leaf_stage'[d])
  BY <1>1
<1>3. QED
  BY <1>2 DEF BusyInv, LeafBusy, LeafQueues, LeafEndpointLimits, LeafFull, Waiting

LEMMA LeafPushType ==
  ASSUME NEW c \in CreditQueueType, c.remaining_rounds >= 1, NEW r \in Req,
         NEW P \in Priority
  PROVE  /\ Push(c, r, LeafEndpoint, P) \in CreditQueueType
         /\ Push(c, r, LeafEndpoint, P).remaining_rounds >= 1
<1> DEFINE n == Push(c, r, LeafEndpoint, P)
<1>1. n \in CreditQueueType /\ n.remaining_rounds = c.remaining_rounds
      /\ n.queue = [c.queue EXCEPT ![P][LeafEndpoint] = Append(@, r)]
  BY LeafEndpointType, PushFacts
<1>2. QED
  BY <1>1

LEMMA BusyLeafStep ==
  ASSUME PrioritiesInRange, LeafInv, BusyInv, NEW r \in Req, NEW d \in Downstream,
         LeafStep(r, d)
  PROVE  BusyInv'
<1>1. PICK c \in CreditQueueType : c = leaf_cq[d]
  BY DEF LeafInv
<1>2. PICK st \in [Req -> LeafStage] : st = leaf_stage[d]
  BY DEF LeafInv
<1>3. c.remaining_rounds >= 1 /\ LeafBusy(c, st) /\ LeafQueues(c, st)
  BY <1>1, <1>2 DEF LeafInv, LeafOK, BusyInv, LeafBusy
<1>4. CASE LeafRecvCreditRequest(r, d)
  <2>1. PICK P \in Priority : P = PriorityOf[r]
    BY DEF PrioritiesInRange
  <2> DEFINE st2 == [st EXCEPT ![r] = "queued"]
  <2>2. PICK u \in LeafLimitsMaybeUpdated(c) :
          LeafCheckCreditTransmission(d, Push(u, r, LeafEndpoint, P), st2)
    BY <1>1, <1>2, <1>4, <2>1 DEF LeafRecvCreditRequest
  <2>3. u \in CreditQueueType /\ u.remaining_rounds >= 1
    BY <1>3, LeafLimitsFacts
  <2>4. LeafBusy(u, st) /\ LeafQueues(u, st)
    BY <1>3, QueuesLimits DEF LeafBusy
  <2> DEFINE n == Push(u, r, LeafEndpoint, P)
  <2>5. LeafQueues(n, st2)
    BY <2>3, <2>4, QueuesPush
  <2>6. LeafFull(Pop(n).cq)
    BY <2>3, <2>4, PushPopFull
  <2>7. n \in CreditQueueType /\ n.remaining_rounds >= 1
    BY <2>3, LeafPushType
  <2>8. st2 \in [Req -> LeafStage]
    BY DEF LeafStage
  <2>9. LeafCheckCreditTransmission(d, n, st2)
    BY <2>2
  <2> HIDE DEF n, st2
  <2>10. QED
    BY <2>5, <2>6, <2>7, <2>8, <2>9, BusyPop
<1>5. ASSUME NEW s \in {"none", "answered"},
             LeafCheckCreditTransmission(d, DecrementInFlight(c, LeafEndpoint),
                                         [st EXCEPT ![r] = s])
      PROVE  BusyInv'
  <2> DEFINE n == DecrementInFlight(c, LeafEndpoint)
             st2 == [st EXCEPT ![r] = s]
  <2>1. LeafQueues(n, st2)
    BY <1>3, QueuesRelease
  <2>2. LeafFull(Pop(n).cq)
    BY <1>3, ReleasePopFull
  <2>3. n \in CreditQueueType /\ n.remaining_rounds = c.remaining_rounds
    BY LeafEndpointType, DecrementFacts
  <2>4. st2 \in [Req -> LeafStage]
    BY DEF LeafStage
  <2>5. LeafCheckCreditTransmission(d, n, st2)
    BY <1>5
  <2> HIDE DEF n, st2
  <2>6. QED
    BY <1>3, <2>1, <2>2, <2>3, <2>4, <2>5, BusyPop
<1>6. CASE LeafRecvCreditReturn(r, d) \/ LeafResponse(r, d)
  <2>1. \E s \in {"none", "answered"} :
          LeafCheckCreditTransmission(d, DecrementInFlight(c, LeafEndpoint),
                                      [st EXCEPT ![r] = s])
    BY <1>1, <1>2, <1>6 DEF LeafRecvCreditReturn, LeafResponse
  <2>2. QED
    BY <1>5, <2>1
<1>7. CASE LeafRecvRequest(r, d)
  <2>1. /\ leaf_cq' = leaf_cq
        /\ \A f \in Downstream, x \in Req :
             leaf_stage'[f][x] = "queued" => leaf_stage[f][x] = "queued"
    BY <1>7 DEF LeafRecvRequest, LeafInv
  <2>2. QED
    BY <2>1, BusyQuiet
<1>8. QED
  BY <1>4, <1>6, <1>7 DEF LeafStep

LEMMA SendMessagesQuiet ==
  ASSUME LeafInv, NEW r \in Req, SendMessages(r), NEW d \in Downstream, NEW x \in Req,
         leaf_stage'[d][x] = "queued"
  PROVE  leaf_stage[d][x] = "queued"
<1>1. leaf_stage \in [Downstream -> [Req -> LeafStage]]
  BY DEF LeafInv
<1>2. \A s, l : MessageFor(s, l) \in {"asked", "request", "return", l}
  BY DEF MessageFor
<1>3. leaf_stage'[d] = IF call'[r][d] = call[r][d] THEN leaf_stage[d]
        ELSE [leaf_stage[d] EXCEPT ![r] = MessageFor(call'[r][d], @)]
  BY DEF SendMessages
<1>4. \/ leaf_stage'[d][x] = leaf_stage[d][x]
      \/ leaf_stage'[d][x] = MessageFor(call'[r][d], leaf_stage[d][x])
  BY <1>1, <1>3
<1>5. QED
  BY <1>2, <1>4

LEMMA BusyNext ==
  ASSUME PrioritiesInRange, LeafInv, BusyInv, [MeshNext]_meshVars
  PROVE  BusyInv'
<1>1. CASE UNCHANGED meshVars
  BY <1>1, BusyQuiet DEF meshVars, leafVars
<1>2. ASSUME NEW r \in Req, MeshClientCreditRequest(r) \/ ParentStep(r) PROVE BusyInv'
  BY <1>2, BusyQuiet DEF MeshClientCreditRequest, ParentStep, leafVars
<1>3. ASSUME NEW r \in Req, NEW d \in Downstream,
             MeshSubRequest(r, d) \/ MeshRecvCreditGrant(r, d)
      PROVE  BusyInv'
  <2>1. SendMessages(r) /\ leaf_cq' = leaf_cq
    BY <1>3 DEF MeshSubRequest, MeshRecvCreditGrant
  <2>2. \A f \in Downstream, x \in Req :
          leaf_stage'[f][x] = "queued" => leaf_stage[f][x] = "queued"
    BY <2>1, SendMessagesQuiet
  <2>3. QED
    BY <2>1, <2>2, BusyQuiet
<1>4. ASSUME NEW r \in Req, NEW d \in Downstream, MeshRecvResponse(r, d) PROVE BusyInv'
  <2>1. /\ leaf_cq' = leaf_cq
        /\ \A f \in Downstream, x \in Req :
             leaf_stage'[f][x] = "queued" => leaf_stage[f][x] = "queued"
    BY <1>4 DEF MeshRecvResponse, LeafInv
  <2>2. QED
    BY <2>1, BusyQuiet
<1>5. ASSUME NEW r \in Req, NEW d \in Downstream, LeafStep(r, d) PROVE BusyInv'
  BY <1>5, BusyLeafStep
<1>6. QED
  BY <1>1, <1>2, <1>3, <1>4, <1>5 DEF MeshNext

LEMMA BusyInit == MeshInit => BusyInv
<1> SUFFICES ASSUME MeshInit, NEW d \in Downstream
             PROVE  LeafBusy(leaf_cq[d], leaf_stage[d])
  BY DEF BusyInv
<1> DEFINE c == EmptyCreditQueue([e \in Endpoint |-> LeafLimit], LeafLimit)
<1>1. leaf_cq[d] = c /\ leaf_stage[d] = [r \in Req |-> "none"]
  BY DEF MeshInit
<1>2. /\ \A p \in Priority, e \in Endpoint : c.queue[p][e] = <<>>
      /\ c.global_limit = LeafLimit /\ c.per_endpoint_limit = LeafEndpointLimits(LeafLimit)
      /\ c.in_flight_per_endpoint[LeafEndpoint] = c.in_flight
  BY LeafEndpointType DEF EmptyCreditQueue, LeafEndpointLimits
<1> HIDE DEF c
<1>3. LeafFull(c) /\ c.global_limit >= LeafLimit
  BY <1>2, LeafLimitAssumption DEF LeafFull, Waiting
<1>4. QED
  BY <1>1, <1>2, <1>3 DEF LeafBusy, LeafQueues

-----------------------------------------------------------------------------
(* No circular wait: who waits for whom *)

Movable == {r \in Req : CanMove(r)}
Holders(d) == {r \in Req : HoldsCredit(r, d)}

\* A leaf at which a request waits has given away as many credits as its smallest
\* limit allows, or more.
LEMMA FullLeaf ==
  ASSUME LeafInv, BusyInv, NEW r \in Req, NEW d \in Downstream,
         leaf_stage[d][r] = "queued"
  PROVE  Cardinality(Holders(d)) >= LeafLimit
<1> DEFINE c == leaf_cq[d]
<1>1. /\ LeafQueues(c, leaf_stage[d]) /\ LeafFull(c)
      /\ c.in_flight = Cardinality({x \in Req : leaf_stage[d][x] \in Holding})
  BY DEF LeafInv, LeafOK, BusyInv, LeafBusy
<1>2. Holders(d) = {x \in Req : leaf_stage[d][x] \in Holding}
  BY DEF Holders, HoldsCredit, Holding
<1>3. PICK p \in Priority : \E i \in DOMAIN c.queue[p][LeafEndpoint] :
        c.queue[p][LeafEndpoint][i] = r
  BY <1>1 DEF LeafQueues
<1>4. c.queue[p][LeafEndpoint] # <<>>
  BY <1>3
<1>5. Waiting(c)
  BY <1>4, LeafEndpointType DEF Waiting
<1>6. QED
  BY <1>1, <1>2, <1>5 DEF LeafFull

\* A holder of a credit that cannot move is a dfanout request that collects.
LEMMA StuckHolder ==
  ASSUME Inv, LeafInv, NEW x \in Req, NEW d \in Downstream,
         HoldsCredit(x, d), ~CanMove(x)
  PROVE  /\ call[x][d] = "granted" /\ stage[x] = "local"
         /\ FanoutOf(x) = "dfanout" /\ d \in DownstreamsOf(x)
<1>1. Matches(call[x][d], leaf_stage[d][x])
  BY DEF LeafInv
<1>2. leaf_stage[d][x] = "granted" /\ call[x][d] # "asked"
  BY DEF HoldsCredit, CanMove
<1>3. call[x][d] = "granted"
  BY <1>1, <1>2 DEF Matches
<1>4. FanoutOK(x)
  BY InvFacts
<1>5. stage[x] = "local" /\ d \in DownstreamsOf(x)
  BY <1>3, <1>4 DEF FanoutOK, NoCalls
<1>6. FanoutOf(x) \in FanoutKind
  BY ConfigAssumption DEF FanoutOf
<1>7. FanoutOf(x) = "dfanout"
  BY <1>3, <1>4, <1>6 DEF FanoutOK, FanoutKind, SequentialCalls, PfanoutCalls
<1>8. QED
  BY <1>3, <1>5, <1>7

\* A request in the parent's service that cannot move waits at a leaf.
LEMMA StuckLocal ==
  ASSUME Inv, LeafInv, NEW r \in Req, stage[r] = "local", ~CanMove(r)
  PROVE  \E d \in Downstream : leaf_stage[d][r] = "queued"
<1>1. ~MayRespond(r) /\ \A d \in DownstreamsOf(r) : ~MayCall(r, d)
  BY DEF CanMove
<1>2. FanoutOK(r) /\ call \in [Req -> [Downstream -> CallStage]]
  BY InvFacts DEF RpcTypeOK
<1>3. ASSUME NEW d \in Downstream, call[r][d] \in {"asked", "sent"}
      PROVE  leaf_stage[d][r] = "queued"
  <2>1. Matches(call[r][d], leaf_stage[d][r])
    BY DEF LeafInv
  <2>2. QED
    BY <1>3, <2>1 DEF Matches, CanMove
<1>4. DownstreamsOf(r) \subseteq Downstream
  BY ConfigAssumption DEF DownstreamsOf
<1>5. CASE FanoutOf(r) = "sequential"
  <2>1. \A d \in Downstream : call[r][d] \in {"none", "asked", "sent", "answered"}
    BY <1>2, <1>5 DEF FanoutOK, SequentialCalls
  <2>2. \E d \in Downstream : call[r][d] \notin {"none", "answered", "returned"}
    BY <1>1, <1>5 DEF MayRespond
  <2>3. QED
    BY <1>3, <2>1, <2>2
<1>6. CASE FanoutOf(r) = "pfanout"
  <2>1. \A d \in Downstream : call[r][d] \in {"none", "asked", "sent", "answered"}
    BY <1>2, <1>6 DEF FanoutOK, PfanoutCalls
  <2>2. \A d \in DownstreamsOf(r) : call[r][d] # "none"
    BY <1>1, <1>6 DEF MayCall
  <2>3. \E d \in DownstreamsOf(r) : call[r][d] # "answered"
    BY <1>1, <1>6 DEF MayRespond
  <2>4. QED
    BY <1>3, <1>4, <2>1, <2>2, <2>3
<1>7. CASE FanoutOf(r) = "dfanout"
  <2>1. DfanoutCalls(r)
    BY <1>2, <1>7 DEF FanoutOK
  <2>2. call[r] # NoCalls
    BY <1>1 DEF MayRespond
  <2>3. CASE \E d \in DownstreamsOf(r) : call[r][d] = "asked"
    BY <1>3, <1>4, <2>3
  <2>4. CASE /\ dfanout_service[r] \in DownstreamsOf(r)
             /\ Sent(r, dfanout_service[r])
             /\ \A d \in DownstreamsOf(r) \ {dfanout_service[r]} :
                  call[r][d] = "returned"
    <3>1. \A d \in Downstream \ DownstreamsOf(r) : call[r][d] = "none"
      BY <1>2 DEF FanoutOK
    <3>2. call[r][dfanout_service[r]] # "answered"
      <4>1. SUFFICES ASSUME call[r][dfanout_service[r]] = "answered" PROVE MayRespond(r)
        BY <1>1
      <4>2. \A d \in Downstream : call[r][d] \in {"none", "answered", "returned"}
        BY <2>4, <3>1, <4>1
      <4>3. QED
        BY <1>7, <4>2 DEF MayRespond
    <3>3. QED
      BY <1>3, <1>4, <2>4, <3>2 DEF Sent
  <2>5. QED
    BY <2>1, <2>2, <2>3, <2>4 DEF DfanoutCalls
<1>8. QED
  <2>1. FanoutOf(r) \in FanoutKind
    BY ConfigAssumption DEF FanoutOf
  <2>2. QED
    BY <1>5, <1>6, <1>7, <2>1 DEF FanoutKind

\* Of the credits a dfanout request waits for, one is held by a request that can
\* move: the others that could keep theirs are fewer than the credits given away.
LEMMA CollectorServed ==
  ASSUME Inv, LeafInv, BusyInv, DfanoutWithinLimits, NEW x \in Req, NEW d \in Downstream,
         FanoutOf(x) = "dfanout", leaf_stage[d][x] = "queued"
  PROVE  \E y \in Movable : HoldsCredit(y, d)
<1> DEFINE D == {r \in Req : FanoutOf(r) = "dfanout" /\ d \in DownstreamsOf(r)}
<1>1. SUFFICES ASSUME \A y \in Holders(d) : ~CanMove(y) PROVE FALSE
  BY DEF Movable, Holders
<1>2. d \in DownstreamsOf(x)
  <2>1. Matches(call[x][d], leaf_stage[d][x])
    BY DEF LeafInv
  <2>2. call[x][d] = "asked"
    BY <2>1 DEF Matches
  <2>3. FanoutOK(x)
    BY InvFacts
  <2>4. QED
    BY <2>2, <2>3 DEF FanoutOK
<1>3. Holders(d) \subseteq D \ {x}
  BY <1>1, StuckHolder DEF Holders, HoldsCredit
<1>4. x \in D /\ D \in SUBSET Req
  BY <1>2
<1>5. Cardinality(D) <= LeafLimit
  BY DEF DfanoutWithinLimits
<1> HIDE DEF D
<1>6. Cardinality(D \ {x}) = Cardinality(D) - 1 /\ Cardinality(D) \in Nat
  BY <1>4, HolderAdded
<1>7. Cardinality(Holders(d)) <= Cardinality(D \ {x})
  <2>1. IsFiniteSet(D \ {x})
    BY <1>4, ConfigAssumption, FS_Subset
  <2>2. QED
    BY <1>3, <2>1, FS_Subset
<1>8. /\ Cardinality(Holders(d)) >= LeafLimit /\ LeafLimit \in Nat
      /\ Cardinality(Holders(d)) \in Nat
  BY FullLeaf, LeafLimitAssumption, HolderAdded DEF Holders
<1>9. QED
  BY <1>5, <1>6, <1>7, <1>8

LEMMA HolderBehind ==
  ASSUME Inv, LeafInv, BusyInv, DfanoutWithinLimits, NEW x \in Req, NEW d \in Downstream,
         HoldsCredit(x, d)
  PROVE  x \in Behind(Movable)
<1>1. CASE CanMove(x)
  BY <1>1 DEF Movable, Behind
<1>2. CASE ~CanMove(x)
  <2>1. stage[x] = "local" /\ FanoutOf(x) = "dfanout"
    BY <1>2, StuckHolder
  <2>2. \E f \in Downstream : leaf_stage[f][x] = "queued"
    BY <1>2, <2>1, StuckLocal
  <2>3. \A f \in Downstream :
          leaf_stage[f][x] = "queued" => \E y \in Movable : HoldsCredit(y, f)
    BY <2>1, CollectorServed
  <2>4. WaitsFor(x, Movable)
    BY <2>1, <2>2, <2>3 DEF WaitsFor
  <2>5. QED
    BY <2>4 DEF Behind
<1>3. QED
  BY <1>1, <1>2

LEMMA LocalBehind ==
  ASSUME Inv, LeafInv, BusyInv, DfanoutWithinLimits, NEW r \in Req, stage[r] = "local"
  PROVE  r \in Behind(Behind(Movable))
<1>1. CASE CanMove(r)
  BY <1>1 DEF Movable, Behind
<1>2. CASE ~CanMove(r)
  <2>1. \E d \in Downstream : leaf_stage[d][r] = "queued"
    BY <1>2, StuckLocal
  <2>2. ASSUME NEW d \in Downstream, leaf_stage[d][r] = "queued"
        PROVE  \E x \in Behind(Movable) : HoldsCredit(x, d)
    <3>1. Cardinality(Holders(d)) >= LeafLimit /\ LeafLimit \in Nat \ {0}
      BY <2>2, FullLeaf, LeafLimitAssumption
    <3>2. Holders(d) # {}
      BY <3>1, FS_EmptySet
    <3>3. PICK x \in Req : HoldsCredit(x, d)
      BY <3>2 DEF Holders
    <3>4. x \in Behind(Movable)
      BY <3>3, HolderBehind
    <3>5. QED
      BY <3>3, <3>4
  <2>3. WaitsFor(r, Behind(Movable))
    BY <2>1, <2>2 DEF WaitsFor
  <2>4. QED
    BY <2>3 DEF Behind
<1>3. QED
  BY <1>1, <1>2

LEMMA QueuedBehind ==
  ASSUME Inv, LeafInv, BusyInv, DfanoutWithinLimits, NEW r \in Req, stage[r] = "queued"
  PROVE  r \in Behind(Behind(Behind(Movable)))
<1>1. cq.in_flight >= 1
  <2>1. QueueMatches(cq.queue, stage) /\ NoStrandedRequest /\ ServiceOf[r] \in Endpoint
    BY ConfigAssumption DEF Inv, QueueOK
  <2>2. cq.queue[PriorityOf[r]][ServiceOf[r]] # <<>> /\ PriorityOf[r] \in Priority
    BY <2>1 DEF QueueMatches
  <2>3. QED
    BY <2>1, <2>2 DEF NoStrandedRequest, Waiting
<1>2. PICK x \in Req : Occupies(x)
  <2>1. SUFFICES ASSUME OccupyingRequests = {} PROVE FALSE
    BY DEF OccupyingRequests
  <2>2. \A y \in Req : OccupiesTwo(y) => Occupies(y)
    BY DEF OccupiesTwo, Occupies
  <2>3. TwoSlotRequests = {}
    BY <2>1, <2>2 DEF OccupyingRequests, TwoSlotRequests
  <2>4. cq.in_flight = Cardinality(OccupyingRequests) + Cardinality(TwoSlotRequests)
    BY DEF Inv, QueueOK, Counts
  <2>5. QED
    BY <1>1, <2>1, <2>3, <2>4, FS_EmptySet
<1>3. x \in Behind(Behind(Movable))
  <2>1. CASE stage[x] = "local"
    BY <2>1, LocalBehind
  <2>2. CASE stage[x] = "granted"
    BY <2>2 DEF CanMove, Movable, Behind
  <2>3. QED
    BY <1>2, <2>1, <2>2 DEF Occupies
<1>4. \A d \in Downstream : leaf_stage[d][r] # "queued"
  <2>1. FanoutOK(r)
    BY InvFacts
  <2>2. \A d \in Downstream : call[r][d] = "none" /\ Matches(call[r][d], leaf_stage[d][r])
    BY <2>1 DEF FanoutOK, NoCalls, LeafInv
  <2>3. QED
    BY <2>2 DEF Matches
<1>5. WaitsFor(r, Behind(Behind(Movable)))
  BY <1>2, <1>3, <1>4 DEF WaitsFor
<1>6. QED
  BY <1>5 DEF Behind

\* Every step of the mesh keeps the leaves with waiting requests busy.
LEMMA BusyInvariance ==
  ASSUME PrioritiesInRange
  PROVE  MeshSpec => []BusyInv
<1>1. LeafInv /\ BusyInv /\ [MeshNext]_meshVars => BusyInv'
  BY BusyNext
<1>2. QED
  BY <1>1, BusyInit, MeshInvariance, PTL DEF MeshSpec

\* If no leaf can be asked for credits by more dfanout requests than its smallest
\* limit, no set of requests waits for each other: through at most three queues
\* every request gets to one that can move, also while the leaves change their
\* limits.  rlp_logic.md claims that timeouts are not needed; mesh_deadlock shows
\* that without the condition they are.
THEOREM WaitsAreNotCircular ==
  ASSUME PrioritiesInRange, DfanoutWithinLimits
  PROVE  MeshSpec => []NoCircularWait
<1>1. Inv /\ LeafInv /\ BusyInv => NoCircularWait
  <2> SUFFICES ASSUME Inv, LeafInv, BusyInv, NEW r \in Req, stage[r] # "none"
               PROVE  r \in Behind(Behind(Behind(Movable)))
    BY DEF NoCircularWait, Movable
  <2>1. stage[r] \in Stage
    BY DEF Inv, TypeOK
  <2>2. CASE stage[r] \in {"asked", "granted"}
    BY <2>2 DEF CanMove, Movable, Behind
  <2>3. CASE stage[r] = "local"
    <3>1. r \in Behind(Behind(Movable))
      BY <2>3, LocalBehind
    <3>2. QED
      BY <3>1 DEF Behind
  <2>4. CASE stage[r] = "queued"
    BY <2>4, QueuedBehind
  <2>5. QED
    BY <2>1, <2>2, <2>3, <2>4 DEF Stage
<1>2. QED
  BY <1>1, MeshInvariance, BusyInvariance, PTL

-----------------------------------------------------------------------------
(* A leaf sidecar is a sidecar *)

\* The credit queue of a leaf is the same data type as the one of the parent.
LEMMA SameSets ==
  ASSUME NEW d
  PROVE  /\ Leaf(d)!Priority = Priority /\ Leaf(d)!Endpoint = Endpoint
         /\ Leaf(d)!Weight = Weight /\ Leaf(d)!PriorityCount = PriorityCount
  BY DEF Leaf!Priority, Priority, Leaf!Endpoint, Endpoint, Leaf!Weight, Weight,
         Leaf!PriorityCount, PriorityCount

LEMMA SameChoice ==
  ASSUME NEW d, NEW c
  PROVE  /\ \A p, e : Leaf(d)!Eligible(c, p, e) <=> Eligible(c, p, e)
         /\ \A p : Leaf(d)!EligiblePriority(c, p) <=> EligiblePriority(c, p)
         /\ Leaf(d)!CanGrant(c) <=> CanGrant(c)
         /\ Leaf(d)!Waiting(c) <=> Waiting(c)
  BY SameSets
  DEF Leaf!Eligible, Eligible, Leaf!EligiblePriority, EligiblePriority,
      Leaf!CanGrant, CanGrant, Leaf!Waiting, Waiting

LEMMA SameFirst ==
  ASSUME NEW d, NEW i, NEW S, NEW n
  PROVE  Leaf(d)!FirstFrom(i, S, n) = FirstFrom(i, S, n)
  BY DEF Leaf!FirstFrom, FirstFrom, Leaf!Steps, Steps

LEMMA SamePlaces ==
  ASSUME NEW d, NEW c
  PROVE  /\ Leaf(d)!PopPriority(c) = PopPriority(c)
         /\ \A p : Leaf(d)!PopEndpoint(c, p) = PopEndpoint(c, p)
<1>1. {p \in Leaf(d)!Priority : Leaf(d)!EligiblePriority(c, p)}
        = {p \in Priority : EligiblePriority(c, p)}
  BY SameSets, SameChoice
<1>2. ASSUME NEW p
      PROVE  {e \in Leaf(d)!Endpoint : Leaf(d)!Eligible(c, p, e)}
               = {e \in Endpoint : Eligible(c, p, e)}
  BY SameSets, SameChoice
<1>3. Leaf(d)!PopPriority(c) = PopPriority(c)
  BY <1>1, SameFirst, SameSets DEF Leaf!PopPriority, PopPriority
<1>4. ASSUME NEW p PROVE Leaf(d)!PopEndpoint(c, p) = PopEndpoint(c, p)
  BY <1>2, SameFirst DEF Leaf!PopEndpoint, PopEndpoint
<1>5. QED
  BY <1>3, <1>4

LEMMA SameGrant ==
  ASSUME NEW d, NEW c, NEW p, NEW e
  PROVE  Leaf(d)!Granted(c, p, e) = Granted(c, p, e)
<1>1. /\ Leaf(d)!Rounds(c, p) = Rounds(c, p)
      /\ Leaf(d)!NextPriority(p) = NextPriority(p)
      /\ Leaf(d)!NextEndpoint(e) = NextEndpoint(e)
  BY SameSets DEF Leaf!Rounds, Rounds, Leaf!NextPriority, NextPriority,
                  Leaf!NextEndpoint, NextEndpoint
<1>2. QED
  BY <1>1, SameSets DEF Leaf!Granted, Granted

LEMMA SameOperations ==
  ASSUME NEW d, NEW c
  PROVE  /\ Leaf(d)!Pop(c) = Pop(c)
         /\ \A r, e, p : Leaf(d)!Push(c, r, e, p) = Push(c, r, e, p)
         /\ \A e : Leaf(d)!DecrementInFlight(c, e) = DecrementInFlight(c, e)
         /\ \A l, e : Leaf(d)!UpdateEndpointLimit(c, l, e) = UpdateEndpointLimit(c, l, e)
         /\ \A l : Leaf(d)!UpdateGlobalLimit(c, l) = UpdateGlobalLimit(c, l)
<1>1. Leaf(d)!Pop(c) = Pop(c)
  BY SameChoice, SamePlaces, SameGrant, SameSets
  DEF Leaf!Pop, Pop, Leaf!Unsuccessful, Unsuccessful
<1>2. QED
  BY <1>1 DEF Leaf!Push, Push, Leaf!DecrementInFlight, DecrementInFlight,
              Leaf!UpdateEndpointLimit, UpdateEndpointLimit,
              Leaf!UpdateGlobalLimit, UpdateGlobalLimit

\* The stages of a sidecar's clients, given the stages st of one leaf.
Clients(st) == [x \in Req |-> ClientStage(st[x])]

\* A leaf at which no sub-request moves.
LEMMA LeafAlone ==
  ASSUME NEW d \in Downstream, leaf_cq'[d] = leaf_cq[d],
         Clients(leaf_stage'[d]) = Clients(leaf_stage[d])
  PROVE  UNCHANGED Leaf(d)!vars
  BY DEF Leaf!vars, Clients

LEMMA LeafStageIs ==
  ASSUME NEW d \in Downstream, NEW st, st = leaf_stage[d]
  PROVE  [r \in Req |-> ClientStage(leaf_stage[d][r])] = Clients(st)
  BY DEF Clients

\* check_credit_transmission of a leaf is the one of a sidecar.
LEMMA LeafChecks ==
  ASSUME LeafInv, NEW d \in Downstream, NEW c, NEW st, LeafOK(c, st),
         LeafCheckCreditTransmission(d, c, st)
  PROVE  Leaf(d)!CheckCreditTransmission(c, Clients(st))
<1>1. PICK n : n = Pop(c).cq
  OBVIOUS
<1>2. PICK g : g = Pop(c).grant
  OBVIOUS
<1>3. /\ leaf_cq' = [leaf_cq EXCEPT ![d] = n]
      /\ leaf_stage' = [leaf_stage EXCEPT ![d] =
           IF g = NoReq THEN st ELSE [st EXCEPT ![g] = "granted"]]
  BY <1>1, <1>2 DEF LeafCheckCreditTransmission
<1>4. PICK st2 : st2 = IF g = NoReq THEN st ELSE [st EXCEPT ![g] = "granted"]
  OBVIOUS
<1>5. leaf_cq'[d] = n /\ leaf_stage'[d] = st2
  BY <1>3, <1>4 DEF LeafInv
<1>6. st \in [Req -> LeafStage]
  BY DEF LeafOK
<1>7. Clients(st2) = IF g = NoReq THEN Clients(st)
                     ELSE [Clients(st) EXCEPT ![g] = "granted"]
  <2>1. ClientStage("granted") = "granted"
    BY DEF ClientStage
  <2>2. Clients([st EXCEPT ![g] = "granted"]) = [Clients(st) EXCEPT ![g] = "granted"]
    BY <1>6, <2>1 DEF Clients
  <2>3. QED
    BY <1>4, <2>2
<1>8. [r \in Req |-> ClientStage(leaf_stage'[d][r])] = Clients(st2)
  BY <1>5 DEF Clients
<1>9. Leaf(d)!Pop(c) = Pop(c)
  BY SameOperations
<1>10. QED
  BY <1>1, <1>2, <1>5, <1>7, <1>8, <1>9 DEF Leaf!CheckCreditTransmission

LEMMA RpcsAlone ==
  ASSUME NEW d \in Downstream
  PROVE  UNCHANGED Leaf(d)!rpcVars
  BY DEF Leaf!rpcVars

\* update_limits of a leaf is the one of a sidecar that hosts one service.
LEMMA LeafLimitsAre ==
  ASSUME NEW d \in Downstream, NEW c \in CreditQueueType,
         c.per_endpoint_limit = LeafEndpointLimits(c.global_limit),
         NEW n \in LeafLimitsMaybeUpdated(c)
  PROVE  n \in Leaf(d)!LimitsMaybeUpdated(c, LeafEndpoint)
<1>1. CASE n = c
  BY <1>1 DEF Leaf!LimitsMaybeUpdated
<1>2. ASSUME NEW k \in LeafRatios, NEW l, l = LeafLimit + k - 1,
             n = LeafUpdateLimits(c, l)
      PROVE  n = Leaf(d)!UpdateLimits(c, LeafEndpoint, k)
  <2>1. l \in LeafLimits /\ l \in Int /\ k \in Int /\ LeafLimit \in Int
    BY <1>2, LeafLimitAssumption DEF LeafLimits
  <2>2. Leaf(d)!NewLimit(LeafEndpoint, k) = l
    <3>1. /\ [e \in Endpoint |-> {}][LeafEndpoint] = {}
          /\ [e \in Endpoint |-> "sequential"][LeafEndpoint] = "sequential"
      BY LeafEndpointType
    <3>2. Leaf(d)!Cardinality({}) = 0
      <4>1. Leaf(d)!Cardinality({}) = Cardinality({})
        BY DEF Leaf!Cardinality, Cardinality
      <4>2. QED
        BY <4>1, FS_EmptySet
    <3>3. Leaf(d)!NewLimit(LeafEndpoint, k) = (k + 1) * 1 + (LeafLimit - 2) + 0
      BY <3>1, <3>2 DEF Leaf!NewLimit
    <3>4. QED
      BY <1>2, <2>1, <3>3
  <2> DEFINE u == UpdateEndpointLimit(c, l, LeafEndpoint)
  <2>3. u.per_endpoint_limit = [c.per_endpoint_limit EXCEPT ![LeafEndpoint] = l]
    BY <2>1, LeafEndpointType, LimitFacts
  <2>4. u.per_endpoint_limit
          = [e \in Endpoint |-> IF e = LeafEndpoint THEN l ELSE LeafLimit]
    BY <2>3 DEF LeafEndpointLimits
  <2>5. Leaf(d)!UpdateEndpointLimit(c, Leaf(d)!NewLimit(LeafEndpoint, k), LeafEndpoint) = u
    BY <2>2, SameOperations
  <2> HIDE DEF u
  <2>6. Leaf(d)!LeafGlobalLimit(u.per_endpoint_limit) = l
    BY <2>1, <2>4, LeafGlobalLimitAssumption
  <2>7. Leaf(d)!UpdateGlobalLimit(u, l) = UpdateGlobalLimit(u, l)
    BY SameOperations
  <2>8. Leaf(d)!UpdateLimits(c, LeafEndpoint, k) = UpdateGlobalLimit(u, l)
    BY <2>5, <2>6, <2>7 DEF Leaf!UpdateLimits, Leaf!IsLeaf
  <2>9. QED
    BY <1>2, <2>8 DEF LeafUpdateLimits, u
<1>3. QED
  BY <1>1, <1>2 DEF LeafLimitsMaybeUpdated, LeafLimits, Leaf!LimitsMaybeUpdated

LEMMA LeafRecvCreditRequestIs ==
  ASSUME PrioritiesInRange, LeafInv, BusyInv, NEW r \in Req, NEW d \in Downstream,
         LeafRecvCreditRequest(r, d)
  PROVE  Leaf(d)!RecvCreditRequest(r)
<1>1. PICK c \in CreditQueueType : c = leaf_cq[d]
  BY DEF LeafInv
<1>2. PICK st \in [Req -> LeafStage] : st = leaf_stage[d]
  BY DEF LeafInv
<1>3. LeafOK(c, st) /\ st[r] = "asked"
  BY <1>1, <1>2 DEF LeafInv, LeafRecvCreditRequest
<1>4. PriorityOf[r] \in Priority
  BY DEF PrioritiesInRange
<1> DEFINE st1 == [st EXCEPT ![r] = "queued"]
<1>5. PICK n \in LeafLimitsMaybeUpdated(c) :
        LeafCheckCreditTransmission(d, Push(n, r, LeafEndpoint, PriorityOf[r]), st1)
  BY <1>1, <1>2 DEF LeafRecvCreditRequest
<1> DEFINE c1 == Push(n, r, LeafEndpoint, PriorityOf[r])
<1>6. LeafOK(c1, st1) /\ LeafCheckCreditTransmission(d, c1, st1)
  BY <1>3, <1>4, <1>5, LeafLimitsOK, LeafPush
<1>7. Clients(st1) = [Clients(st) EXCEPT ![r] = "queued"]
  <2>1. ClientStage("queued") = "queued"
    BY DEF ClientStage
  <2>2. QED
    BY <2>1 DEF Clients
<1>8. Clients(st)[r] = "asked"
  BY <1>3 DEF Clients, ClientStage
<1> HIDE DEF st1
<1>9. Leaf(d)!CheckCreditTransmission(c1, [Clients(st) EXCEPT ![r] = "queued"])
  <2> HIDE DEF c1
  <2>1. Leaf(d)!CheckCreditTransmission(c1, Clients(st1))
    BY <1>6, LeafChecks
  <2>2. QED
    BY <1>7, <2>1
<1>10. Leaf(d)!Push(n, r, LeafEndpoint, PriorityOf[r]) = c1
  BY SameOperations
<1>11. [x \in Req |-> ClientStage(leaf_stage[d][x])] = Clients(st)
  BY <1>2, LeafStageIs
<1>12. n \in Leaf(d)!LimitsMaybeUpdated(leaf_cq[d], LeafEndpoint)
  BY <1>1, LeafLimitsAre DEF BusyInv, LeafBusy, LeafQueues
<1>13. PriorityOf[r] \in Leaf(d)!Priority
  BY <1>4, SameSets
<1>14. [x \in Req |-> LeafEndpoint][r] = LeafEndpoint
  OBVIOUS
<1> HIDE DEF c1
<1>15. QED
  BY <1>1, <1>8, <1>9, <1>10, <1>11, <1>12, <1>13, <1>14, RpcsAlone
  DEF Leaf!RecvCreditRequest

\* The two handlers of a leaf that free a slot.
LEMMA LeafReleaseIs ==
  ASSUME LeafInv, NEW r \in Req, NEW d \in Downstream, NEW s \in {"none", "answered"},
         leaf_stage[d][r] \in Holding,
         LeafCheckCreditTransmission(d, DecrementInFlight(leaf_cq[d], LeafEndpoint),
                                     [leaf_stage[d] EXCEPT ![r] = s])
  PROVE  Leaf(d)!CheckCreditTransmission(
           Leaf(d)!DecrementInFlight(leaf_cq[d], LeafEndpoint),
           [[x \in Req |-> ClientStage(leaf_stage[d][x])] EXCEPT ![r] = "none"])
<1>1. PICK c \in CreditQueueType : c = leaf_cq[d]
  BY DEF LeafInv
<1>2. PICK st \in [Req -> LeafStage] : st = leaf_stage[d]
  BY DEF LeafInv
<1>3. LeafOK(c, st) /\ st[r] \in Holding
  BY <1>1, <1>2 DEF LeafInv
<1> DEFINE c1 == DecrementInFlight(c, LeafEndpoint)
           st1 == [st EXCEPT ![r] = s]
<1>4. LeafOK(c1, st1)
  BY <1>3, LeafRelease
<1>5. LeafCheckCreditTransmission(d, c1, st1)
  BY <1>1, <1>2
<1>6. Clients(st1) = [Clients(st) EXCEPT ![r] = "none"]
  <2>1. ClientStage(s) = "none"
    BY DEF ClientStage
  <2>2. QED
    BY <2>1 DEF Clients
<1>7. Leaf(d)!DecrementInFlight(c, LeafEndpoint) = c1
  BY SameOperations
<1>8. [x \in Req |-> ClientStage(leaf_stage[d][x])] = Clients(st)
  BY <1>2, LeafStageIs
<1> HIDE DEF c1, st1
<1>9. Leaf(d)!CheckCreditTransmission(c1, [Clients(st) EXCEPT ![r] = "none"])
  <2>1. Leaf(d)!CheckCreditTransmission(c1, Clients(st1))
    BY <1>4, <1>5, LeafChecks
  <2>2. QED
    BY <1>6, <2>1
<1>10. QED
  BY <1>1, <1>7, <1>8, <1>9

LEMMA LeafRecvCreditReturnIs ==
  ASSUME LeafInv, NEW r \in Req, NEW d \in Downstream, LeafRecvCreditReturn(r, d)
  PROVE  Leaf(d)!RecvCreditReturn(r)
<1>1. PICK s \in {"none", "answered"} : s = "none"
  OBVIOUS
<1>2. leaf_stage[d][r] = "return"
  BY DEF LeafRecvCreditReturn
<1>3. LeafCheckCreditTransmission(d, DecrementInFlight(leaf_cq[d], LeafEndpoint),
                                  [leaf_stage[d] EXCEPT ![r] = s])
  BY <1>1 DEF LeafRecvCreditReturn
<1>4. Leaf(d)!CheckCreditTransmission(
        Leaf(d)!DecrementInFlight(leaf_cq[d], LeafEndpoint),
        [[x \in Req |-> ClientStage(leaf_stage[d][x])] EXCEPT ![r] = "none"])
  BY <1>2, <1>3, LeafReleaseIs DEF Holding
<1>5. [x \in Req |-> ClientStage(leaf_stage[d][x])][r] = "granted"
  BY <1>2 DEF ClientStage
<1>6. [x \in Req |-> LeafEndpoint][r] = LeafEndpoint
  OBVIOUS
<1>7. QED
  BY <1>4, <1>5, <1>6, RpcsAlone DEF Leaf!RecvCreditReturn

LEMMA LeafResponseIs ==
  ASSUME LeafInv, NEW r \in Req, NEW d \in Downstream, LeafResponse(r, d)
  PROVE  Leaf(d)!LocalResponse(r)
<1>1. PICK s \in {"none", "answered"} : s = "answered"
  OBVIOUS
<1>2. leaf_stage[d][r] = "local"
  BY DEF LeafResponse
<1>3. LeafCheckCreditTransmission(d, DecrementInFlight(leaf_cq[d], LeafEndpoint),
                                  [leaf_stage[d] EXCEPT ![r] = s])
  BY <1>1 DEF LeafResponse
<1>4. Leaf(d)!CheckCreditTransmission(
        Leaf(d)!DecrementInFlight(leaf_cq[d], LeafEndpoint),
        [[x \in Req |-> ClientStage(leaf_stage[d][x])] EXCEPT ![r] = "none"])
  BY <1>2, <1>3, LeafReleaseIs DEF Holding
<1>5. [x \in Req |-> ClientStage(leaf_stage[d][x])][r] = "local"
  BY <1>2 DEF ClientStage
<1>6. [x \in Req |-> LeafEndpoint][r] = LeafEndpoint
  OBVIOUS
<1>7. Leaf(d)!MayRespond(r)
  BY DEF Leaf!MayRespond, Leaf!NoCalls
<1>8. QED
  BY <1>4, <1>5, <1>6, <1>7 DEF Leaf!LocalResponse, Leaf!NoCalls, Leaf!NoService, NoService

LEMMA LeafRecvRequestIs ==
  ASSUME LeafInv, NEW r \in Req, NEW d \in Downstream, LeafRecvRequest(r, d)
  PROVE  Leaf(d)!RecvRequest(r)
<1>1. PICK st \in [Req -> LeafStage] : st = leaf_stage[d]
  BY DEF LeafInv
<1>2. /\ st[r] = "request" /\ leaf_cq' = leaf_cq
      /\ leaf_stage'[d] = [st EXCEPT ![r] = "local"]
  BY <1>1 DEF LeafRecvRequest, LeafInv
<1>3. Clients([st EXCEPT ![r] = "local"]) = [Clients(st) EXCEPT ![r] = "local"]
  <2>1. ClientStage("local") = "local"
    BY DEF ClientStage
  <2>2. QED
    BY <2>1 DEF Clients
<1>4. Clients(st)[r] = "granted"
  BY <1>2 DEF Clients, ClientStage
<1>5. [x \in Req |-> ClientStage(leaf_stage[d][x])] = Clients(st)
  BY <1>1, LeafStageIs
<1>6. [x \in Req |-> ClientStage(leaf_stage'[d][x])] = [Clients(st) EXCEPT ![r] = "local"]
  BY <1>2, <1>3 DEF Clients
<1>7. QED
  BY <1>2, <1>4, <1>5, <1>6, RpcsAlone DEF Leaf!RecvRequest

LEMMA LeafStepIs ==
  ASSUME PrioritiesInRange, LeafInv, BusyInv, NEW r \in Req, NEW d \in Downstream,
         LeafStep(r, d)
  PROVE  Leaf(d)!Next
  BY LeafRecvCreditRequestIs, LeafRecvCreditReturnIs, LeafRecvRequestIs, LeafResponseIs
  DEF LeafStep, Leaf!Next

LEMMA OtherLeavesAlone ==
  ASSUME LeafInv, NEW r \in Req, NEW d \in Downstream, LeafStep(r, d),
         NEW f \in Downstream, f # d
  PROVE  UNCHANGED Leaf(f)!vars
<1>1. leaf_cq'[f] = leaf_cq[f] /\ leaf_stage'[f] = leaf_stage[f]
  BY DEF LeafInv, LeafStep, LeafRecvCreditRequest, LeafRecvCreditReturn, LeafRecvRequest,
         LeafResponse, LeafCheckCreditTransmission
<1>2. QED
  BY <1>1, LeafAlone

\* To a leaf, the parent is a client that asks, or that still has its credits.
LEMMA SendMessagesIs ==
  ASSUME LeafInv, NEW r \in Req, SendMessages(r), leaf_cq' = leaf_cq, CallsMove(r),
         NEW f \in Downstream
  PROVE  [Leaf(f)!Next]_(Leaf(f)!vars)
<1>1. PICK st \in [Req -> LeafStage] : st = leaf_stage[f]
  BY DEF LeafInv
<1>2. CASE call'[r][f] = call[r][f]
  <2>1. leaf_stage'[f] = leaf_stage[f]
    BY <1>2 DEF SendMessages
  <2>2. QED
    BY <2>1, LeafAlone
<1>3. CASE call'[r][f] # call[r][f]
  <2>1. leaf_stage'[f] = [st EXCEPT ![r] = MessageFor(call'[r][f], st[r])]
    BY <1>1, <1>3 DEF SendMessages
  <2>2. \/ call'[r][f] = "asked" /\ st[r] = "none"
        \/ call'[r][f] \in {"granted", "sent", "returned"} /\ st[r] = "granted"
    BY <1>1, <1>3 DEF CallsMove, Allowed
  <2>3. CASE call'[r][f] = "asked" /\ st[r] = "none"
    <3>1. leaf_stage'[f] = [st EXCEPT ![r] = "asked"]
      BY <2>1, <2>3 DEF MessageFor
    <3>2. ClientStage("asked") = "asked" /\ ClientStage("none") = "none"
      BY DEF ClientStage
    <3>3. [x \in Req |-> ClientStage(leaf_stage'[f][x])] = [Clients(st) EXCEPT ![r] = "asked"]
      BY <3>1, <3>2 DEF Clients
    <3>4. [x \in Req |-> ClientStage(leaf_stage[f][x])] = Clients(st)
      BY <1>1, LeafStageIs
    <3>5. Clients(st)[r] = "none"
      BY <2>3, <3>2 DEF Clients
    <3>6. Leaf(f)!ClientCreditRequest(r)
      BY <3>3, <3>4, <3>5, RpcsAlone DEF Leaf!ClientCreditRequest
    <3>7. QED
      BY <3>6 DEF Leaf!Next
  <2>4. CASE call'[r][f] \in {"granted", "sent", "returned"} /\ st[r] = "granted"
    <3>1. PICK s \in {"granted", "request", "return"} : s = MessageFor(call'[r][f], st[r])
      BY <2>4 DEF MessageFor
    <3>2. leaf_stage'[f] = [st EXCEPT ![r] = s]
      BY <2>1, <3>1
    <3>3. ClientStage(s) = ClientStage(st[r])
      BY <2>4 DEF ClientStage
    <3>4. Clients(leaf_stage'[f]) = Clients(leaf_stage[f])
      BY <1>1, <3>2, <3>3 DEF Clients
    <3>5. QED
      BY <3>4, LeafAlone
  <2>5. QED
    BY <2>2, <2>3, <2>4
<1>4. QED
  BY <1>2, <1>3

LEMMA MeshRecvResponseIs ==
  ASSUME LeafInv, NEW r \in Req, NEW d \in Downstream, MeshRecvResponse(r, d),
         NEW f \in Downstream
  PROVE  UNCHANGED Leaf(f)!vars
<1>1. /\ leaf_stage[d][r] = "answered" /\ leaf_cq' = leaf_cq
      /\ leaf_stage' = [leaf_stage EXCEPT ![d] = [@ EXCEPT ![r] = "none"]]
      /\ leaf_stage \in [Downstream -> [Req -> LeafStage]]
  BY DEF MeshRecvResponse, LeafInv
<1>2. ClientStage("answered") = ClientStage("none")
  BY DEF ClientStage
<1>3. \A x \in Req : ClientStage(leaf_stage'[f][x]) = ClientStage(leaf_stage[f][x])
  BY <1>1, <1>2
<1>4. Clients(leaf_stage'[f]) = Clients(leaf_stage[f])
  BY <1>3 DEF Clients
<1>5. QED
  BY <1>1, <1>4, LeafAlone

LEMMA LeavesStep ==
  ASSUME PrioritiesInRange, Inv, Inv', LeafInv, BusyInv, [MeshNext]_meshVars,
         NEW f \in Downstream
  PROVE  [Leaf(f)!Next]_(Leaf(f)!vars)
<1>1. CASE UNCHANGED leafVars
  BY <1>1, LeafAlone DEF leafVars
<1>2. ASSUME NEW r \in Req, MeshClientCreditRequest(r) \/ ParentStep(r)
      PROVE  UNCHANGED leafVars
  BY <1>2 DEF MeshClientCreditRequest, ParentStep
<1>3. ASSUME NEW r \in Req, NEW d \in Downstream, MeshSubRequest(r, d)
      PROVE  [Leaf(f)!Next]_(Leaf(f)!vars)
  BY <1>3, MeshSubRequestMoves, SendMessagesIs DEF MeshSubRequest
<1>4. ASSUME NEW r \in Req, NEW d \in Downstream, MeshRecvCreditGrant(r, d)
      PROVE  [Leaf(f)!Next]_(Leaf(f)!vars)
  BY <1>4, MeshRecvCreditGrantMoves, SendMessagesIs DEF MeshRecvCreditGrant
<1>5. ASSUME NEW r \in Req, NEW d \in Downstream, MeshRecvResponse(r, d)
      PROVE  [Leaf(f)!Next]_(Leaf(f)!vars)
  BY <1>5, MeshRecvResponseIs
<1>6. ASSUME NEW r \in Req, NEW d \in Downstream, LeafStep(r, d)
      PROVE  [Leaf(f)!Next]_(Leaf(f)!vars)
  BY <1>6, LeafStepIs, OtherLeavesAlone
<1>7. QED
  BY <1>1, <1>2, <1>3, <1>4, <1>5, <1>6 DEF MeshNext, meshVars

LEMMA LeavesInit ==
  ASSUME MeshInit, NEW d \in Downstream
  PROVE  Leaf(d)!Init
<1> DEFINE limit == [e \in Endpoint |-> LeafLimit]
<1>1. leaf_cq[d] = EmptyCreditQueue(limit, LeafLimit)
  BY DEF MeshInit
<1>2. [r \in Req |-> ClientStage(leaf_stage[d][r])] = [r \in Req |-> "none"]
  BY DEF MeshInit, ClientStage
<1>3. Leaf(d)!InitialLimit = LeafLimit /\ Leaf(d)!IsLeaf
  BY LeafLimitAssumption DEF Leaf!InitialLimit, Leaf!IsLeaf
<1>4. Leaf(d)!LeafGlobalLimit(limit) = LeafLimit
  <2>1. limit = [e \in Endpoint |-> IF e = LeafEndpoint THEN LeafLimit ELSE LeafLimit]
    OBVIOUS
  <2>2. QED
    BY <2>1, LeafGlobalLimitAssumption
<1>5. Leaf(d)!EmptyCreditQueue(limit, LeafLimit) = EmptyCreditQueue(limit, LeafLimit)
  BY SameSets DEF Leaf!EmptyCreditQueue, EmptyCreditQueue
<1>6. [e \in Leaf(d)!Endpoint |-> Leaf(d)!InitialLimit] = limit
  BY <1>3, SameSets
<1> HIDE DEF limit
<1>7. QED
  BY <1>1, <1>2, <1>3, <1>4, <1>5, <1>6
  DEF Leaf!Init, Leaf!NoCalls, Leaf!NoService, NoService

\* For any number of requests and leaf sidecars and whatever the fan-out of the
\* services, every leaf of the mesh behaves like a sidecar of its own: the parent
\* (protocol_client, fanout_req_management) uses protocol_server as the clients
\* that Sidecar assumes do, one Credit Request and one use or return of the grant
\* per sub-request.
THEOREM LeavesImplementSidecar ==
  ASSUME PrioritiesInRange
  PROVE  MeshSpec => LeavesAreSidecars
<1>1. MeshInit => \A d \in Downstream : Leaf(d)!Init
  BY LeavesInit
<1>2. Inv /\ Inv' /\ LeafInv /\ BusyInv /\ [MeshNext]_meshVars
        => [\A d \in Downstream : [Leaf(d)!Next]_(Leaf(d)!vars)]_meshVars
  BY LeavesStep
<1>3. QED
  BY <1>1, <1>2, MeshInvariance, BusyInvariance, PTL DEF MeshSpec, LeavesAreSidecars
=============================================================================
