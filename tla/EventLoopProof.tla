--------------------------- MODULE EventLoopProof ---------------------------
(***************************************************************************)
(* Theorems about the event loop of an ingress worker, for every number of *)
(* clients, descriptors, pool connections, UserData and buffers.  RingInv  *)
(* accounts for what the operations in the ring hold, whatever the clients *)
(* do; PoliteInv relates listener, connections, RPCMapper and queues while *)
(* the clients wait for their answers.                                     *)
(***************************************************************************)
EXTENDS EventLoop, FiniteSetTheorems, SequenceTheorems, TLAPS

-----------------------------------------------------------------------------
(* Operations in the ring *)

\* A WRITE is prepared only for a connection that has none in the ring: the
\* client waits for the answer, the pool connection is idle.
WritesQuiet ==
  /\ \A c \in Client : ~idle[c] => c \notin writes
  /\ \A p \in Pool : us_map[p] = NoRpc => p \notin writes

\* TypeOK without the sizes of the two pools.
Types ==
  /\ impolite \subseteq Client
  /\ fd \in [Client -> Fd]
  /\ status \in [Client -> Status]
  /\ idle \in [Client -> BOOLEAN]
  /\ last_id \in [Client -> 0 .. MaxStream]
  /\ listener \in [Fd -> Client \cup {NoConn}]
  /\ rpcs \subseteq Rpc /\ drops \subseteq Rpc
  /\ queue \in Seq(Rpc)
  /\ us_map \in [Pool -> Rpc \cup {NoRpc}]
  /\ credit \in {"none", "sending", "sent"}
  /\ reads \subseteq Client \cup Pool /\ writes \subseteq Client \cup Pool
  /\ cancels \subseteq Client \X Cause
  /\ aborted \in Reason

RingInv ==
  TypeOK /\ NoStaleUserData /\ WriteBuffersAccounted /\ WritesQuiet

LEMMA FiniteOperations ==
  /\ \A R \in SUBSET (Client \cup Pool) : IsFiniteSet(R) /\ Cardinality(R) \in Nat
  /\ \A C \in SUBSET (Client \X Cause) : IsFiniteSet(C) /\ Cardinality(C) \in Nat
<1>1. IsFiniteSet(Client \cup Pool)
  BY FS_Union, EventLoopAssumption
<1>2. IsFiniteSet(Cause)
  <2>1. IsFiniteSet(Rejected)
    BY FS_Interval, EventLoopAssumption DEF Rejected
  <2>2. QED
    BY <2>1, FS_Singleton, FS_Union DEF Cause
<1>3. IsFiniteSet(Client \X Cause)
  BY <1>2, FS_Product, EventLoopAssumption
<1>4. QED
  BY <1>1, <1>3, FS_Subset, FS_CardinalityType

LEMMA RingFinite ==
  ASSUME Types
  PROVE  /\ IsFiniteSet(reads) /\ Cardinality(reads) \in Nat
         /\ IsFiniteSet(writes) /\ Cardinality(writes) \in Nat
         /\ IsFiniteSet(cancels) /\ Cardinality(cancels) \in Nat
         /\ Operations \in Nat
  BY FiniteOperations DEF Types, Operations

LEMMA TypesFacts ==
  TypeOK <=> /\ Types
             /\ user_data \in 0 .. UserDataCount /\ buffers \in 0 .. BufferCount
  BY DEF TypeOK, Types

LEMMA RingFacts ==
  ASSUME RingInv
  PROVE  /\ Types /\ WritesQuiet /\ user_data \in Nat /\ buffers \in Nat
         /\ IsFiniteSet(reads) /\ Cardinality(reads) \in Nat
         /\ IsFiniteSet(writes) /\ Cardinality(writes) \in Nat
         /\ IsFiniteSet(cancels) /\ Cardinality(cancels) \in Nat
         /\ Operations \in Nat
  BY RingFinite, TypesFacts, EventLoopAssumption DEF RingInv

LEMMA Sums ==
  ASSUME NEW a \in Nat, NEW b \in Nat, NEW c \in Nat
  PROVE  /\ \A x \in Nat, y \in Nat : x + y <= a + b /\ a + b <= c
                                       => x + y <= c /\ x <= c
         /\ \A x \in Nat, y \in Nat : x + y = a + b /\ a + b = c
                                       => x + y = c /\ x <= c
  OBVIOUS

LEMMA MoreOperations ==
  ASSUME NEW a \in Nat, NEW b \in Nat, NEW c \in Nat, NEW d \in Nat,
         NEW e \in Nat, NEW f \in Nat, NEW s \in Nat, f <= e + s
  PROVE  3 + a + (b + d) + c + f <= (3 + a + b + c + e) + d + s
  OBVIOUS

\* What a step has to show: it takes what its operations need.
LEMMA RingStep ==
  ASSUME RingInv, Types', WritesQuiet',
         user_data' \in Nat, buffers' \in Nat,
         user_data' + Operations' <= user_data + Operations,
         buffers' + Cardinality(writes') = buffers + Cardinality(writes)
  PROVE  RingInv'
<1>1. Operations' \in Nat /\ Cardinality(writes') \in Nat
  <2>1. /\ reads' \in SUBSET (Client \cup Pool) /\ writes' \in SUBSET (Client \cup Pool)
        /\ cancels' \in SUBSET (Client \X Cause)
    BY DEF Types
  <2>2. /\ Cardinality(reads') \in Nat /\ Cardinality(writes') \in Nat
        /\ Cardinality(cancels') \in Nat
    BY <2>1, FiniteOperations
  <2>3. QED
    BY <2>2 DEF Operations
<1>2. /\ Operations \in Nat /\ user_data \in Nat /\ buffers \in Nat
      /\ Cardinality(writes) \in Nat
      /\ UserDataCount \in Nat /\ BufferCount \in Nat
      /\ user_data + Operations <= UserDataCount
      /\ buffers + Cardinality(writes) = BufferCount
  BY RingFacts, EventLoopAssumption DEF RingInv, NoStaleUserData, WriteBuffersAccounted
<1>3. /\ user_data' + Operations' <= UserDataCount /\ user_data' <= UserDataCount
      /\ buffers' + Cardinality(writes') = BufferCount /\ buffers' <= BufferCount
  BY <1>1, <1>2, Sums
<1>4. TypeOK'
  BY <1>3, EventLoopAssumption DEF TypeOK, Types
<1>5. NoStaleUserData' /\ WriteBuffersAccounted'
  BY <1>3 DEF NoStaleUserData, WriteBuffersAccounted
<1>6. QED
  BY <1>4, <1>5 DEF RingInv

\* The connections responses are written to: clients that wait for one.
LEMMA OwnersFacts ==
  ASSUME RingInv, NEW K \in SUBSET Rpc,
         NoConnections \/ \A k \in K : ~Undeliverable(K, k)
  PROVE  /\ Owners(K) \in SUBSET Client
         /\ \A c \in Owners(K) : ~idle[c] /\ c \notin writes
         /\ IsFiniteSet(Owners(K)) /\ Cardinality(Owners(K)) \in Nat
<1>1. Owners(K) \in SUBSET Client /\ \A c \in Owners(K) : ~idle[c]
  BY DEF Owners, Undeliverable, RingInv, TypeOK, Rpc
<1>2. IsFiniteSet(Owners(K))
  BY <1>1, FS_Subset, EventLoopAssumption
<1>3. QED
  BY <1>1, <1>2, FS_CardinalityType DEF RingInv, WritesQuiet

LEMMA RingInit == Init => RingInv
<1> SUFFICES ASSUME Init PROVE RingInv
  OBVIOUS
<1> USE DEF Init, InitConnections, InitRpcs, InitRing, InitBuffers
<1>1. Cardinality(Pool) \in Nat /\ Cardinality({}) = 0
  BY EventLoopAssumption, FS_CardinalityType, FS_EmptySet
<1>2. TypeOK
  BY <1>1, EventLoopAssumption DEF TypeOK, Status, Reason
<1>3. NoStaleUserData /\ WriteBuffersAccounted
  BY <1>1, EventLoopAssumption DEF NoStaleUserData, Operations, WriteBuffersAccounted
<1>4. QED
  BY <1>2, <1>3 DEF RingInv, WritesQuiet

LEMMA FatalRing ==
  ASSUME RingInv, NEW reason \in Reason, Fatal(reason)
  PROVE  RingInv'
  BY DEF RingInv, Fatal, loopVars, connVars, rpcVars, ringVars, TypeOK,
         NoStaleUserData, Operations, WriteBuffersAccounted, WritesQuiet

LEMMA AcceptRing ==
  ASSUME RingInv, NEW c \in Client, NEW f \in Fd, Accept(c, f)
  PROVE  RingInv'
<1>1. CASE Fatal("resources")
  BY <1>1, FatalRing DEF Reason
<1>2. CASE ~Fatal("resources")
  <2> USE RingFacts
  <2>1. /\ user_data >= 2 /\ user_data' = user_data - 1
        /\ reads' = reads \cup {c}
        /\ AddConnection(c, f)
        /\ UNCHANGED <<rpcs, queue, drops, us_map, credit, writes, cancels,
                       buffers, impolite, aborted>>
        /\ c \notin reads
    BY <1>2 DEF Accept, PrepareRead, GetUserData, Available, UserDataLeft, rpcVars, Gone
  <2>2. Cardinality(reads') = Cardinality(reads) + 1
    BY <2>1, FS_AddElement
  <2>3. Types'
    <3>1. /\ fd' \in [Client -> Fd] /\ status' \in [Client -> Status]
          /\ idle' \in [Client -> BOOLEAN] /\ last_id' \in [Client -> 0 .. MaxStream]
          /\ listener' \in [Fd -> Client \cup {NoConn}]
      BY <2>1, EventLoopAssumption DEF Types, Status, AddConnection
    <3>2. QED
      BY <2>1, <3>1 DEF Types
  <2>4. user_data' + Operations' <= user_data + Operations
    BY <2>1, <2>2 DEF Operations
  <2>5. WritesQuiet'
    BY <2>1 DEF WritesQuiet, Types, AddConnection
  <2>6. QED
    BY <2>1, <2>3, <2>4, <2>5, RingStep
<1>3. QED
  BY <1>1, <1>2

LEMMA ReadRequestRing ==
  ASSUME RingInv, NEW c \in Client, ReadRequest(c)
  PROVE  RingInv'
<1>1. CASE Fatal("resources") \/ Fatal("protocol")
  BY <1>1, FatalRing DEF Reason
<1>2. CASE ~(Fatal("resources") \/ Fatal("protocol"))
  <2> USE RingFacts
  <2> DEFINE k == <<fd[c], last_id[c] + 1>>
  <2>1. k \in Rpc /\ last_id[c] + 1 \in 0 .. MaxStream
    BY EventLoopAssumption DEF ReadRequest, Rpc, Types
  <2>2. PICK q \in {queue, Append(queue, k)} :
          /\ Available(SendCreditRequest(q, credit), 0)
          /\ last_id' = [last_id EXCEPT ![c] = @ + 1]
          /\ idle' = [idle EXCEPT ![c] = FALSE]
          /\ rpcs' = rpcs \cup {k}
          /\ queue' = q
          /\ drops' \in {drops, drops \cup {k}}
          /\ credit' = CreditAfter(q, credit)
          /\ user_data' = user_data - SendCreditRequest(q, credit)
          /\ UNCHANGED <<fd, status, listener, us_map, reads, writes, cancels,
                         buffers, impolite, aborted>>
    BY <1>2 DEF ReadRequest, AllocateRpc, GetUserData
  <2>3. c \notin writes
    BY DEF ReadRequest
  <2> HIDE DEF k
  <2>4. q \in Seq(Rpc)
    <3>1. queue \in Seq(Rpc)
      BY DEF Types
    <3>2. Append(queue, k) \in Seq(Rpc)
      BY <2>1, <3>1, AppendProperties
    <3>3. QED
      BY <3>1, <3>2
  <2>5. credit' \in {"none", "sending", "sent"}
    BY <2>2 DEF CreditAfter, Types
  <2>6. Types'
    BY <2>1, <2>2, <2>4, <2>5 DEF Types
  <2>7. user_data' \in Nat
    BY <2>2 DEF SendCreditRequest, Available, UserDataLeft
  <2>8. user_data' + Operations' <= user_data + Operations
    BY <2>2 DEF Operations, SendCreditRequest, CreditAfter, NeedsCreditRequest
  <2>9. WritesQuiet'
    BY <2>2, <2>3 DEF Types, WritesQuiet
  <2>10. QED
    BY <2>2, <2>6, <2>7, <2>8, <2>9, RingStep
<1>3. QED
  BY <1>1, <1>2

\* ReadUnsupported and ReadEnd: the CANCEL takes a UserData.
LEMMA TearDownRing ==
  ASSUME RingInv, NEW c \in Client, NEW why \in Cause, TearDown(c, why),
         Available(1, 0), GetUserData(1), reads' \in {reads, reads \ {c}},
         UNCHANGED <<fd, idle, last_id, listener, rpcVars, writes, buffers,
                     impolite, aborted>>
  PROVE  RingInv'
<1> USE RingFacts
<1>1. /\ cancels' = cancels \cup {<<c, why>>} /\ user_data' = user_data - 1
      /\ user_data >= 1
      /\ UNCHANGED <<fd, idle, last_id, listener, rpcs, queue, drops, us_map,
                     credit, writes, buffers, impolite, aborted>>
  BY DEF TearDown, GetUserData, Available, UserDataLeft, rpcVars
<1>2. Cardinality(cancels') \in {Cardinality(cancels), Cardinality(cancels) + 1}
  BY <1>1, FS_AddElement
<1>3. Cardinality(reads') \in {Cardinality(reads), Cardinality(reads) - 1}
  BY FS_RemoveElement
<1>4. Types'
  <2>1. status' \in [Client -> Status]
    BY DEF TearDown, Types, Status
  <2>2. cancels' \subseteq Client \X Cause
    BY <1>1 DEF Types
  <2>3. QED
    BY <1>1, <2>1, <2>2 DEF Types
<1>5. user_data' + Operations' <= user_data + Operations
  BY <1>1, <1>2, <1>3 DEF Operations
<1>6. WritesQuiet'
  BY <1>1 DEF WritesQuiet
<1>7. QED
  BY <1>1, <1>4, <1>5, <1>6, RingStep

LEMMA CancelRing ==
  ASSUME RingInv, NEW c \in Client, NEW why \in Cause, Cancel(c, why)
  PROVE  RingInv'
<1>1. CASE Fatal("protocol")
  BY <1>1, FatalRing DEF Reason
<1>2. CASE ~Fatal("protocol")
  <2> USE RingFacts
  <2>1. /\ <<c, why>> \in cancels /\ cancels' = cancels \ {<<c, why>>}
        /\ user_data' = user_data + 1
        /\ listener' = [listener EXCEPT ![fd[c]] = NoConn]
        /\ UNCHANGED <<fd, status, idle, last_id, rpcs, queue, drops, us_map,
                       credit, reads, writes, buffers, impolite, aborted>>
    BY <1>2 DEF Cancel, RemoveConnection, FreeUserData, rpcVars
  <2>2. Cardinality(cancels') = Cardinality(cancels) - 1
    BY <2>1, FS_RemoveElement
  <2>3. Types'
    BY <2>1 DEF Types
  <2>4. user_data' + Operations' <= user_data + Operations
    BY <2>1, <2>2 DEF Operations
  <2>5. WritesQuiet'
    BY <2>1 DEF WritesQuiet
  <2>6. QED
    BY <2>1, <2>3, <2>4, <2>5, RingStep
<1>3. QED
  BY <1>1, <1>2

LEMMA WriteDoneRing ==
  ASSUME RingInv, NEW c \in Client \cup Pool, WriteDone(c)
  PROVE  RingInv'
<1> USE RingFacts
<1>1. /\ c \in writes /\ writes' = writes \ {c}
      /\ user_data' = user_data + 1 /\ buffers' = buffers + 1
      /\ UNCHANGED <<fd, status, idle, last_id, listener, rpcs, queue, drops,
                     us_map, credit, reads, cancels, impolite, aborted>>
  BY DEF WriteDone, FreeUserData, FreeBuffer, connVars, rpcVars
<1>2. Cardinality(writes') = Cardinality(writes) - 1
  BY <1>1, FS_RemoveElement
<1>3. Types'
  BY <1>1 DEF Types
<1>4. user_data' + Operations' <= user_data + Operations
  BY <1>1, <1>2 DEF Operations
<1>5. WritesQuiet'
  BY <1>1 DEF WritesQuiet
<1>6. QED
  BY <1>1, <1>2, <1>3, <1>4, <1>5, RingStep

LEMMA SendDoneRing ==
  ASSUME RingInv, SendDone
  PROVE  RingInv'
<1> USE RingFacts
<1>1. /\ user_data' = user_data + 1 /\ credit = "sending" /\ credit' = "sent"
      /\ UNCHANGED <<fd, status, idle, last_id, listener, rpcs, queue, drops,
                     us_map, reads, writes, cancels, buffers, impolite, aborted>>
  BY DEF SendDone, FreeUserData, connVars
<1>2. Types'
  BY <1>1 DEF Types
<1>3. user_data' + Operations' <= user_data + Operations
  BY <1>1 DEF Operations
<1>4. WritesQuiet'
  BY <1>1 DEF WritesQuiet
<1>5. QED
  BY <1>1, <1>2, <1>3, <1>4, RingStep

\* The responses K are written; T are all connections that get a WRITE.
LEMMA WrittenRing ==
  ASSUME RingInv, NEW K \in SUBSET Rpc,
         NoConnections \/ \A k \in K : ~Undeliverable(K, k),
         NEW T, T \in {Owners(K)} \cup {{p} \cup Owners(K) : p \in IdleConnections},
         NEW q \in Seq(Rpc), NEW held \in {"none", "sending", "sent"},
         held = credit \/ (held = "none" /\ credit = "sent"),
         Available(Cardinality(T) + SendCreditRequest(q, held), Cardinality(T)),
         us_map' \in [Pool -> Rpc \cup {NoRpc}],
         \A p \in Pool : us_map'[p] = NoRpc => p \notin writes \cup T,
         queue' = q, Written(K), drops' \in Kept(K),
         credit' = CreditAfter(q, held), PrepareWrite(T),
         GetUserData(Cardinality(T) + SendCreditRequest(q, held)),
         GetBuffer(Cardinality(T)),
         UNCHANGED <<fd, status, last_id, listener, reads, cancels, impolite,
                     aborted>>
  PROVE  RingInv'
<1> USE RingFacts
<1>1. /\ T \in SUBSET (Client \cup Pool) /\ T \cap writes = {}
      /\ Owners(K) \in SUBSET Client /\ T \cap Client = Owners(K)
  BY OwnersFacts, EventLoopAssumption DEF WritesQuiet, IdleConnections
<1>2. IsFiniteSet(T) /\ Cardinality(T) \in Nat
  BY <1>1, FiniteOperations
<1>3. writes' = writes \cup T
  BY DEF PrepareWrite
<1>4. Cardinality(writes') = Cardinality(writes) + Cardinality(T)
  <2>1. Cardinality(writes \cap T) = 0
    <3>1. writes \cap T = {}
      BY <1>1
    <3>2. QED
      BY <3>1, FS_EmptySet
  <2>2. Cardinality(writes \cup T)
          = Cardinality(writes) + Cardinality(T) - Cardinality(writes \cap T)
    BY <1>2, FS_Union
  <2>3. QED
    BY <1>2, <1>3, <2>1, <2>2
<1> DEFINE s == SendCreditRequest(q, held)
<1>5. /\ s \in {0, 1}
      /\ s = 1 => credit # "sending" /\ credit' = "sending"
      /\ s = 0 => credit' = held
      /\ credit' \in {"none", "sending", "sent"}
  BY DEF CreditAfter, SendCreditRequest, NeedsCreditRequest
<1>6. /\ user_data' = user_data - (Cardinality(T) + s)
      /\ buffers' = buffers - Cardinality(T)
      /\ user_data >= Cardinality(T) + s /\ buffers >= Cardinality(T)
  BY DEF GetUserData, GetBuffer, Available, UserDataLeft, BuffersLeft
<1> HIDE DEF s
<1>7. user_data' \in Nat /\ buffers' \in Nat
  BY <1>2, <1>5, <1>6
<1>8. buffers' + Cardinality(writes') = buffers + Cardinality(writes)
  BY <1>2, <1>4, <1>6
<1>9. user_data' + Operations' <= user_data + Operations
  <2> DEFINE sending == IF credit = "sending" THEN 1 ELSE 0
             sendingNext == IF credit' = "sending" THEN 1 ELSE 0
  <2>1. sendingNext <= sending + s /\ sending \in Nat /\ sendingNext \in Nat
    BY <1>5
  <2>2. Operations = 3 + Cardinality(reads) + Cardinality(writes)
                       + Cardinality(cancels) + sending
    BY DEF Operations
  <2>3. Operations' = 3 + Cardinality(reads) + Cardinality(writes')
                       + Cardinality(cancels) + sendingNext
    BY DEF Operations
  <2>4. s \in Nat
    BY <1>5
  <2> HIDE DEF sending, sendingNext
  <2>5. Operations' <= Operations + Cardinality(T) + s
    BY <1>2, <1>4, <2>1, <2>2, <2>3, <2>4, MoreOperations
  <2>6. Operations' \in Nat
    BY <1>2, <1>4, <2>1, <2>3
  <2>7. QED
    BY <1>2, <1>6, <2>4, <2>5, <2>6
<1>10. idle' \in [Client -> BOOLEAN] /\ rpcs' \subseteq Rpc /\ drops' \subseteq Rpc
  BY DEF Written, RemoveRpcs, Types, Kept
<1>11. Types'
  BY <1>1, <1>3, <1>5, <1>10 DEF Types
<1>12. WritesQuiet'
  <2>1. \A p \in Pool : us_map'[p] = NoRpc => p \notin writes'
    BY <1>3
  <2>2. ASSUME NEW c \in Client, ~idle'[c] PROVE c \notin writes'
    <3>1. ~idle[c] /\ c \notin Owners(K)
      BY <2>2 DEF Written, Types
    <3>2. QED
      BY <1>1, <1>3, <3>1 DEF WritesQuiet
  <2>3. QED
    BY <2>1, <2>2 DEF WritesQuiet
<1>13. QED
  BY <1>7, <1>8, <1>9, <1>11, <1>12, RingStep

LEMMA RecvCreditGrantRing ==
  ASSUME RingInv, NEW p \in Pool, RecvCreditGrant(p)
  PROVE  RingInv'
<1>1. CASE Fatal("resources") \/ Fatal("protocol")
  BY <1>1, FatalRing DEF Reason
<1>2. CASE ~(Fatal("resources") \/ Fatal("protocol"))
  <2> USE RingFacts
  <2> DEFINE n == 1 + Cardinality(Owners(drops))
             s == SendCreditRequest(Tail(queue), "none")
             T == {p} \cup Owners(drops)
  <2>1. /\ credit = "sent" /\ queue # <<>>
        /\ NoConnections \/ \A k \in drops : ~Undeliverable(drops, k)
        /\ Available(n + s, n)
        /\ p \in IdleConnections
        /\ us_map' = [us_map EXCEPT ![p] = Head(queue)]
        /\ queue' = Tail(queue)
        /\ Written(drops)
        /\ drops' \in Kept(drops)
        /\ credit' = CreditAfter(Tail(queue), "none")
        /\ PrepareWrite(T)
        /\ GetUserData(n + s)
        /\ GetBuffer(n)
        /\ UNCHANGED <<fd, status, last_id, listener, reads, cancels, impolite,
                       aborted>>
    BY <1>2 DEF RecvCreditGrant, SubmitRequest, Route
  <2>2. Cardinality(T) = n
    <3>1. /\ p \notin Owners(drops) /\ IsFiniteSet(Owners(drops))
          /\ Cardinality(Owners(drops)) \in Nat
      BY <2>1, OwnersFacts, EventLoopAssumption DEF Types
    <3>2. Cardinality(Owners(drops) \cup {p}) = Cardinality(Owners(drops)) + 1
      BY <3>1, FS_AddElement
    <3>3. T = Owners(drops) \cup {p}
      OBVIOUS
    <3>4. QED
      BY <3>1, <3>2, <3>3
  <2>3. Tail(queue) \in Seq(Rpc) /\ Head(queue) \in Rpc
    BY <2>1, HeadTailProperties DEF Types
  <2>4. us_map' \in [Pool -> Rpc \cup {NoRpc}]
    BY <2>1, <2>3 DEF Types
  <2>5. \A x \in Pool : us_map'[x] = NoRpc => x \notin writes \cup T
    <3>1. Head(queue) # NoRpc
      BY <2>3, EventLoopAssumption DEF Rpc
    <3>2. SUFFICES ASSUME NEW x \in Pool, us_map'[x] = NoRpc
                   PROVE  x \notin writes \cup T
      OBVIOUS
    <3>3. x # p /\ us_map[x] = NoRpc
      BY <2>1, <3>1, <3>2 DEF Types
    <3>4. x \notin Owners(drops)
      BY <2>1, OwnersFacts, EventLoopAssumption DEF Types
    <3>5. QED
      BY <3>3, <3>4 DEF WritesQuiet
  <2>6. drops \in SUBSET Rpc
    BY DEF Types
  <2> HIDE DEF T, s
  <2>7. T = {p} \cup Owners(drops)
    BY DEF T
  <2>8. s = SendCreditRequest(Tail(queue), "none")
    BY DEF s
  <2>9. QED
    BY <2>1, <2>2, <2>3, <2>4, <2>5, <2>6, <2>7, <2>8, WrittenRing
<1>3. QED
  BY <1>1, <1>2

LEMMA RecvResponseRing ==
  ASSUME RingInv, NEW p \in Pool, RecvResponse(p)
  PROVE  RingInv'
<1>1. CASE Fatal("resources") \/ Fatal("protocol")
  BY <1>1, FatalRing DEF Reason
<1>2. CASE ~(Fatal("resources") \/ Fatal("protocol"))
  <2> USE RingFacts
  <2> DEFINE K == drops \cup {us_map[p]}
             n == Cardinality(Owners(K))
             s == SendCreditRequest(queue, credit)
  <2>1. /\ us_map[p] # NoRpc /\ p \notin writes
        /\ NoConnections \/ \A k \in K : ~Undeliverable(K, k)
        /\ Available(n + s, n)
        /\ us_map' = [us_map EXCEPT ![p] = NoRpc]
        /\ Written(K)
        /\ drops' \in Kept(K)
        /\ credit' = CreditAfter(queue, credit)
        /\ PrepareWrite(Owners(K))
        /\ GetUserData(n + s)
        /\ GetBuffer(n)
        /\ UNCHANGED <<fd, status, last_id, listener, queue, reads, cancels,
                       impolite, aborted>>
    BY <1>2 DEF RecvResponse
  <2>2. K \in SUBSET Rpc
    BY <2>1 DEF Types
  <2>3. us_map' \in [Pool -> Rpc \cup {NoRpc}]
    BY <2>1 DEF Types
  <2> HIDE DEF K
  <2>4. \A x \in Pool : us_map'[x] = NoRpc => x \notin writes \cup Owners(K)
    <3>1. Owners(K) \cap Pool = {}
      BY <2>1, <2>2, OwnersFacts, EventLoopAssumption
    <3>2. QED
      BY <2>1, <3>1 DEF Types, WritesQuiet
  <2>5. queue \in Seq(Rpc) /\ credit \in {"none", "sending", "sent"}
    BY DEF Types
  <2>6. QED
    BY <2>1, <2>2, <2>3, <2>4, <2>5, WrittenRing
<1>3. QED
  BY <1>1, <1>2

LEMMA RingInvariant == ASSUME RingInv, [Next]_allVars PROVE RingInv'
<1>1. CASE UNCHANGED allVars
  BY <1>1 DEF RingInv, allVars, loopVars, connVars, rpcVars, ringVars, TypeOK,
              NoStaleUserData, Operations, WriteBuffersAccounted, WritesQuiet
<1>2. CASE \E c \in Client : \/ \E f \in Fd : Accept(c, f)
                             \/ ReadRequest(c)
                             \/ \E why \in Cause : Cancel(c, why)
  BY <1>2, AcceptRing, ReadRequestRing, CancelRing
<1>3. CASE \E c \in Client : ReadUnsupported(c) \/ ReadEnd(c) \/ ConnectionReset(c)
  <2>1. PICK c \in Client : ReadUnsupported(c) \/ ReadEnd(c) \/ ConnectionReset(c)
    BY <1>3
  <2>2. CASE Fatal("resources") \/ Fatal("protocol")
    BY <2>2, FatalRing DEF Reason
  <2>3. CASE ~(Fatal("resources") \/ Fatal("protocol")) /\ ReadUnsupported(c)
    BY <2>3, TearDownRing DEF ReadUnsupported, Cause
  <2>4. CASE ~(Fatal("resources") \/ Fatal("protocol")) /\ ReadEnd(c)
    BY <2>4, TearDownRing DEF ReadEnd, Cause
  <2>5. QED
    BY <2>1, <2>2, <2>3, <2>4 DEF ConnectionReset
<1>4. CASE \/ \E p \in Pool : RecvCreditGrant(p) \/ RecvResponse(p)
           \/ \E c \in Client \cup Pool : WriteDone(c)
           \/ SendDone
  BY <1>4, RecvCreditGrantRing, RecvResponseRing, WriteDoneRing, SendDoneRing
<1>5. QED
  BY <1>1, <1>2, <1>3, <1>4 DEF Next

-----------------------------------------------------------------------------
(* Clients that wait for their answers *)

\* Connections and listener refer to each other by the descriptor.
Linked ==
  /\ ConnectionsReachable
  /\ \A f \in Fd : listener[f] # NoConn => fd[listener[f]] = f

\* A CANCEL in the ring is for a listed connection that nobody waits on.
Closing ==
  \A c \in Client, why \in Cause :
    <<c, why>> \in cancels => /\ listener[fd[c]] = c
                              /\ why = Ended /\ status[c] = "TEARDOWN" /\ idle[c]

\* A connection that waits has its RPC, and an RPC the connection that waits.
Busy ==
  \A c \in Client : ~idle[c] => status[c] = "UP" /\ <<fd[c], last_id[c]>> \in rpcs
Current ==
  \A k \in rpcs : /\ listener[k[1]] # NoConn
                  /\ ~idle[listener[k[1]]]
                  /\ k[2] = last_id[listener[k[1]]]

\* Each RPC is in one place.
Placed ==
  /\ \A i \in 1 .. Len(queue) : queue[i] \in rpcs
  /\ drops \subseteq rpcs
  /\ \A p \in Pool : us_map[p] # NoRpc => us_map[p] \in rpcs
  /\ \A k \in rpcs : \/ \E i \in 1 .. Len(queue) : queue[i] = k
                     \/ k \in drops
                     \/ \E p \in Pool : us_map[p] = k
Distinct ==
  /\ \A i, j \in 1 .. Len(queue) : queue[i] = queue[j] => i = j
  /\ \A p, r \in Pool : us_map[p] = us_map[r] /\ us_map[p] # NoRpc => p = r
  /\ \A i \in 1 .. Len(queue) : queue[i] \notin drops
  /\ \A p \in Pool : us_map[p] \notin drops
  /\ \A p \in Pool, i \in 1 .. Len(queue) : us_map[p] # queue[i]

Credited == credit # "none" => queue # <<>>

PoliteInv == Linked /\ Closing /\ Busy /\ Current /\ Placed /\ Distinct /\ Credited

LEMMA SameDescriptor ==
  ASSUME Types, Current, NEW k \in rpcs, NEW x \in rpcs, k[1] = x[1]
  PROVE  k = x
  BY DEF Types, Current, Rpc

LEMMA InitPolite == Init => PoliteInv
  BY EventLoopAssumption
  DEF Init, InitConnections, InitRpcs, InitRing, InitBuffers, PoliteInv, Linked,
      ConnectionsReachable, Closing, Busy, Current, Placed, Distinct, Credited

LEMMA FatalPolite ==
  ASSUME PoliteInv, UNCHANGED loopVars
  PROVE  PoliteInv'
  BY DEF PoliteInv, loopVars, connVars, rpcVars, ringVars, Linked,
         ConnectionsReachable, Closing, Busy, Current, Placed, Distinct, Credited

\* Only connections and ring change: the RPCs stay where they are.
LEMMA PlacesKept ==
  ASSUME Placed, Distinct, Credited, UNCHANGED <<rpcs, queue, drops, us_map>>,
         credit' = credit \/ credit # "none"
  PROVE  Placed' /\ Distinct' /\ Credited'
  BY DEF Placed, Distinct, Credited

LEMMA AcceptPolite ==
  ASSUME Types, PoliteInv, NEW c \in Client, NEW f \in Fd, Accept(c, f)
  PROVE  PoliteInv'
<1>1. CASE Fatal("resources")
  BY <1>1, FatalPolite DEF Fatal
<1>2. CASE ~Fatal("resources")
  <2>1. /\ AddConnection(c, f) /\ Gone(c) /\ listener[f] = NoConn
        /\ UNCHANGED <<rpcs, queue, drops, us_map, credit, cancels>>
    BY <1>2 DEF Accept, rpcVars
  <2>2. Linked'
    BY <2>1, EventLoopAssumption
    DEF Types, AddConnection, PoliteInv, Linked, ConnectionsReachable, Gone
  <2>3. Closing'
    <3>1. SUFFICES ASSUME NEW d \in Client, NEW why \in Cause, <<d, why>> \in cancels'
                   PROVE  (/\ listener[fd[d]] = d
                           /\ why = Ended /\ status[d] = "TEARDOWN" /\ idle[d])'
      BY DEF Closing
    <3>2. /\ listener[fd[d]] = d /\ why = Ended /\ status[d] = "TEARDOWN"
          /\ idle[d] /\ d # c
      BY <2>1, <3>1 DEF PoliteInv, Closing, Gone
    <3>3. fd[d] # f /\ fd[d] \in Fd
      BY <2>1, <3>2, EventLoopAssumption DEF Types
    <3>4. QED
      BY <2>1, <3>2, <3>3 DEF Types, AddConnection
  <2>4. ASSUME NEW k \in rpcs PROVE k[1] # f /\ listener[k[1]] # c /\ k[1] \in Fd
    BY <2>1 DEF PoliteInv, Current, Gone, Types, Rpc
  <2>5. Busy'
    BY <2>1 DEF Types, AddConnection, PoliteInv, Busy
  <2>6. Current'
    BY <2>1, <2>4 DEF Types, AddConnection, PoliteInv, Current
  <2>7. QED
    BY <2>1, <2>2, <2>3, <2>5, <2>6, PlacesKept DEF PoliteInv
<1>3. QED
  BY <1>1, <1>2

LEMMA ReadRequestPolite ==
  ASSUME Types, PoliteInv, NEW c \in Client, ReadRequest(c)
  PROVE  PoliteInv' /\ ~Fatal("protocol")
<1> DEFINE k == <<fd[c], last_id[c] + 1>>
<1>1. /\ status[c] = "UP" /\ idle[c] /\ listener[fd[c]] = c
      /\ fd[c] \in Fd /\ last_id[c] \in Nat
  BY DEF ReadRequest, PoliteInv, Linked, ConnectionsReachable, Types
<1>2. \A x \in rpcs : x[1] # fd[c] /\ listener[x[1]] # c
  BY <1>1 DEF PoliteInv, Current
<1>3. k \notin rpcs
  BY <1>2
<1>4. ~Fatal("protocol")
  <2>1. Fatal("resources") \/ rpcs' = rpcs \cup {k}
    BY <1>3 DEF ReadRequest, AllocateRpc
  <2>2. QED
    BY <1>3, <2>1 DEF Fatal, loopVars, rpcVars
<1>5. CASE Fatal("resources")
  BY <1>4, <1>5, FatalPolite DEF Fatal
<1>6. CASE ~Fatal("resources")
  <2>1. PICK admitted \in BOOLEAN :
          /\ ~admitted => queue # <<>>
          /\ last_id' = [last_id EXCEPT ![c] = @ + 1]
          /\ idle' = [idle EXCEPT ![c] = FALSE]
          /\ rpcs' = rpcs \cup {k}
          /\ queue' = IF admitted THEN Append(queue, k) ELSE queue
          /\ drops' = IF admitted THEN drops ELSE drops \cup {k}
          /\ credit' = CreditAfter(queue', credit)
          /\ UNCHANGED <<fd, status, listener, us_map, cancels>>
    BY <1>3, <1>6 DEF ReadRequest, AllocateRpc
  <2>2. Linked'
    BY <2>1 DEF PoliteInv, Linked, ConnectionsReachable
  <2>3. Closing'
    BY <1>1, <2>1 DEF Types, PoliteInv, Closing
  <2>4. Busy'
    BY <1>1, <2>1 DEF Types, PoliteInv, Busy
  <2>5. Current'
    <3>1. SUFFICES ASSUME NEW x \in rpcs'
                   PROVE  (/\ listener[x[1]] # NoConn /\ ~idle[listener[x[1]]]
                           /\ x[2] = last_id[listener[x[1]]])'
      BY DEF Current
    <3>2. CASE x = k
      BY <1>1, <2>1, <3>2, EventLoopAssumption DEF Types
    <3>3. CASE x \in rpcs
      <4>1. /\ listener[x[1]] # NoConn /\ ~idle[listener[x[1]]]
            /\ x[2] = last_id[listener[x[1]]] /\ listener[x[1]] # c
        BY <1>2, <3>3 DEF PoliteInv, Current
      <4>2. listener[x[1]] \in Client
        BY <3>3, <4>1 DEF Types, Rpc
      <4>3. QED
        BY <2>1, <4>1, <4>2 DEF Types
    <3>4. QED
      BY <2>1, <3>1, <3>2, <3>3
  <2>6. queue \in Seq(Rpc) /\ k \in Rpc /\ NoRpc # k
    BY <1>1, EventLoopAssumption DEF Types, Rpc, ReadRequest
  <2> HIDE DEF k
  <2>7. Len(Append(queue, k)) = Len(queue) + 1 /\ Append(queue, k) # <<>>
        /\ Append(queue, k)[Len(queue) + 1] = k
        /\ \A i \in 1 .. Len(queue) : Append(queue, k)[i] = queue[i]
        /\ Len(queue) \in Nat
    BY <2>6
  <2>8. CASE admitted
    <3>1. queue' = Append(queue, k) /\ drops' = drops
      BY <2>1, <2>8
    <3>2. Placed'
      BY <2>1, <2>7, <3>1 DEF PoliteInv, Placed
    <3>3. Distinct'
      <4>1. /\ \A i \in 1 .. Len(queue) : queue[i] # k
            /\ \A p \in Pool : us_map[p] # k
            /\ k \notin drops
        BY <1>3, <2>6 DEF PoliteInv, Placed
      <4>2. QED
        BY <2>1, <2>7, <3>1, <4>1 DEF PoliteInv, Distinct
    <3>4. Credited'
      BY <2>7, <3>1 DEF Credited
    <3>5. QED
      BY <1>4, <2>2, <2>3, <2>4, <2>5, <3>2, <3>3, <3>4 DEF PoliteInv
  <2>9. CASE ~admitted
    <3>1. queue' = queue /\ drops' = drops \cup {k} /\ queue # <<>>
      BY <2>1, <2>9
    <3>2. Placed'
      BY <2>1, <3>1 DEF PoliteInv, Placed
    <3>3. Distinct'
      <4>1. /\ \A i \in 1 .. Len(queue) : queue[i] # k
            /\ \A p \in Pool : us_map[p] # k
        BY <1>3, <2>6 DEF PoliteInv, Placed
      <4>2. QED
        BY <2>1, <3>1, <4>1 DEF PoliteInv, Distinct
    <3>4. Credited'
      BY <3>1 DEF Credited
    <3>5. QED
      BY <1>4, <2>2, <2>3, <2>4, <2>5, <3>2, <3>3, <3>4 DEF PoliteInv
  <2>10. QED
    BY <2>8, <2>9
<1>7. QED
  BY <1>4, <1>5, <1>6

LEMMA ReadEndPolite ==
  ASSUME Types, PoliteInv, impolite = {}, NEW c \in Client, ReadEnd(c)
  PROVE  PoliteInv'
<1>1. CASE Fatal("resources")
  BY <1>1, FatalPolite DEF Fatal
<1>2. CASE ~Fatal("resources")
  <2>1. /\ status[c] = "UP" /\ idle[c] /\ TearDown(c, Ended)
        /\ UNCHANGED <<fd, idle, last_id, listener, rpcs, queue, drops, us_map, credit>>
    BY <1>2 DEF ReadEnd, rpcVars
  <2>2. Linked'
    BY <2>1 DEF Types, PoliteInv, Linked, ConnectionsReachable, TearDown
  <2>3. Closing'
    BY <2>1 DEF Types, PoliteInv, Linked, ConnectionsReachable, Closing, TearDown
  <2>4. Busy'
    BY <2>1 DEF Types, PoliteInv, Busy, TearDown
  <2>5. Current'
    BY <2>1 DEF PoliteInv, Current
  <2>6. QED
    BY <2>1, <2>2, <2>3, <2>4, <2>5, PlacesKept DEF PoliteInv
<1>3. QED
  BY <1>1, <1>2

LEMMA CancelPolite ==
  ASSUME Types, PoliteInv, NEW c \in Client, NEW why \in Cause, Cancel(c, why)
  PROVE  PoliteInv' /\ ~Fatal("protocol")
<1>1. /\ listener[fd[c]] = c /\ why = Ended /\ status[c] = "TEARDOWN" /\ idle[c]
      /\ fd[c] \in Fd
  BY DEF Cancel, PoliteInv, Closing, Types
<1>2. \A k \in rpcs : k[1] # fd[c]
  BY <1>1 DEF PoliteInv, Current
<1>3. /\ cancels' = cancels \ {<<c, why>>}
      /\ listener' = [listener EXCEPT ![fd[c]] = NoConn]
      /\ UNCHANGED <<fd, status, idle, last_id, rpcs, queue, drops, us_map, credit>>
  BY <1>2 DEF Cancel, CheckFdExists, RemoveConnection, rpcVars
<1>4. ~Fatal("protocol")
  BY <1>1, <1>3, EventLoopAssumption DEF Fatal, loopVars, connVars, Types
<1>5. Linked'
  BY <1>1, <1>3 DEF Types, PoliteInv, Linked, ConnectionsReachable
<1>6. Closing'
  BY <1>1, <1>3 DEF Types, PoliteInv, Closing
<1>7. Busy' /\ Current'
  BY <1>1, <1>2, <1>3 DEF Types, PoliteInv, Busy, Current, Rpc
<1>8. QED
  BY <1>3, <1>4, <1>5, <1>6, <1>7, PlacesKept DEF PoliteInv

\* The responses K are written: their connections are idle again.
LEMMA WrittenPolite ==
  ASSUME Types, PoliteInv, NEW K \in SUBSET rpcs, Written(K), drops' \in Kept(K),
         UNCHANGED <<fd, status, last_id, listener, cancels>>
  PROVE  /\ Linked' /\ Closing' /\ Busy' /\ Current'
         /\ drops' = {} /\ rpcs' = rpcs \ K
<1>1. K = {} \/ ~NoConnections
  BY DEF Types, PoliteInv, Current, NoConnections, Rpc
<1>2. rpcs' = rpcs \ K
  BY <1>1 DEF Written, RemoveRpcs
<1>3. drops' = {}
  BY <1>1 DEF Kept
<1>4. ASSUME NEW c \in Client
      PROVE  idle'[c] <=> idle[c] \/ \E k \in K : listener[k[1]] = c
  BY <1>1 DEF Types, Written, Owners
<1>5. Linked'
  BY DEF PoliteInv, Linked, ConnectionsReachable
<1>6. Closing'
  BY <1>4 DEF PoliteInv, Closing
<1>7. Busy'
  <2>1. SUFFICES ASSUME NEW c \in Client, ~idle'[c]
                 PROVE  status[c] = "UP" /\ <<fd[c], last_id[c]>> \in rpcs \ K
    BY <1>2 DEF Busy
  <2>2. /\ status[c] = "UP" /\ <<fd[c], last_id[c]>> \in rpcs
        /\ \A k \in K : listener[k[1]] # c
    BY <1>4, <2>1 DEF PoliteInv, Busy
  <2>3. listener[fd[c]] = c
    BY <2>2 DEF PoliteInv, Linked, ConnectionsReachable
  <2>4. QED
    BY <2>2, <2>3
<1>8. Current'
  <2>1. SUFFICES ASSUME NEW k \in rpcs, k \notin K
                 PROVE  /\ listener[k[1]] # NoConn /\ ~idle'[listener[k[1]]]
                        /\ k[2] = last_id[listener[k[1]]]
    BY <1>2 DEF Current
  <2>2. /\ listener[k[1]] # NoConn /\ ~idle[listener[k[1]]]
        /\ k[2] = last_id[listener[k[1]]]
    BY DEF PoliteInv, Current
  <2>3. listener[k[1]] \in Client /\ fd[listener[k[1]]] = k[1]
    BY <2>2 DEF Types, Rpc, PoliteInv, Linked
  <2>4. ASSUME NEW x \in K, listener[x[1]] = listener[k[1]] PROVE FALSE
    <3>1. fd[listener[x[1]]] = x[1]
      BY <2>2, <2>4 DEF Types, Rpc, PoliteInv, Linked
    <3>2. x = k
      BY <2>3, <2>4, <3>1, SameDescriptor DEF PoliteInv
    <3>3. QED
      BY <2>1, <3>2
  <2>5. QED
    BY <1>4, <2>2, <2>3, <2>4
<1>9. QED
  BY <1>2, <1>3, <1>5, <1>6, <1>7, <1>8

\* Every response finds the connection that waits for it.
LEMMA Deliverable ==
  ASSUME Types, PoliteInv, NEW K \in SUBSET rpcs, NEW k \in K
  PROVE  ~Undeliverable(K, k)
<1>1. listener[k[1]] # NoConn /\ ~idle[listener[k[1]]]
  BY DEF PoliteInv, Current
<1>2. ASSUME NEW x \in cancels PROVE fd[x[1]] # k[1]
  <2>1. PICK c \in Client, why \in Cause : x = <<c, why>>
    BY DEF Types
  <2>2. listener[fd[c]] = c /\ idle[c]
    BY <2>1 DEF PoliteInv, Closing
  <2>3. QED
    BY <1>1, <2>1, <2>2
<1>3. ASSUME NEW x \in K \ {k} PROVE x[1] # k[1]
  BY SameDescriptor DEF PoliteInv
<1>4. QED
  BY <1>1, <1>2, <1>3 DEF Undeliverable

\* The pool has a connection for the head of the deque if it has one for each
\* descriptor.
LEMMA IdleEnough ==
  ASSUME Types, PoliteInv, queue # <<>>, Cardinality(Pool) >= Cardinality(Fd)
  PROVE  IdleConnections # {}
<1>1. SUFFICES ASSUME \A p \in Pool : us_map[p] # NoRpc PROVE FALSE
  BY DEF IdleConnections
<1> DEFINE h == queue[1][1]
           G == Fd \ {h}
           f == [p \in Pool |-> us_map[p][1]]
<1>2. 1 \in 1 .. Len(queue) /\ queue[1] \in rpcs
  BY DEF Types, PoliteInv, Placed
<1>3. h \in Fd
  BY <1>2 DEF Types, Rpc
<1>4. ASSUME NEW p \in Pool PROVE us_map[p] \in rpcs /\ us_map[p][1] \in G
  <2>1. us_map[p] \in rpcs /\ us_map[p] # queue[1]
    BY <1>1, <1>2 DEF PoliteInv, Placed, Distinct
  <2>2. us_map[p][1] # h
    BY <1>2, <2>1, SameDescriptor DEF PoliteInv
  <2>3. QED
    BY <2>1, <2>2 DEF Types, Rpc
<1>5. ASSUME NEW p \in Pool, NEW r \in Pool, p # r PROVE us_map[p][1] # us_map[r][1]
  <2>1. us_map[p] # us_map[r]
    BY <1>1, <1>5 DEF PoliteInv, Distinct
  <2>2. QED
    BY <1>4, <2>1, SameDescriptor DEF PoliteInv
<1>6. f \in [Pool -> G]
  BY <1>4
<1>7. IsFiniteSet(G) /\ Cardinality(G) = Cardinality(Fd) - 1
  BY <1>3, FS_RemoveElement, EventLoopAssumption
<1>8. Cardinality(Fd) \in Nat /\ Cardinality(Pool) \in Nat
  BY FS_CardinalityType, EventLoopAssumption
<1>9. Cardinality(G) < Cardinality(Pool) /\ IsFiniteSet(Pool)
  BY <1>7, <1>8, EventLoopAssumption
<1> HIDE DEF G, f
<1>10. \E p, r \in Pool : p # r /\ f[p] = f[r]
  BY <1>6, <1>7, <1>9, FS_PigeonHole
<1>11. QED
  BY <1>5, <1>10 DEF f

LEMMA RecvCreditGrantPolite ==
  ASSUME Types, PoliteInv, NEW p \in Pool, RecvCreditGrant(p), aborted = "no"
  PROVE  /\ PoliteInv'
         /\ Cardinality(Pool) >= Cardinality(Fd) => aborted' # "protocol"
<1>1. credit = "sent" /\ queue # <<>> /\ drops \in SUBSET rpcs
  BY DEF RecvCreditGrant, PoliteInv, Credited, Placed
<1>2. \A k \in drops : ~Undeliverable(drops, k)
  BY <1>1, Deliverable
<1>3. CASE IdleConnections = {}
  <2>1. Fatal("protocol")
    BY <1>3 DEF RecvCreditGrant
  <2>2. QED
    BY <1>1, <1>3, <2>1, FatalPolite, IdleEnough DEF Fatal
<1>4. CASE Fatal("resources")
  BY <1>4, FatalPolite DEF Fatal
<1>5. CASE IdleConnections # {} /\ ~Fatal("resources")
  <2>1. /\ us_map[p] = NoRpc
        /\ us_map' = [us_map EXCEPT ![p] = Head(queue)]
        /\ queue' = Tail(queue)
        /\ Written(drops)
        /\ drops' \in Kept(drops)
        /\ credit' = CreditAfter(Tail(queue), "none")
        /\ UNCHANGED <<fd, status, last_id, listener, cancels, aborted>>
    BY <1>1, <1>2, <1>5
    DEF RecvCreditGrant, SubmitRequest, Route, IdleConnections
  <2>2. /\ Linked' /\ Closing' /\ Busy' /\ Current'
        /\ drops' = {} /\ rpcs' = rpcs \ drops
    BY <1>1, <2>1, WrittenPolite
  <2>3. /\ Len(queue) \in Nat /\ Len(queue) > 0 /\ Head(queue) = queue[1]
        /\ Len(Tail(queue)) = Len(queue) - 1
        /\ \A i \in 1 .. Len(queue) - 1 : Tail(queue)[i] = queue[i + 1]
    <3>1. queue \in Seq(Rpc)
      BY DEF Types
    <3>2. QED
      BY <1>1, <3>1, HeadTailProperties
  <2>4. ASSUME NEW r \in Pool
        PROVE  us_map'[r] = (IF r = p THEN queue[1] ELSE us_map[r])
    BY <2>1, <2>3 DEF Types
  <2>5. \A k \in rpcs : k # NoRpc
    BY EventLoopAssumption DEF Types, Rpc
  <2>6. Placed'
    <3>1. \A i \in 1 .. Len(queue') : queue'[i] \in rpcs'
      BY <2>1, <2>2, <2>3 DEF PoliteInv, Placed, Distinct
    <3>2. \A r \in Pool : us_map'[r] # NoRpc => us_map'[r] \in rpcs'
      BY <2>2, <2>3, <2>4 DEF PoliteInv, Placed, Distinct
    <3>3. ASSUME NEW k \in rpcs'
          PROVE  \/ \E i \in 1 .. Len(queue') : queue'[i] = k
                 \/ \E r \in Pool : us_map'[r] = k
      <4>1. \/ \E i \in 1 .. Len(queue) : queue[i] = k
            \/ \E r \in Pool : us_map[r] = k
        BY <2>2 DEF PoliteInv, Placed
      <4>2. CASE \E i \in 1 .. Len(queue) : queue[i] = k
        <5>1. PICK i \in 1 .. Len(queue) : queue[i] = k
          BY <4>2
        <5>2. CASE i = 1
          BY <2>4, <5>1, <5>2
        <5>3. CASE i # 1
          <6>1. i - 1 \in 1 .. Len(queue) - 1 /\ (i - 1) + 1 = i
            BY <2>3, <5>3
          <6>2. queue'[i - 1] = k /\ i - 1 \in 1 .. Len(queue')
            BY <2>1, <2>3, <5>1, <6>1
          <6>3. QED
            BY <6>2
        <5>4. QED
          BY <5>2, <5>3
      <4>3. CASE \E r \in Pool : us_map[r] = k
        BY <2>1, <2>2, <2>4, <2>5, <4>3
      <4>4. QED
        BY <4>1, <4>2, <4>3
    <3>4. QED
      BY <2>2, <3>1, <3>2, <3>3 DEF Placed
  <2>7. Distinct'
    <3>1. \A i, j \in 1 .. Len(queue') : queue'[i] = queue'[j] => i = j
      BY <2>1, <2>3 DEF PoliteInv, Distinct
    <3>2. \A r, x \in Pool : us_map'[r] = us_map'[x] /\ us_map'[r] # NoRpc => r = x
      BY <2>3, <2>4 DEF PoliteInv, Distinct
    <3>3. \A r \in Pool, i \in 1 .. Len(queue') : us_map'[r] # queue'[i]
      <4>1. ASSUME NEW i \in 1 .. Len(queue')
            PROVE  /\ i + 1 \in 1 .. Len(queue) /\ queue'[i] = queue[i + 1]
                   /\ i + 1 # 1 /\ 1 \in 1 .. Len(queue)
        BY <2>1, <2>3
      <4>2. QED
        BY <2>4, <4>1 DEF PoliteInv, Distinct
    <3>4. QED
      BY <2>2, <3>1, <3>2, <3>3 DEF Distinct
  <2>8. Credited'
    BY <2>1 DEF Credited, CreditAfter, NeedsCreditRequest
  <2>9. QED
    BY <2>1, <2>2, <2>6, <2>7, <2>8 DEF PoliteInv
<1>6. QED
  BY <1>3, <1>4, <1>5

LEMMA RecvResponsePolite ==
  ASSUME Types, PoliteInv, NEW p \in Pool, RecvResponse(p), aborted = "no"
  PROVE  PoliteInv' /\ aborted' # "protocol"
<1> DEFINE K == drops \cup {us_map[p]}
<1>1. us_map[p] # NoRpc /\ K \in SUBSET rpcs
  BY DEF RecvResponse, PoliteInv, Placed
<1>2. \A k \in K : ~Undeliverable(K, k)
  <2> HIDE DEF K
  <2>1. QED
    BY <1>1, Deliverable
<1>3. CASE Fatal("resources")
  BY <1>3, FatalPolite DEF Fatal
<1>4. CASE ~Fatal("resources")
  <2>1. /\ us_map' = [us_map EXCEPT ![p] = NoRpc]
        /\ Written(K)
        /\ drops' \in Kept(K)
        /\ credit' = CreditAfter(queue, credit)
        /\ UNCHANGED <<fd, status, last_id, listener, queue, cancels, aborted>>
    BY <1>2, <1>4 DEF RecvResponse
  <2>2. /\ Linked' /\ Closing' /\ Busy' /\ Current'
        /\ drops' = {} /\ rpcs' = rpcs \ K
    <3> HIDE DEF K
    <3>1. QED
      BY <1>1, <2>1, WrittenPolite
  <2>3. ASSUME NEW r \in Pool
        PROVE  us_map'[r] = (IF r = p THEN NoRpc ELSE us_map[r])
    BY <2>1 DEF Types
  <2>4. Placed'
    <3>1. \A i \in 1 .. Len(queue') : queue'[i] \in rpcs'
      BY <2>1, <2>2 DEF PoliteInv, Placed, Distinct
    <3>2. \A r \in Pool : us_map'[r] # NoRpc => us_map'[r] \in rpcs'
      BY <2>2, <2>3 DEF PoliteInv, Placed, Distinct
    <3>3. ASSUME NEW k \in rpcs'
          PROVE  \/ \E i \in 1 .. Len(queue') : queue'[i] = k
                 \/ \E r \in Pool : us_map'[r] = k
      BY <2>1, <2>2, <2>3 DEF PoliteInv, Placed
    <3>4. QED
      BY <2>2, <3>1, <3>2, <3>3 DEF Placed
  <2>5. Distinct'
    <3>1. \A i \in 1 .. Len(queue) : queue[i] # NoRpc
      BY EventLoopAssumption DEF PoliteInv, Placed, Types, Rpc
    <3>2. QED
      BY <2>1, <2>2, <2>3, <3>1 DEF PoliteInv, Distinct
  <2>6. Credited'
    BY <2>1 DEF PoliteInv, Credited, CreditAfter, NeedsCreditRequest
  <2>7. QED
    BY <2>1, <2>2, <2>4, <2>5, <2>6 DEF PoliteInv
<1>5. QED
  BY <1>3, <1>4

LEMMA DonePolite ==
  ASSUME PoliteInv, SendDone \/ \E c \in Client \cup Pool : WriteDone(c)
  PROVE  PoliteInv' /\ aborted' = aborted
<1>1. /\ UNCHANGED <<fd, status, idle, last_id, listener, cancels, rpcs, queue,
                     drops, us_map, aborted>>
      /\ credit' = credit \/ credit # "none"
  BY DEF SendDone, WriteDone, connVars, rpcVars
<1>2. Linked' /\ Closing' /\ Busy' /\ Current'
  BY <1>1 DEF PoliteInv, Linked, ConnectionsReachable, Closing, Busy, Current
<1>3. QED
  BY <1>1, <1>2, PlacesKept DEF PoliteInv

-----------------------------------------------------------------------------
(* The invariant *)

\* The pool has a connection for every descriptor a client may have.
LargePool == Cardinality(Pool) >= Cardinality(Fd)

Safe == LargePool => aborted # "protocol"

Inv == RingInv /\ (Polite => PoliteInv /\ Safe)

LEMMA PoliteStep ==
  ASSUME Types, PoliteInv, Polite, Safe, [Next]_allVars
  PROVE  PoliteInv' /\ Safe'
<1>1. CASE UNCHANGED allVars
  BY <1>1, FatalPolite DEF allVars, Safe, LargePool
<1>2. CASE aborted = "no" /\ \E c \in Client, f \in Fd : Accept(c, f)
  <2>1. aborted' # "protocol"
    BY <1>2 DEF Accept, Fatal
  <2>2. QED
    BY <1>2, <2>1, AcceptPolite DEF Safe
<1>3. CASE aborted = "no" /\ \E c \in Client : ReadRequest(c)
  <2>1. PICK c \in Client : ReadRequest(c)
    BY <1>3
  <2>2. PoliteInv' /\ ~Fatal("protocol")
    BY <2>1, ReadRequestPolite
  <2>3. aborted' \in {"resources", "no"}
    BY <1>3, <2>1, <2>2 DEF ReadRequest, Fatal
  <2>4. QED
    BY <2>2, <2>3 DEF Safe
<1>4. CASE aborted = "no" /\ \E c \in Client : ReadEnd(c)
  <2>1. aborted' # "protocol"
    BY <1>4 DEF ReadEnd, Fatal
  <2>2. QED
    BY <1>4, <2>1, ReadEndPolite DEF Safe, Polite
<1>5. CASE aborted = "no" /\ \E c \in Client, why \in Cause : Cancel(c, why)
  <2>1. PICK c \in Client, why \in Cause : Cancel(c, why)
    BY <1>5
  <2>2. PoliteInv' /\ ~Fatal("protocol")
    BY <2>1, CancelPolite
  <2>3. aborted' = "no"
    BY <1>5, <2>1, <2>2 DEF Cancel
  <2>4. QED
    BY <2>2, <2>3 DEF Safe
<1>6. CASE aborted = "no" /\ \E p \in Pool : RecvCreditGrant(p) \/ RecvResponse(p)
  <2>1. PoliteInv' /\ (LargePool => aborted' # "protocol")
    BY <1>6, RecvCreditGrantPolite, RecvResponsePolite DEF LargePool
  <2>2. QED
    BY <2>1 DEF Safe, LargePool
<1>7. CASE SendDone \/ \E c \in Client \cup Pool : WriteDone(c)
  BY <1>7, DonePolite DEF Safe, LargePool
<1>8. \A c \in Client : ~ReadUnsupported(c) /\ ~ConnectionReset(c)
  BY DEF Polite, ReadUnsupported, ConnectionReset
<1>9. QED
  BY <1>1, <1>2, <1>3, <1>4, <1>5, <1>6, <1>7, <1>8 DEF Next

\* The clients do not change their manners.
LEMMA PoliteKept == ASSUME [Next]_allVars PROVE impolite' = impolite
  BY DEF Next, allVars, loopVars, Accept, ReadRequest, ReadUnsupported, ReadEnd,
         Cancel, ConnectionReset, RecvCreditGrant, RecvResponse, WriteDone,
         SendDone, Fatal

LEMMA Invariance == Spec => []Inv
<1>1. Init => Inv
  BY RingInit, InitPolite DEF Inv, Safe, Init
<1>2. Inv /\ [Next]_allVars => Inv'
  <2>1. SUFFICES ASSUME Inv, [Next]_allVars PROVE Inv'
    OBVIOUS
  <2>2. RingInv' /\ Types
    BY <2>1, RingInvariant, RingFacts DEF Inv
  <2>3. Polite' => Polite
    BY <2>1, PoliteKept DEF Polite
  <2>4. QED
    BY <2>1, <2>2, <2>3, PoliteStep DEF Inv
<1>3. QED
  BY <1>1, <1>2, PTL DEF Spec

-----------------------------------------------------------------------------
(* Theorems *)

\* Every variable keeps its type, and the pools of UserData and of write
\* buffers never hold more than they started with (buffer_manager.cc).
THEOREM TypeCorrect == Spec => []TypeOK
<1>1. Inv => TypeOK
  BY DEF Inv, RingInv
<1>2. QED
  BY <1>1, Invariance, PTL

\* Whatever the clients do, no UserData is handed out while an operation in the
\* ring refers to it (get_user_data and the completions of event_loop.cc).
THEOREM UserDataNeverShared == Spec => []NoStaleUserData
<1>1. Inv => NoStaleUserData
  BY DEF Inv, RingInv
<1>2. QED
  BY <1>1, Invariance, PTL

\* Whatever the clients do, each write buffer is free or belongs to one WRITE in
\* the ring (write_http, the WRITE completion).
THEOREM BuffersAccounted == Spec => []WriteBuffersAccounted
<1>1. Inv => WriteBuffersAccounted
  BY DEF Inv, RingInv
<1>2. QED
  BY <1>1, Invariance, PTL

\* Clients that wait for their answers always have a connection the listener
\* knows, although descriptors are used again (event_loop.cc:280).
THEOREM PoliteReachable == Spec => []PoliteConnectionsReachable
<1>1. Inv => PoliteConnectionsReachable
  BY DEF Inv, PoliteInv, Linked, PoliteConnectionsReachable
<1>2. QED
  BY <1>1, Invariance, PTL

\* While the clients wait for their answers, a connection that is not idle has
\* one RPC in ds_map, and that RPC is in the deque, in rpc_queue as a 503 or on
\* one pool connection (http_read, forward, http_write).
THEOREM OneRpcEach == Spec => []OneRpcPerConnection
<1>1. ASSUME Inv, Polite PROVE OneRpcPerConnection
  <2>1. Types /\ PoliteInv
    BY <1>1, RingFacts DEF Inv
  <2>2. ASSUME NEW f \in Fd, listener[f] # NoConn
        PROVE  Cardinality({k \in rpcs : k[1] = f}) = (IF idle[listener[f]] THEN 0 ELSE 1)
    <3> DEFINE T == {k \in rpcs : k[1] = f}
               c == listener[f]
    <3>1. c \in Client /\ fd[c] = f
      BY <2>1, <2>2 DEF Types, PoliteInv, Linked
    <3>2. CASE idle[c]
      <4>1. T = {}
        BY <2>1, <3>2 DEF PoliteInv, Current
      <4>2. QED
        BY <3>2, <4>1, FS_EmptySet
    <3>3. CASE ~idle[c]
      <4> DEFINE x == <<f, last_id[c]>>
      <4>1. x \in rpcs
        BY <2>1, <3>1, <3>3 DEF PoliteInv, Busy
      <4>2. T = {x}
        BY <2>1, <4>1, SameDescriptor DEF PoliteInv
      <4>3. QED
        BY <3>3, <4>2, FS_Singleton
    <3>4. QED
      BY <3>2, <3>3
  <2>3. ASSUME NEW k \in rpcs
        PROVE  Cardinality({i \in DOMAIN queue : queue[i] = k})
                 + Cardinality({p \in Pool : us_map[p] = k})
                 + (IF k \in drops THEN 1 ELSE 0) = 1
    <3> DEFINE Q == {i \in DOMAIN queue : queue[i] = k}
               P == {p \in Pool : us_map[p] = k}
    <3>1. k # NoRpc /\ DOMAIN queue = 1 .. Len(queue)
      BY <2>1, EventLoopAssumption DEF Types, Rpc
    <3>2. CASE \E i \in 1 .. Len(queue) : queue[i] = k
      <4>1. PICK i \in 1 .. Len(queue) : queue[i] = k
        BY <3>2
      <4>2. Q = {i}
        BY <2>1, <3>1, <4>1 DEF PoliteInv, Distinct
      <4>3. P = {} /\ k \notin drops
        BY <2>1, <4>1 DEF PoliteInv, Distinct
      <4>4. Cardinality(Q) = 1 /\ Cardinality(P) = 0
        BY <4>2, <4>3, FS_Singleton, FS_EmptySet
      <4>5. QED
        BY <4>3, <4>4
    <3>3. CASE k \in drops
      <4>1. Q = {} /\ P = {}
        BY <2>1, <3>1, <3>3 DEF PoliteInv, Distinct
      <4>2. QED
        BY <3>3, <4>1, FS_EmptySet
    <3>4. CASE \E p \in Pool : us_map[p] = k
      <4>1. PICK p \in Pool : us_map[p] = k
        BY <3>4
      <4>2. P = {p}
        BY <2>1, <3>1, <4>1 DEF PoliteInv, Distinct
      <4>3. Q = {} /\ k \notin drops
        BY <2>1, <3>1, <4>1 DEF PoliteInv, Distinct
      <4>4. Cardinality(P) = 1 /\ Cardinality(Q) = 0
        BY <4>2, <4>3, FS_Singleton, FS_EmptySet
      <4>5. QED
        BY <4>3, <4>4
    <3>5. QED
      BY <2>1, <3>2, <3>3, <3>4 DEF PoliteInv, Placed
  <2>4. QED
    BY <2>2, <2>3 DEF OneRpcPerConnection
<1>2. Inv => OneRpcPerConnection
  BY <1>1 DEF OneRpcPerConnection
<1>3. QED
  BY <1>2, Invariance, PTL

\* If the pool has a connection for every descriptor and the clients wait for
\* their answers, no check of the event loop ends the process (the LOG(FATAL)
\* and CHECK of http_read, forward, CANCEL and get_any_connection).
THEOREM NeverAborts == ASSUME LargePool PROVE Spec => []NoProtocolAbort
<1>1. Inv => NoProtocolAbort
  BY DEF Inv, Safe, NoProtocolAbort
<1>2. QED
  BY <1>1, Invariance, PTL

-----------------------------------------------------------------------------
(* The loop implements Worker *)

InLine(k) == \E i \in DOMAIN queue : queue[i] = k
OnPool(k) == \E p \in Pool : us_map[p] = k

\* The connection of an RPC waits for it, and for no other one.
LEMMA OwnerOf ==
  ASSUME Types, PoliteInv, NEW k \in rpcs
  PROVE  /\ listener[k[1]] \in Client /\ LastRpc(listener[k[1]]) = k
         /\ status[listener[k[1]]] = "UP" /\ ~idle[listener[k[1]]]
<1>1. k \in Fd \X (1 .. MaxStream) /\ listener \in [Fd -> Client \cup {NoConn}]
  BY DEF Types, Rpc
<1>2. listener[k[1]] # NoConn /\ ~idle[listener[k[1]]] /\ k[2] = last_id[listener[k[1]]]
  BY DEF PoliteInv, Current
<1>3. listener[k[1]] \in Client /\ fd[listener[k[1]]] = k[1]
  BY <1>1, <1>2 DEF PoliteInv, Linked
<1>4. k = <<k[1], k[2]>>
  BY <1>1
<1>5. QED
  BY <1>2, <1>3, <1>4 DEF LastRpc, PoliteInv, Busy

LEMMA RpcOf ==
  ASSUME Types, PoliteInv, NEW c \in Client, ~idle[c]
  PROVE  /\ LastRpc(c) \in rpcs /\ status[c] = "UP" /\ listener[fd[c]] = c
         /\ LastRpc(c)[1] = fd[c] /\ LastRpc(c) # NoRpc
  BY EventLoopAssumption
  DEF PoliteInv, Busy, Linked, ConnectionsReachable, LastRpc, Types, Rpc

LEMMA PlacesFacts ==
  ASSUME Types, PoliteInv
  PROVE  /\ queue \in Seq(Rpc) /\ DOMAIN queue = 1 .. Len(queue) /\ Len(queue) \in Nat
         /\ \A i \in DOMAIN queue : queue[i] \in rpcs
         /\ \A k \in rpcs : InLine(k) \/ k \in drops \/ OnPool(k)
<1>1. queue \in Seq(Rpc)
  BY DEF Types
<1>2. DOMAIN queue = 1 .. Len(queue) /\ Len(queue) \in Nat
  BY <1>1
<1>3. QED
  BY <1>1, <1>2 DEF PoliteInv, Placed, InLine, OnPool

LEMMA SamePhase ==
  ASSUME NEW c \in Client, status'[c] = status[c], idle'[c] = idle[c],
         LastRpc(c)' = LastRpc(c),
         idle[c] \/ status[c] # "UP" \/
           /\ InLine(LastRpc(c))' <=> InLine(LastRpc(c))
           /\ LastRpc(c) \in drops' <=> LastRpc(c) \in drops
           /\ OnPool(LastRpc(c))' <=> OnPool(LastRpc(c))
  PROVE  PhaseOf(c)' = PhaseOf(c)
  BY DEF PhaseOf, InLine, OnPool

\* The line is a sequence of clients.
LEMMA LineFacts ==
  ASSUME Types, PoliteInv
  PROVE  /\ Line \in Seq(Client) /\ DOMAIN Line = DOMAIN queue
         /\ Len(Line) = Len(queue)
         /\ \A i \in DOMAIN queue : Line[i] = listener[queue[i][1]]
         /\ Line = <<>> <=> queue = <<>>
<1>1. \A i \in DOMAIN queue : listener[queue[i][1]] \in Client
  BY OwnerOf, PlacesFacts
<1>2. Line \in [1 .. Len(queue) -> Client] /\ Len(queue) \in Nat
  BY <1>1, PlacesFacts DEF Line
<1>3. Line \in Seq(Client) /\ Len(Line) = Len(queue)
  BY <1>2
<1>4. Line = <<>> <=> queue = <<>>
  BY <1>3, PlacesFacts
<1>5. QED
  BY <1>3, <1>4, PlacesFacts DEF Line

LEMMA SameLine ==
  ASSUME queue' = queue, \A i \in DOMAIN queue : listener'[queue[i][1]] = listener[queue[i][1]]
  PROVE  Line' = Line
  BY DEF Line

LEMMA QuietWorker ==
  ASSUME UNCHANGED <<fd, status, idle, last_id, listener, queue, drops, us_map>>
  PROVE  UNCHANGED W!workerVars
<1>1. Line' = Line
  BY DEF Line
<1>2. \A c \in Client : PhaseOf(c)' = PhaseOf(c)
  BY DEF PhaseOf, LastRpc
<1>3. Phases' = Phases
  BY <1>2 DEF Phases
<1>4. QED
  BY <1>1, <1>3 DEF W!workerVars

LEMMA FatalWorker ==
  ASSUME NEW reason, Fatal(reason)
  PROVE  UNCHANGED W!workerVars
  BY QuietWorker DEF Fatal, loopVars, connVars, rpcVars

LEMMA BecomeFacts ==
  ASSUME NEW c \in Client, NEW old, NEW new,
         PhaseOf(c) = old, PhaseOf(c)' = new,
         \A x \in Client \ {c} : PhaseOf(x)' = PhaseOf(x)
  PROVE  W!Become(c, old, new)
<1>1. Phases[c] = old
  BY DEF Phases
<1>2. Phases' = [Phases EXCEPT ![c] = new]
  BY DEF Phases
<1>3. QED
  BY <1>1, <1>2 DEF W!Become

LEMMA AcceptWorker ==
  ASSUME Types, PoliteInv, NEW c \in Client, NEW f \in Fd, Accept(c, f)
  PROVE  [W!Next]_(W!workerVars)
<1>1. CASE Fatal("resources")
  BY <1>1, FatalWorker
<1>2. CASE ~Fatal("resources")
  <2>1. /\ AddConnection(c, f) /\ Gone(c) /\ listener[f] = NoConn
        /\ UNCHANGED <<queue, drops, us_map>>
    BY <1>2 DEF Accept, rpcVars
  <2>2. status[c] # "UP"
    BY <2>1 DEF PoliteInv, Linked, ConnectionsReachable, Gone, Types
  <2>3. status'[c] = "UP" /\ idle'[c]
    BY <2>1 DEF AddConnection, Types
  <2>4. ASSUME NEW x \in Client \ {c} PROVE PhaseOf(x)' = PhaseOf(x)
    <3>1. /\ status'[x] = status[x] /\ idle'[x] = idle[x]
          /\ LastRpc(x)' = LastRpc(x)
      BY <2>1 DEF AddConnection, Types, LastRpc
    <3>2. QED
      BY <2>1, <3>1, SamePhase DEF InLine, OnPool
  <2>5. W!Become(c, "closed", "idle")
    <3>1. PhaseOf(c) = "closed" /\ PhaseOf(c)' = "idle"
      BY <2>2, <2>3 DEF PhaseOf
    <3>2. QED
      BY <2>4, <3>1, BecomeFacts
  <2>6. Line' = Line
    <3>1. ASSUME NEW i \in DOMAIN queue
          PROVE  listener'[queue[i][1]] = listener[queue[i][1]]
      <4>1. queue[i] \in Fd \X (1 .. MaxStream) /\ listener[queue[i][1]] \in Client
        BY OwnerOf, PlacesFacts DEF Types, Rpc
      <4>2. queue[i][1] \in Fd /\ queue[i][1] # f
        BY <2>1, <4>1, EventLoopAssumption
      <4>3. QED
        BY <2>1, <4>2 DEF AddConnection, Types
    <3>2. QED
      BY <2>1, <3>1, SameLine
  <2>7. QED
    BY <2>5, <2>6 DEF W!Next, W!Connect
<1>3. QED
  BY <1>1, <1>2

LEMMA ReadEndWorker ==
  ASSUME Types, PoliteInv, impolite = {}, NEW c \in Client, ReadEnd(c)
  PROVE  [W!Next]_(W!workerVars)
<1>1. CASE Fatal("resources")
  BY <1>1, FatalWorker
<1>2. CASE ~Fatal("resources")
  <2>1. /\ status[c] = "UP" /\ idle[c] /\ TearDown(c, Ended)
        /\ UNCHANGED <<fd, idle, last_id, listener, queue, drops, us_map>>
    BY <1>2 DEF ReadEnd, rpcVars
  <2>2. /\ status'[c] = "TEARDOWN"
        /\ \A x \in Client \ {c} : status'[x] = status[x]
    BY <2>1 DEF TearDown, Types
  <2>3. ASSUME NEW x \in Client \ {c} PROVE PhaseOf(x)' = PhaseOf(x)
    BY <2>1, <2>2, SamePhase DEF InLine, OnPool, LastRpc
  <2>4. W!Become(c, "idle", "closed")
    <3>1. PhaseOf(c) = "idle" /\ PhaseOf(c)' = "closed"
      BY <2>1, <2>2 DEF PhaseOf
    <3>2. QED
      BY <2>3, <3>1, BecomeFacts
  <2>5. Line' = Line
    BY <2>1, SameLine
  <2>6. QED
    BY <2>4, <2>5 DEF W!Next, W!Close
<1>3. QED
  BY <1>1, <1>2

\* A CANCEL forgets a descriptor no waiting request has.
LEMMA CancelWorker ==
  ASSUME Types, PoliteInv, NEW c \in Client, NEW why \in Cause, Cancel(c, why)
  PROVE  UNCHANGED W!workerVars
<1>1. CASE Fatal("protocol")
  BY <1>1, FatalWorker
<1>2. CASE ~Fatal("protocol")
  <2>1. /\ ~CheckFdExists(fd[c])
        /\ listener' = [listener EXCEPT ![fd[c]] = NoConn]
        /\ UNCHANGED <<fd, status, idle, last_id, queue, drops, us_map>>
    BY <1>2 DEF Cancel, RemoveConnection, rpcVars
  <2>2. ASSUME NEW x \in Client PROVE PhaseOf(x)' = PhaseOf(x)
    BY <2>1, SamePhase DEF InLine, OnPool, LastRpc
  <2>3. Phases' = Phases
    BY <2>2 DEF Phases
  <2>4. Line' = Line
    <3>1. ASSUME NEW i \in DOMAIN queue
          PROVE  listener'[queue[i][1]] = listener[queue[i][1]]
      <4>1. queue[i][1] # fd[c]
        BY <2>1, PlacesFacts DEF CheckFdExists
      <4>2. queue[i][1] \in Fd
        BY PlacesFacts DEF Types, Rpc
      <4>3. QED
        BY <2>1, <4>1, <4>2 DEF Types
    <3>2. QED
      BY <2>1, <3>1, SameLine
  <2>5. QED
    BY <2>3, <2>4 DEF W!workerVars
<1>3. QED
  BY <1>1, <1>2

\* A new request is the last in line, or its client has a 503 to come.
LEMMA ReadRequestWorker ==
  ASSUME Types, PoliteInv, NEW c \in Client, ReadRequest(c)
  PROVE  [W!Next]_(W!workerVars)
<1> DEFINE k == <<fd[c], last_id[c] + 1>>
<1>1. /\ status[c] = "UP" /\ idle[c] /\ listener[fd[c]] = c
      /\ fd[c] \in Fd /\ last_id[c] \in Nat /\ k[1] = fd[c]
  BY DEF ReadRequest, PoliteInv, Linked, ConnectionsReachable, Types
<1>2. k \notin rpcs /\ k \in Rpc
  <2>1. \A x \in rpcs : x[1] # fd[c]
    BY <1>1, OwnerOf
  <2>2. last_id[c] + 1 \in 1 .. MaxStream
    BY <1>1, EventLoopAssumption DEF ReadRequest, Types
  <2>3. QED
    BY <1>1, <2>1, <2>2 DEF Rpc
<1>3. CASE Fatal("resources")
  BY <1>3, FatalWorker
<1>4. CASE ~Fatal("resources")
  <2>1. PICK admitted \in BOOLEAN :
          /\ ~admitted => queue # <<>>
          /\ last_id' = [last_id EXCEPT ![c] = @ + 1]
          /\ idle' = [idle EXCEPT ![c] = FALSE]
          /\ queue' = IF admitted THEN Append(queue, k) ELSE queue
          /\ drops' = IF admitted THEN drops ELSE drops \cup {k}
          /\ UNCHANGED <<fd, status, listener, us_map>>
    BY <1>2, <1>4 DEF ReadRequest
  <2>2. /\ LastRpc(c)' = k /\ ~idle'[c] /\ status'[c] = "UP" /\ PhaseOf(c) = "idle"
        /\ \A x \in Client \ {c} : /\ LastRpc(x)' = LastRpc(x) /\ idle'[x] = idle[x]
                                   /\ status'[x] = status[x]
    BY <1>1, <2>1 DEF Types, LastRpc, PhaseOf
  <2>3. \A x \in Client \ {c} : idle[x] \/ LastRpc(x) # k
    BY <1>1, RpcOf
  <2>4. ~InLine(k)
    BY <1>2, PlacesFacts DEF InLine
  <2> HIDE DEF k
  <2>5. CASE admitted
    <3>1. /\ queue' = Append(queue, k) /\ drops' = drops
          /\ DOMAIN queue' = 1 .. Len(queue) + 1 /\ queue'[Len(queue) + 1] = k
          /\ \A i \in 1 .. Len(queue) : queue'[i] = queue[i]
          /\ Len(queue) \in Nat
      BY <1>2, <2>1, <2>5, PlacesFacts
    <3>2. \E i \in DOMAIN queue' : queue'[i] = k
      BY <3>1
    <3>3. PhaseOf(c)' = "queued"
      BY <2>2, <3>2 DEF PhaseOf
    <3>4. ASSUME NEW x \in Client \ {c} PROVE PhaseOf(x)' = PhaseOf(x)
      <4>1. idle[x] \/ (InLine(LastRpc(x))' <=> InLine(LastRpc(x)))
        BY <2>2, <2>3, <3>1, PlacesFacts DEF InLine
      <4>2. OnPool(LastRpc(x))' <=> OnPool(LastRpc(x))
        BY <2>1, <2>2 DEF OnPool
      <4>3. QED
        BY <2>2, <3>1, <4>1, <4>2, SamePhase
    <3>5. W!Become(c, "idle", "queued")
      BY <2>2, <3>3, <3>4, BecomeFacts
    <3>6. Line' = Append(Line, c)
      <4>1. Line' = [i \in 1 .. Len(queue) + 1 |->
                       IF i = Len(queue) + 1 THEN c ELSE Line[i]]
        <5>1. ASSUME NEW i \in 1 .. Len(queue) + 1
              PROVE  listener'[queue'[i][1]] = IF i = Len(queue) + 1 THEN c ELSE Line[i]
          <6>1. CASE i = Len(queue) + 1
            BY <1>1, <2>1, <3>1, <6>1
          <6>2. CASE i # Len(queue) + 1
            <7>1. i \in 1 .. Len(queue)
              BY <3>1, <6>2
            <7>2. QED
              BY <2>1, <3>1, <6>2, <7>1, LineFacts, PlacesFacts
          <6>3. QED
            BY <6>1, <6>2
        <5>2. QED
          BY <3>1, <5>1 DEF Line
      <4>2. Line \in Seq(Client) /\ Len(Line) = Len(queue)
        BY LineFacts
      <4>3. /\ Append(Line, c) \in Seq(Client) /\ Len(Append(Line, c)) = Len(queue) + 1
            /\ \A i \in 1 .. Len(queue) : Append(Line, c)[i] = Line[i]
            /\ Append(Line, c)[Len(queue) + 1] = c
        BY <4>2, AppendProperties
      <4>4. /\ Line' \in Seq(Client) /\ Len(Line') = Len(queue) + 1
            /\ \A i \in 1 .. Len(queue) + 1 : Line'[i] = Append(Line, c)[i]
        BY <3>1, <4>1, <4>2, <4>3
      <4>5. QED
        BY <4>3, <4>4, SeqEqual
    <3>7. QED
      BY <3>5, <3>6 DEF W!Next, W!Admit
  <2>6. CASE ~admitted
    <3>1. queue' = queue /\ drops' = drops \cup {k} /\ queue # <<>>
      BY <2>1, <2>6
    <3>2. PhaseOf(c)' = "dropped"
      BY <2>2, <2>4, <3>1 DEF PhaseOf, InLine
    <3>3. ASSUME NEW x \in Client \ {c} PROVE PhaseOf(x)' = PhaseOf(x)
      <4>1. /\ InLine(LastRpc(x))' <=> InLine(LastRpc(x))
            /\ OnPool(LastRpc(x))' <=> OnPool(LastRpc(x))
        BY <2>1, <2>2, <3>1 DEF InLine, OnPool
      <4>2. QED
        BY <2>2, <2>3, <3>1, <4>1, SamePhase
    <3>4. W!Become(c, "idle", "dropped")
      BY <2>2, <3>2, <3>3, BecomeFacts
    <3>5. Line' = Line /\ Line # <<>>
      BY <2>1, <3>1, SameLine, LineFacts
    <3>6. QED
      BY <3>4, <3>5 DEF W!Next, W!Reject
  <2>7. QED
    BY <2>5, <2>6
<1>5. QED
  BY <1>3, <1>4

\* The responses K are written to the clients that wait for them.
LEMMA WrittenIdle ==
  ASSUME Types, PoliteInv, NEW K \in SUBSET rpcs, Written(K), NEW c \in Client
  PROVE  idle'[c] <=> idle[c] \/ LastRpc(c) \in K
<1>1. K = {} \/ ~NoConnections
  BY DEF Types, PoliteInv, Current, NoConnections, Rpc
<1>2. idle'[c] <=> idle[c] \/ \E k \in K : listener[k[1]] = c
  BY <1>1 DEF Types, Written, Owners
<1>3. ASSUME NEW k \in K, listener[k[1]] = c PROVE LastRpc(c) \in K
  BY <1>3, OwnerOf
<1>4. ASSUME ~idle[c], LastRpc(c) \in K PROVE \E k \in K : listener[k[1]] = c
  BY <1>4, RpcOf
<1>5. ASSUME idle[c], LastRpc(c) \in K PROVE idle'[c]
  BY <1>2, <1>5
<1>6. QED
  BY <1>2, <1>3, <1>4, <1>5

\* A client whose answer is not among those written stays where it is.
LEMMA FlushedPhase ==
  ASSUME Types, PoliteInv, NEW K \in SUBSET rpcs, Written(K), drops \subseteq K,
         UNCHANGED <<fd, status, last_id>>, NEW c \in Client,
         drops' = {},
         LastRpc(c) \in rpcs \ K =>
           /\ InLine(LastRpc(c))' <=> InLine(LastRpc(c))
           /\ OnPool(LastRpc(c))' <=> OnPool(LastRpc(c))
  PROVE  PhaseOf(c)' = IF ~idle[c] /\ LastRpc(c) \in K THEN "idle" ELSE PhaseOf(c)
<1>1. LastRpc(c)' = LastRpc(c) /\ status'[c] = status[c]
  BY DEF LastRpc
<1>2. idle'[c] <=> idle[c] \/ LastRpc(c) \in K
  BY WrittenIdle
<1>3. CASE idle[c]
  BY <1>1, <1>2, <1>3 DEF PhaseOf
<1>4. CASE ~idle[c]
  <2>1. LastRpc(c) \in rpcs /\ status[c] = "UP"
    BY <1>4, RpcOf
  <2>2. CASE LastRpc(c) \in K
    BY <1>1, <1>2, <1>4, <2>1, <2>2 DEF PhaseOf
  <2>3. CASE LastRpc(c) \notin K
    BY <1>1, <1>2, <1>4, <2>1, <2>3 DEF PhaseOf, InLine, OnPool
  <2>4. QED
    BY <2>2, <2>3
<1>5. QED
  BY <1>3, <1>4

\* Which clients are dropped or sent.
LEMMA WaitingPhase ==
  ASSUME Types, PoliteInv, NEW c \in Client
  PROVE  /\ PhaseOf(c) = "dropped" <=> ~idle[c] /\ LastRpc(c) \in drops
         /\ PhaseOf(c) = "sent" <=> ~idle[c] /\ OnPool(LastRpc(c))
         /\ PhaseOf(c) = "queued" <=> ~idle[c] /\ InLine(LastRpc(c))
<1>1. CASE idle[c]
  BY <1>1 DEF PhaseOf
<1>2. CASE ~idle[c]
  <2>1. status[c] = "UP" /\ LastRpc(c) \in rpcs
    BY <1>2, RpcOf
  <2>2. /\ InLine(LastRpc(c)) => LastRpc(c) \notin drops /\ ~OnPool(LastRpc(c))
        /\ OnPool(LastRpc(c)) => LastRpc(c) \notin drops
    BY PlacesFacts DEF PoliteInv, Distinct, InLine, OnPool
  <2>3. InLine(LastRpc(c)) \/ LastRpc(c) \in drops \/ OnPool(LastRpc(c))
    BY <2>1, PlacesFacts
  <2>4. QED
    BY <1>2, <2>1, <2>2, <2>3 DEF PhaseOf, InLine, OnPool
<1>3. QED
  BY <1>1, <1>2

LEMMA RecvResponseWorker ==
  ASSUME Types, PoliteInv, NEW p \in Pool, RecvResponse(p)
  PROVE  [W!Next]_(W!workerVars)
<1> DEFINE K == drops \cup {us_map[p]}
           c == listener[us_map[p][1]]
<1>1. us_map[p] # NoRpc /\ K \in SUBSET rpcs /\ us_map[p] \in rpcs /\ drops \subseteq K
  BY DEF RecvResponse, PoliteInv, Placed
<1>2. c \in Client /\ LastRpc(c) = us_map[p] /\ ~idle[c]
  BY <1>1, OwnerOf
<1>3. \A k \in K : ~Undeliverable(K, k)
  <2> HIDE DEF K
  <2>1. QED
    BY <1>1, Deliverable
<1>4. CASE Fatal("resources")
  BY <1>4, FatalWorker
<1>5. CASE ~Fatal("resources")
  <2>1. /\ us_map' = [us_map EXCEPT ![p] = NoRpc]
        /\ Written(K) /\ drops' \in Kept(K)
        /\ UNCHANGED <<fd, status, last_id, listener, queue, cancels>>
    BY <1>3, <1>5 DEF RecvResponse
  <2>2. drops' = {}
    <3> HIDE DEF K
    <3>1. QED
      BY <1>1, <2>1, WrittenPolite
  <2>3. ASSUME NEW x \in Client
        PROVE  PhaseOf(x)' = IF ~idle[x] /\ LastRpc(x) \in K THEN "idle" ELSE PhaseOf(x)
    <3>1. ASSUME LastRpc(x) \in rpcs \ K
          PROVE  /\ InLine(LastRpc(x))' <=> InLine(LastRpc(x))
                 /\ OnPool(LastRpc(x))' <=> OnPool(LastRpc(x))
      <4>1. LastRpc(x)' = LastRpc(x) /\ LastRpc(x) # us_map[p] /\ LastRpc(x) # NoRpc
        BY <2>1, <3>1, EventLoopAssumption DEF LastRpc, Types, Rpc
      <4>2. QED
        BY <2>1, <4>1 DEF InLine, OnPool, Types
    <3> HIDE DEF K
    <3>2. QED
      BY <1>1, <2>1, <2>2, <3>1, FlushedPhase
  <2>4. ASSUME NEW x \in Client
        PROVE  ~idle[x] /\ LastRpc(x) \in K <=> x = c \/ PhaseOf(x) = "dropped"
    <3>1. ~idle[x] /\ LastRpc(x) = us_map[p] <=> x = c
      BY <1>2, RpcOf
    <3>2. QED
      BY <3>1, WaitingPhase
  <2>5. Phases[c] = "sent"
    BY <1>2, WaitingPhase DEF Phases, OnPool
  <2> HIDE DEF K, c
  <2>6. Phases' = W!Flushed([Phases EXCEPT ![c] = "idle"])
    BY <1>2, <2>3, <2>4 DEF Phases, W!Flushed
  <2>7. Line' = Line
    BY <2>1, SameLine
  <2>8. QED
    BY <1>2, <2>5, <2>6, <2>7 DEF W!Next, W!Answer
<1>6. QED
  BY <1>4, <1>5

\* A grant forwards the request of the client that is first in line.
LEMMA RecvCreditGrantWorker ==
  ASSUME Types, PoliteInv, NEW p \in Pool, RecvCreditGrant(p)
  PROVE  [W!Next]_(W!workerVars)
<1>1. credit = "sent" /\ queue # <<>> /\ drops \in SUBSET rpcs
  BY DEF RecvCreditGrant, PoliteInv, Credited, Placed
<1>2. \A k \in drops : ~Undeliverable(drops, k)
  BY <1>1, Deliverable
<1>3. CASE IdleConnections = {} \/ Fatal("resources")
  BY <1>3, FatalWorker DEF RecvCreditGrant
<1>4. CASE IdleConnections # {} /\ ~Fatal("resources")
  <2>1. /\ us_map[p] = NoRpc
        /\ us_map' = [us_map EXCEPT ![p] = Head(queue)]
        /\ queue' = Tail(queue)
        /\ Written(drops) /\ drops' \in Kept(drops)
        /\ UNCHANGED <<fd, status, last_id, listener, cancels>>
    BY <1>1, <1>2, <1>4
    DEF RecvCreditGrant, SubmitRequest, Route, IdleConnections
  <2>2. drops' = {}
    BY <1>1, <2>1, WrittenPolite
  <2>3. /\ Len(queue) \in Nat /\ Len(queue) > 0 /\ Head(queue) = queue[1]
        /\ DOMAIN queue = 1 .. Len(queue) /\ DOMAIN queue' = 1 .. Len(queue) - 1
        /\ \A i \in 1 .. Len(queue) - 1 : queue'[i] = queue[i + 1]
    <3>1. queue \in Seq(Rpc)
      BY DEF Types
    <3>2. QED
      BY <1>1, <2>1, <3>1, HeadTailProperties
  <2>4. PICK c \in Client :
          /\ Line # <<>> /\ c = Head(Line) /\ c = listener[queue[1][1]]
          /\ LastRpc(c) = queue[1] /\ ~idle[c] /\ status[c] = "UP" /\ queue[1] \in rpcs
    <3>1. Line # <<>> /\ Line \in Seq(Client) /\ Line[1] = listener[queue[1][1]]
      BY <1>1, <2>3, LineFacts
    <3>2. Head(Line) = Line[1] /\ queue[1] \in rpcs
      BY <2>3, <3>1, PlacesFacts
    <3>3. QED
      BY <3>1, <3>2, OwnerOf
  <2>5. /\ \A k : k # queue[1] => (InLine(k) <=> \E i \in DOMAIN queue' : queue'[i] = k)
        /\ \A i \in DOMAIN queue' : queue'[i] # queue[1]
    <3>1. ASSUME NEW k, k # queue[1], NEW i \in DOMAIN queue, queue[i] = k
          PROVE  \E j \in DOMAIN queue' : queue'[j] = k
      <4>1. i - 1 \in 1 .. Len(queue) - 1 /\ (i - 1) + 1 = i
        BY <2>3, <3>1
      <4>2. QED
        BY <2>3, <3>1, <4>1
    <3>2. ASSUME NEW i \in DOMAIN queue'
          PROVE  i + 1 \in DOMAIN queue /\ queue'[i] = queue[i + 1] /\ i + 1 # 1
      BY <2>3
    <3>3. \A i \in DOMAIN queue' : queue'[i] # queue[1]
      BY <2>3, <3>2 DEF PoliteInv, Distinct
    <3>4. QED
      BY <3>1, <3>2, <3>3 DEF InLine
  <2>6. /\ us_map'[p] = queue[1]
        /\ \A r \in Pool \ {p} : us_map'[r] = us_map[r]
    BY <2>1, <2>3 DEF Types
  <2>7. ASSUME NEW x \in Client \ {c}
        PROVE  PhaseOf(x)' = IF PhaseOf(x) = "dropped" THEN "idle" ELSE PhaseOf(x)
    <3>1. ASSUME LastRpc(x) \in rpcs \ drops, ~idle[x]
          PROVE  /\ InLine(LastRpc(x))' <=> InLine(LastRpc(x))
                 /\ OnPool(LastRpc(x))' <=> OnPool(LastRpc(x))
      <4>1. LastRpc(x)' = LastRpc(x) /\ LastRpc(x) # NoRpc
        BY <2>1, <3>1, RpcOf DEF LastRpc
      <4>2. LastRpc(x) # queue[1]
        BY <2>4, <3>1, RpcOf
      <4>3. QED
        BY <2>1, <2>5, <2>6, <4>1, <4>2 DEF InLine, OnPool
    <3>2. CASE idle[x]
      <4>1. idle'[x] /\ LastRpc(x)' = LastRpc(x)
        BY <1>1, <2>1, <3>2, WrittenIdle DEF LastRpc
      <4>2. QED
        BY <2>1, <3>2, <4>1 DEF PhaseOf
    <3>3. CASE ~idle[x]
      BY <1>1, <2>1, <2>2, <3>1, <3>3, FlushedPhase, WaitingPhase
    <3>4. QED
      BY <3>2, <3>3
  <2>8. PhaseOf(c)' = "sent"
    <3>1. LastRpc(c) \notin drops
      BY <2>3, <2>4 DEF PoliteInv, Distinct
    <3>2. ~idle'[c]
      BY <1>1, <2>1, <2>4, <3>1, WrittenIdle
    <3>3. status'[c] = "UP" /\ fd'[c] = fd[c] /\ last_id'[c] = last_id[c]
      BY <2>1, <2>4
    <3>4. <<fd'[c], last_id'[c]>> = queue[1]
      BY <2>4, <3>3 DEF LastRpc
    <3>5. QED
      BY <2>2, <2>5, <2>6, <3>2, <3>3, <3>4 DEF PhaseOf, LastRpc
  <2>9. Phases' = W!Flushed([Phases EXCEPT ![c] = "sent"])
    BY <2>4, <2>7, <2>8 DEF Phases, W!Flushed
  <2>10. Line' = Tail(Line)
    <3>1. /\ Line \in Seq(Client) /\ Len(Line) = Len(queue)
          /\ \A i \in 1 .. Len(queue) : Line[i] = listener[queue[i][1]]
      BY <2>3, LineFacts
    <3>2. /\ Tail(Line) \in Seq(Client) /\ Len(Tail(Line)) = Len(queue) - 1
          /\ \A i \in 1 .. Len(queue) - 1 : Tail(Line)[i] = Line[i + 1]
      BY <2>4, <3>1, HeadTailProperties
    <3>3. Line' = [i \in 1 .. Len(queue) - 1 |-> Line[i + 1]]
      <4>1. ASSUME NEW i \in 1 .. Len(queue) - 1
            PROVE  listener'[queue'[i][1]] = Line[i + 1]
        <5>1. i + 1 \in 1 .. Len(queue)
          BY <2>3
        <5>2. QED
          BY <2>1, <2>3, <3>1, <5>1
      <4>2. QED
        BY <2>3, <4>1 DEF Line
    <3>4. /\ Line' \in Seq(Client) /\ Len(Line') = Len(queue) - 1
          /\ \A i \in 1 .. Len(queue) - 1 : Line'[i] = Tail(Line)[i]
      BY <2>3, <3>1, <3>2, <3>3
    <3>5. QED
      BY <3>2, <3>4, SeqEqual
  <2>11. QED
    BY <2>4, <2>9, <2>10 DEF W!Next, W!Forward
<1>5. QED
  BY <1>3, <1>4

LEMMA StepWorker ==
  ASSUME Types, PoliteInv, Polite, [Next]_allVars
  PROVE  [W!Next]_(W!workerVars)
<1>1. CASE UNCHANGED allVars
  BY <1>1, QuietWorker DEF allVars, loopVars, connVars, rpcVars
<1>2. CASE \E c \in Client : \/ \E f \in Fd : Accept(c, f)
                            \/ ReadRequest(c) \/ ReadEnd(c)
                            \/ \E why \in Cause : Cancel(c, why)
  BY <1>2, AcceptWorker, ReadRequestWorker, ReadEndWorker, CancelWorker DEF Polite
<1>3. CASE \E p \in Pool : RecvCreditGrant(p) \/ RecvResponse(p)
  BY <1>3, RecvCreditGrantWorker, RecvResponseWorker
<1>4. CASE SendDone \/ \E c \in Client \cup Pool : WriteDone(c)
  BY <1>4, QuietWorker DEF SendDone, WriteDone, connVars, rpcVars
<1>5. \A c \in Client : ~ReadUnsupported(c) /\ ~ConnectionReset(c)
  BY DEF Polite, ReadUnsupported, ConnectionReset
<1>6. QED
  BY <1>1, <1>2, <1>3, <1>4, <1>5 DEF Next

\* For clients that wait for their answers the event loop implements Worker:
\* although descriptors and pool connections are used again and every table is
\* keyed by them, a grant forwards the request of the client that came first,
\* and each response and each 503 reaches the client it belongs to (http_read,
\* forward, http_write and CANCEL of event_loop.cc, state.cc, connection.cc).
THEOREM ImplementsWorker == Spec => WorkerServed
<1>1. Init => (Polite => W!Init)
  <2>1. SUFFICES ASSUME Init PROVE W!Init
    OBVIOUS
  <2>2. Phases = [c \in Client |-> "closed"]
    BY <2>1 DEF Init, InitConnections, Phases, PhaseOf
  <2>3. Line = <<>>
    BY <2>1 DEF Init, InitRpcs, Line
  <2>4. QED
    BY <2>2, <2>3 DEF W!Init
<1>2. Inv /\ [Next]_allVars => [Polite => [W!Next]_(W!workerVars)]_allVars
  BY StepWorker, RingFacts DEF Inv
<1>3. QED
  BY <1>1, <1>2, Invariance, PTL DEF Spec, WorkerServed
=============================================================================
