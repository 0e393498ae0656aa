---------------------------- MODULE IngressProof ----------------------------
(***************************************************************************)
(* Safety of an ingress worker for every number of clients and every cap.  *)
(* The invariant is the conjunction of TypeOK, CreditCycle, OnePlace and   *)
(* DropsAwaitGrant: a request is dropped only when the deque is at its cap *)
(* of at least 1, so the deque is not empty and, by CreditCycle, a Credit  *)
(* Request is outstanding, whose grant writes the 503.                     *)
(***************************************************************************)
EXTENDS Ingress, TLAPS, FiniteSetTheorems

-----------------------------------------------------------------------------
(* Requests in a deque *)

LEMMA AppendPlace ==
  ASSUME NEW s \in Seq(Client), NEW c \in Client, c \notin Range(s)
  PROVE  /\ Append(s, c) \in Seq(Client)
         /\ Append(s, c) # <<>>
         /\ s # <<>> => Head(Append(s, c)) = Head(s)
         /\ Once(Append(s, c), c)
         /\ \A x \in Client \ {c} :
              /\ Once(s, x) => Once(Append(s, c), x)
              /\ x \notin Range(s) => x \notin Range(Append(s, c))
<1> DEFINE n == Len(s)
           t == Append(s, c)
<1>1. n \in Nat /\ DOMAIN s = 1 .. n /\ s \in [1 .. n -> Client]
  OBVIOUS
<1>2. /\ t \in Seq(Client) /\ DOMAIN t = 1 .. n + 1 /\ t[n + 1] = c
      /\ \A i \in 1 .. n : t[i] = s[i]
  OBVIOUS
<1>3. t # <<>> /\ (s # <<>> => Head(t) = Head(s))
  <2>1. t # <<>>
    BY <1>1, <1>2
  <2>2. ASSUME s # <<>> PROVE Head(t) = Head(s)
    <3>1. 1 \in 1 .. n /\ Head(s) = s[1]
      BY <1>1, <2>2
    <3>2. Head(t) = t[1]
      BY <1>2, <2>1
    <3>3. QED
      BY <1>2, <3>1, <3>2
  <2>3. QED
    BY <2>1, <2>2
<1> HIDE DEF n, t
<1>4. \A i \in 1 .. n : s[i] # c
  BY <1>1 DEF Range
<1>5. Once(t, c)
  <2>1. n + 1 \in DOMAIN t /\ \A j \in DOMAIN t : t[j] = c <=> j = n + 1
    BY <1>1, <1>2, <1>4
  <2>2. QED
    BY <2>1 DEF Once
<1>6. ASSUME NEW x \in Client \ {c}, Once(s, x)
      PROVE  Once(t, x)
  <2>1. PICK i \in DOMAIN s : \A j \in DOMAIN s : s[j] = x <=> j = i
    BY <1>6 DEF Once
  <2>2. i \in DOMAIN t /\ \A j \in DOMAIN t : t[j] = x <=> j = i
    BY <1>1, <1>2, <2>1
  <2>3. QED
    BY <2>2 DEF Once
<1>7. ASSUME NEW x \in Client \ {c}, x \notin Range(s)
      PROVE  x \notin Range(t)
  <2>1. \A i \in 1 .. n : s[i] # x
    BY <1>1, <1>7 DEF Range
  <2>2. \A i \in DOMAIN t : t[i] # x
    BY <1>1, <1>2, <2>1
  <2>3. QED
    BY <2>2 DEF Range
<1>8. QED
  BY <1>2, <1>3, <1>5, <1>6, <1>7 DEF t

LEMMA TailPlace ==
  ASSUME NEW s \in Seq(Client), s # <<>>, Once(s, Head(s))
  PROVE  /\ Head(s) \in Client
         /\ Tail(s) \in Seq(Client)
         /\ Head(s) \notin Range(Tail(s))
         /\ \A x \in Client \ {Head(s)} :
              /\ Once(s, x) => Once(Tail(s), x)
              /\ x \notin Range(s) => x \notin Range(Tail(s))
<1> DEFINE n == Len(s)
           t == Tail(s)
           h == Head(s)
<1>1. n \in Nat /\ n # 0 /\ DOMAIN s = 1 .. n
  OBVIOUS
<1>2. h = s[1] /\ h \in Client
  BY <1>1
<1>3. t \in Seq(Client) /\ DOMAIN t = 1 .. n - 1
  BY <1>1
<1>4. \A i \in 1 .. n - 1 : t[i] = s[i + 1]
  BY <1>1
<1>5. Once(s, h)
  OBVIOUS
<1> HIDE DEF n, t, h
<1>6. \A j \in 1 .. n : s[j] = h => j = 1
  <2>1. PICK i \in DOMAIN s : \A j \in DOMAIN s : s[j] = h <=> j = i
    BY <1>5 DEF Once
  <2>2. QED
    BY <1>1, <1>2, <2>1
<1>7. h \notin Range(t)
  <2>1. \A i \in 1 .. n - 1 : t[i] # h
    BY <1>1, <1>4, <1>6
  <2>2. QED
    BY <1>3, <2>1 DEF Range
<1>8. ASSUME NEW x \in Client \ {h}, Once(s, x)
      PROVE  Once(t, x)
  <2>1. PICK i \in DOMAIN s : \A j \in DOMAIN s : s[j] = x <=> j = i
    BY <1>8 DEF Once
  <2>2. i # 1
    BY <1>1, <1>2, <2>1
  <2>3. /\ i - 1 \in 1 .. n - 1
        /\ \A j \in 1 .. n - 1 : t[j] = x <=> j = i - 1
    BY <1>1, <1>4, <2>1, <2>2
  <2>4. QED
    BY <1>3, <2>3 DEF Once
<1>9. ASSUME NEW x \in Client \ {h}, x \notin Range(s)
      PROVE  x \notin Range(t)
  <2>1. \A i \in 1 .. n : s[i] # x
    BY <1>1, <1>9 DEF Range
  <2>2. \A i \in 1 .. n - 1 : t[i] # x
    BY <1>1, <1>4, <2>1
  <2>3. QED
    BY <1>3, <2>2 DEF Range
<1>10. QED
  BY <1>2, <1>3, <1>7, <1>8, <1>9 DEF t, h

\* A cap stays positive and within the bound.
LEMMA CapsInRange ==
  ASSUME NEW cap \in 1 .. MaxCap, NEW n \in NewCaps(cap)
  PROVE  n \in 1 .. MaxCap
  BY DEF NewCaps

-----------------------------------------------------------------------------
(* The inductive invariant *)

Inv == TypeOK /\ CreditCycle /\ OnePlace /\ DropsAwaitGrant

\* The place of request c agrees with its status.
Placed(q, r, st, c) ==
  /\ IF st[c] = "queued" THEN Once(q, c) ELSE c \notin Range(q)
  /\ IF st[c] = "dropped" THEN Once(r, c) ELSE c \notin Range(r)

LEMMA OnePlaceIsPlaced ==
  OnePlace <=> \A c \in Client : Placed(queue, rpc_queue, status, c)
  BY DEF OnePlace, Placed

LEMMA NothingInEmpty == \A c : c \notin Range(<<>>)
  BY DEF Range

LEMMA InitInv == Init => Inv
<1> SUFFICES ASSUME Init PROVE Inv
  OBVIOUS
<1>1. TypeOK
  <2>1. <<>> \in Seq(Client) /\ "closed" \in Status
    BY DEF Status
  <2>2. InitialCap \in 1 .. MaxCap
    BY IngressAssumption
  <2>3. QED
    BY <2>1, <2>2 DEF Init, TypeOK
<1>2. CreditCycle /\ DropsAwaitGrant
  BY DEF Init, CreditCycle, DropsAwaitGrant
<1>3. OnePlace
  BY NothingInEmpty DEF Init, OnePlace
<1>4. QED
  BY <1>1, <1>2, <1>3 DEF Inv

LEMMA ConnectionStep ==
  ASSUME Inv, NEW c \in Client, AcceptConnection(c) \/ CloseConnection(c)
  PROVE  Inv'
<1>1. /\ queue' = queue /\ ingress_size_cap' = ingress_size_cap
      /\ has_credit_request_on_fly' = has_credit_request_on_fly
      /\ rpc_queue' = rpc_queue /\ credit_requests' = credit_requests
      /\ aborted' \in BOOLEAN
  BY DEF AcceptConnection, CloseConnection, Inv, TypeOK
<1>2. /\ status \in [Client -> Status] /\ status' \in [Client -> Status]
      /\ \A x \in Client :
           \/ status'[x] = status[x]
           \/ /\ status[x] \in {"closed", "idle"}
              /\ status'[x] \in {"closed", "idle"}
  BY DEF AcceptConnection, CloseConnection, Inv, TypeOK, Status
<1>3. TypeOK'
  BY <1>1, <1>2 DEF Inv, TypeOK
<1>4. CreditCycle' /\ DropsAwaitGrant'
  BY <1>1 DEF Inv, CreditCycle, DropsAwaitGrant
<1>5. OnePlace'
  BY <1>1, <1>2 DEF Inv, OnePlace
<1>6. QED
  BY <1>3, <1>4, <1>5 DEF Inv

\* ingress_pre_credit restores the credit cycle, when a Credit Request that is
\* outstanding was sent for the head of the deque.
LEMMA PreCreditCycle ==
  ASSUME NEW q, q = queue', NEW on_fly \in BOOLEAN, NEW requests,
         IngressPreCredit(q, on_fly, requests),
         requests = IF on_fly THEN {Head(q)} ELSE {},
         on_fly => q # <<>>
  PROVE  CreditCycle' /\ has_credit_request_on_fly' \in BOOLEAN
  BY DEF IngressPreCredit, CreditCycle

LEMMA ClientRequestStep ==
  ASSUME Inv, NEW c \in Client, ClientRequest(c)
  PROVE  Inv'
<1>1. /\ status[c] = "idle" /\ Enqueue(c)
      /\ IngressPreCredit(queue', has_credit_request_on_fly, credit_requests)
      /\ ingress_size_cap' = ingress_size_cap /\ aborted' = aborted
  BY DEF ClientRequest
<1>2. /\ queue \in Seq(Client) /\ rpc_queue \in Seq(Client)
      /\ status \in [Client -> Status]
      /\ ingress_size_cap \in 1 .. MaxCap /\ aborted \in BOOLEAN
      /\ has_credit_request_on_fly \in BOOLEAN
      /\ credit_requests \in SUBSET Client
  BY DEF Inv, TypeOK
<1>3. /\ has_credit_request_on_fly <=> queue # <<>>
      /\ credit_requests = IF queue = <<>> THEN {} ELSE {Head(queue)}
  BY DEF Inv, CreditCycle
<1>4. \A x \in Client : Placed(queue, rpc_queue, status, x)
  BY OnePlaceIsPlaced DEF Inv
<1>5. c \notin Range(queue) /\ c \notin Range(rpc_queue)
  BY <1>1, <1>4 DEF Placed
<1>6. CASE Len(queue) >= ingress_size_cap
  <2>1. /\ rpc_queue' = Append(rpc_queue, c) /\ queue' = queue
        /\ status' = [status EXCEPT ![c] = "dropped"]
    BY <1>1, <1>6 DEF Enqueue, DropRpc
  <2>2. queue # <<>>
    BY <1>2, <1>6, IngressAssumption
  <2>3. /\ rpc_queue' \in Seq(Client) /\ Once(rpc_queue', c)
        /\ \A x \in Client \ {c} :
             /\ Once(rpc_queue, x) => Once(rpc_queue', x)
             /\ x \notin Range(rpc_queue) => x \notin Range(rpc_queue')
    BY <1>2, <1>5, <2>1, AppendPlace
  <2>4. /\ status' \in [Client -> Status] /\ status'[c] = "dropped"
        /\ \A x \in Client \ {c} : status'[x] = status[x]
    BY <1>2, <2>1 DEF Status
  <2>5. ASSUME NEW x \in Client
        PROVE  Placed(queue', rpc_queue', status', x)
    <3>1. CASE x = c
      BY <1>5, <2>1, <2>3, <2>4, <3>1 DEF Placed
    <3>2. CASE x # c
      BY <1>4, <2>1, <2>3, <2>4, <3>2 DEF Placed
    <3>3. QED
      BY <3>1, <3>2
  <2>6. OnePlace'
    BY <2>5 DEF OnePlace, Placed
  <2>7. CreditCycle' /\ has_credit_request_on_fly' \in BOOLEAN
    BY <1>1, <1>2, <1>3, <2>1, <2>2, PreCreditCycle
  <2>8. credit_requests' = {Head(queue)} /\ Head(queue) \in Client
    BY <1>2, <2>1, <2>2, <2>7 DEF CreditCycle
  <2>9. QED
    BY <1>1, <1>2, <2>1, <2>3, <2>4, <2>6, <2>7, <2>8
       DEF Inv, TypeOK, DropsAwaitGrant
<1>7. CASE ~(Len(queue) >= ingress_size_cap)
  <2>1. /\ queue' = Append(queue, c) /\ rpc_queue' = rpc_queue
        /\ status' = [status EXCEPT ![c] = "queued"]
    BY <1>1, <1>7 DEF Enqueue, DropRpc
  <2>3. /\ queue' \in Seq(Client) /\ Once(queue', c) /\ queue' # <<>>
        /\ queue # <<>> => Head(queue') = Head(queue)
        /\ \A x \in Client \ {c} :
             /\ Once(queue, x) => Once(queue', x)
             /\ x \notin Range(queue) => x \notin Range(queue')
    BY <1>2, <1>5, <2>1, AppendPlace
  <2>4. /\ status' \in [Client -> Status] /\ status'[c] = "queued"
        /\ \A x \in Client \ {c} : status'[x] = status[x]
    BY <1>2, <2>1 DEF Status
  <2>5. ASSUME NEW x \in Client
        PROVE  Placed(queue', rpc_queue', status', x)
    <3>1. CASE x = c
      BY <1>5, <2>1, <2>3, <2>4, <3>1 DEF Placed
    <3>2. CASE x # c
      BY <1>4, <2>1, <2>3, <2>4, <3>2 DEF Placed
    <3>3. QED
      BY <3>1, <3>2
  <2>6. OnePlace'
    BY <2>5 DEF OnePlace, Placed
  <2>7. CreditCycle' /\ has_credit_request_on_fly' \in BOOLEAN
    <3>1. credit_requests = IF has_credit_request_on_fly THEN {Head(queue')}
                                                         ELSE {}
      BY <1>3, <2>3
    <3>2. QED
      BY <1>1, <1>2, <1>3, <2>3, <3>1, PreCreditCycle
  <2>8. credit_requests' = {Head(queue')} /\ Head(queue') \in Client
    BY <2>3, <2>7 DEF CreditCycle
  <2>9. QED
    BY <1>1, <1>2, <2>1, <2>3, <2>4, <2>6, <2>7, <2>8
       DEF Inv, TypeOK, DropsAwaitGrant
<1>8. QED
  BY <1>6, <1>7

\* Writing the 503s leaves no request in rpc_queue.
LEMMA DrainedPlace ==
  ASSUME NEW q, NEW st \in [Client -> Status],
         \A x \in Client : Placed(q, rpc_queue, st, x)
  PROVE  /\ Drained(st) \in [Client -> Status]
         /\ \A x \in Client : Placed(q, <<>>, Drained(st), x)
<1> DEFINE d == Drained(st)
<1>1. /\ d \in [Client -> Status]
      /\ \A x \in Client : d[x] = IF x \in Range(rpc_queue) THEN "idle"
                                                            ELSE st[x]
  BY DEF Drained, Status
<1> HIDE DEF d
<1>2. ASSUME NEW x \in Client
      PROVE  Placed(q, <<>>, d, x)
  <2>1. Placed(q, rpc_queue, st, x)
    OBVIOUS
  <2>2. CASE x \in Range(rpc_queue)
    BY <1>1, <2>1, <2>2, NothingInEmpty DEF Placed
  <2>3. CASE x \notin Range(rpc_queue)
    <3>1. st[x] # "dropped"
      <4> SUFFICES ASSUME Once(rpc_queue, x) PROVE FALSE
        BY <2>1 DEF Placed
      <4>1. PICK i \in DOMAIN rpc_queue :
              \A j \in DOMAIN rpc_queue : rpc_queue[j] = x <=> j = i
        BY DEF Once
      <4>2. QED
        BY <2>3, <4>1 DEF Range
    <3>2. QED
      BY <1>1, <2>1, <2>3, <3>1, NothingInEmpty DEF Placed
  <2>4. QED
    BY <2>2, <2>3
<1>3. QED
  BY <1>1, <1>2 DEF d

LEMMA RecvCreditGrantStep ==
  ASSUME Inv, NEW c \in Client, RecvCreditGrant(c)
  PROVE  Inv'
<1>1. /\ queue \in Seq(Client) /\ status \in [Client -> Status]
      /\ ingress_size_cap \in 1 .. MaxCap
      /\ credit_requests \in SUBSET Client
      /\ c \in credit_requests
      /\ credit_requests = IF queue = <<>> THEN {} ELSE {Head(queue)}
      /\ \A x \in Client : Placed(queue, rpc_queue, status, x)
  BY OnePlaceIsPlaced DEF Inv, TypeOK, CreditCycle, RecvCreditGrant
<1>2. queue # <<>> /\ credit_requests \ {c} = {}
  BY <1>1
<1> DEFINE h == Head(queue)
           st == [status EXCEPT ![h] = "sent"]
<1>3. /\ queue' = Tail(queue) /\ status' = Drained(st) /\ rpc_queue' = <<>>
      /\ IngressPreCredit(queue', FALSE, credit_requests \ {c})
      /\ ingress_size_cap' = ingress_size_cap /\ aborted' \in BOOLEAN
  BY <1>2 DEF RecvCreditGrant
<1>4. h \in Client /\ h \in Range(queue) /\ status[h] = "queued"
      /\ Once(queue, h)
  <2>1. h \in Client /\ 1 \in DOMAIN queue /\ h = queue[1]
    BY <1>1, <1>2
  <2>2. h \in Range(queue)
    BY <2>1 DEF Range
  <2>3. QED
    BY <1>1, <2>1, <2>2 DEF Placed
<1>5. /\ Tail(queue) \in Seq(Client)
      /\ h \notin Range(Tail(queue))
      /\ \A x \in Client \ {h} :
           /\ Once(queue, x) => Once(Tail(queue), x)
           /\ x \notin Range(queue) => x \notin Range(Tail(queue))
  BY <1>1, <1>2, <1>4, TailPlace
<1>6. /\ st \in [Client -> Status] /\ st[h] = "sent"
      /\ \A x \in Client \ {h} : st[x] = status[x]
  BY <1>1, <1>4 DEF Status
<1> HIDE DEF h, st
<1>7. ASSUME NEW x \in Client
      PROVE  Placed(Tail(queue), rpc_queue, st, x)
  <2>1. Placed(queue, rpc_queue, status, x)
    BY <1>1
  <2>2. CASE x = h
    BY <1>4, <1>5, <1>6, <2>1, <2>2 DEF Placed
  <2>3. CASE x # h
    BY <1>5, <1>6, <2>1, <2>3 DEF Placed
  <2>4. QED
    BY <2>2, <2>3
<1>8. /\ status' \in [Client -> Status]
      /\ \A x \in Client : Placed(queue', rpc_queue', status', x)
  BY <1>3, <1>6, <1>7, DrainedPlace
<1>9. OnePlace'
  BY <1>8 DEF OnePlace, Placed
<1>10. CreditCycle' /\ has_credit_request_on_fly' \in BOOLEAN
  BY <1>2, <1>3, PreCreditCycle
<1>11. credit_requests' \in SUBSET Client
  BY <1>3, <1>5, <1>10 DEF CreditCycle
<1>12. QED
  BY <1>1, <1>3, <1>5, <1>8, <1>9, <1>10, <1>11
     DEF Inv, TypeOK, DropsAwaitGrant

LEMMA RecvResponseStep ==
  ASSUME Inv, NEW c \in Client, RecvResponse(c)
  PROVE  Inv'
<1>1. /\ queue \in Seq(Client) /\ status \in [Client -> Status]
      /\ ingress_size_cap \in 1 .. MaxCap
      /\ has_credit_request_on_fly \in BOOLEAN
      /\ credit_requests \in SUBSET Client /\ aborted \in BOOLEAN
      /\ has_credit_request_on_fly <=> queue # <<>>
      /\ credit_requests = IF queue = <<>> THEN {} ELSE {Head(queue)}
      /\ \A x \in Client : Placed(queue, rpc_queue, status, x)
  BY OnePlaceIsPlaced DEF Inv, TypeOK, CreditCycle
<1> DEFINE st == [status EXCEPT ![c] = "idle"]
<1>2. /\ status[c] = "sent" /\ status' = Drained(st) /\ rpc_queue' = <<>>
      /\ ingress_size_cap' \in NewCaps(ingress_size_cap)
      /\ IngressPreCredit(queue, has_credit_request_on_fly, credit_requests)
      /\ queue' = queue /\ aborted' = aborted
  BY DEF RecvResponse
<1>3. /\ st \in [Client -> Status] /\ st[c] = "idle"
      /\ \A x \in Client \ {c} : st[x] = status[x]
  BY <1>1 DEF Status
<1> HIDE DEF st
<1>4. ASSUME NEW x \in Client
      PROVE  Placed(queue, rpc_queue, st, x)
  <2>1. Placed(queue, rpc_queue, status, x)
    BY <1>1
  <2>2. QED
    BY <1>2, <1>3, <2>1 DEF Placed
<1>5. /\ status' \in [Client -> Status]
      /\ \A x \in Client : Placed(queue', rpc_queue', status', x)
  BY <1>2, <1>3, <1>4, DrainedPlace
<1>6. OnePlace'
  BY <1>5 DEF OnePlace, Placed
<1>7. CreditCycle' /\ has_credit_request_on_fly' \in BOOLEAN
  BY <1>1, <1>2, PreCreditCycle
<1>8. ingress_size_cap' \in 1 .. MaxCap
  BY <1>1, <1>2, CapsInRange
<1>9. credit_requests' \in SUBSET Client
  BY <1>1, <1>2, <1>7 DEF CreditCycle
<1>10. QED
  BY <1>1, <1>2, <1>5, <1>6, <1>7, <1>8, <1>9
     DEF Inv, TypeOK, DropsAwaitGrant

LEMMA NextInv == Inv /\ [Next]_ingressVars => Inv'
<1> SUFFICES ASSUME Inv, [Next]_ingressVars PROVE Inv'
  OBVIOUS
<1>1. CASE UNCHANGED ingressVars
  BY <1>1 DEF ingressVars, Inv, TypeOK, CreditCycle, OnePlace, DropsAwaitGrant
<1>2. ASSUME NEW c \in Client, AcceptConnection(c) \/ CloseConnection(c)
      PROVE  Inv'
  BY <1>2, ConnectionStep
<1>3. ASSUME NEW c \in Client, ClientRequest(c)
      PROVE  Inv'
  BY <1>3, ClientRequestStep
<1>4. ASSUME NEW c \in Client, RecvCreditGrant(c)
      PROVE  Inv'
  BY <1>4, RecvCreditGrantStep
<1>5. ASSUME NEW c \in Client, RecvResponse(c)
      PROVE  Inv'
  BY <1>5, RecvResponseStep
<1>6. QED
  BY <1>1, <1>2, <1>3, <1>4, <1>5 DEF Next

\* Spec implies that the inductive invariant always holds.
THEOREM Invariance == Spec => []Inv
<1>1. QED
  BY InitInv, NextInv, PTL DEF Spec

\* The variables keep their types and the cap stays positive.
THEOREM TypeCorrect == Spec => []TypeOK
<1>1. Inv => TypeOK
  BY DEF Inv
<1>2. QED
  BY Invariance, <1>1, PTL

\* The credit cycle of ingress_pre_credit and ingress_post_credit never stops
\* while requests wait, and each grant forwards the request it was sent for.
THEOREM CycleKept == Spec => []CreditCycle
<1>1. Inv => CreditCycle
  BY DEF Inv
<1>2. QED
  BY Invariance, <1>1, PTL

\* A request is never in two places: forwarded and dropped, or queued twice.
THEOREM OnePlaceKept == Spec => []OnePlace
<1>1. Inv => OnePlace
  BY DEF Inv
<1>2. QED
  BY Invariance, <1>1, PTL

\* A 503 that waits in rpc_queue waits for a grant that is due.
THEOREM DropsFlushed == Spec => []DropsAwaitGrant
<1>1. Inv => DropsAwaitGrant
  BY DEF Inv
<1>2. QED
  BY Invariance, <1>1, PTL

-----------------------------------------------------------------------------
(* No event reaches LOG(FATAL) *)

\* If clients wait for their answers and the pool has a connection for each
\* of them, no event aborts the worker.
THEOREM NeverAborts ==
  ASSUME Impatient = {}, PoolSize >= Cardinality(Client)
  PROVE  Spec => []NoAbort
<1>1. Init => NoAbort
  BY DEF Init, NoAbort
<1>2. Inv /\ NoAbort /\ [Next]_ingressVars => NoAbort'
  <2> SUFFICES ASSUME Inv, NoAbort, [Next]_ingressVars PROVE NoAbort'
    OBVIOUS
  <2>1. CASE UNCHANGED ingressVars
    BY <2>1 DEF ingressVars, NoAbort
  <2>2. ASSUME NEW c \in Client, \/ AcceptConnection(c) \/ CloseConnection(c)
                                 \/ ClientRequest(c) \/ RecvResponse(c)
        PROVE  NoAbort'
    BY <2>2 DEF AcceptConnection, CloseConnection, ClientRequest, RecvResponse,
                NoAbort
  <2>3. ASSUME NEW c \in Client, RecvCreditGrant(c)
        PROVE  NoAbort'
    <3> DEFINE S == {x \in Client : status[x] = "sent"}
    <3>1. queue # <<>> /\ queue \in Seq(Client)
      BY <2>3 DEF Inv, CreditCycle, TypeOK, RecvCreditGrant
    <3>2. Head(queue) \in Client /\ Head(queue) \notin S
      <4>1. Head(queue) \in Client /\ Head(queue) \in Range(queue)
        <5>1. Head(queue) \in Client /\ 1 \in DOMAIN queue
              /\ Head(queue) = queue[1]
          BY <3>1
        <5>2. QED
          BY <5>1 DEF Range
      <4>2. status[Head(queue)] = "queued"
        BY <4>1 DEF Inv, OnePlace
      <4>3. QED
        BY <4>1, <4>2
    <3>3. /\ Cardinality(S) <= Cardinality(Client)
          /\ Cardinality(S) = Cardinality(Client) => S = Client
          /\ Cardinality(S) \in Nat /\ Cardinality(Client) \in Nat
      <4>1. S \in SUBSET Client /\ IsFiniteSet(Client)
        BY IngressAssumption
      <4> HIDE DEF S
      <4>2. QED
        BY <4>1, FS_Subset, FS_CardinalityType
    <3>4. ~(Cardinality(S) >= PoolSize)
      <4>1. S # Client
        BY <3>2
      <4>2. PoolSize \in Nat
        BY IngressAssumption
      <4> HIDE DEF S
      <4>3. QED
        BY <3>3, <4>1, <4>2
    <3>5. QED
      BY <2>3, <3>1, <3>4 DEF RecvCreditGrant, NoAbort
  <2>4. QED
    BY <2>1, <2>2, <2>3 DEF Next
<1>3. QED
  BY Invariance, <1>1, <1>2, PTL DEF Spec

-----------------------------------------------------------------------------
(* The worker implements Worker *)

\* The 503s that are written are those of the clients that were dropped.
LEMMA DrainedIsFlushed ==
  ASSUME OnePlace, NEW st,
         \A x \in Client : st[x] = "dropped" <=> status[x] = "dropped"
  PROVE  Drained(st) = W!Flushed(st)
<1>1. \A x \in Client : x \in Range(rpc_queue) <=> st[x] = "dropped"
  BY DEF OnePlace, Once, Range
<1>2. QED
  BY <1>1 DEF Drained, W!Flushed

LEMMA ConnectionImplements ==
  ASSUME NEW c \in Client, AcceptConnection(c) \/ CloseConnection(c)
  PROVE  [W!Next]_(W!workerVars)
<1>1. \/ W!Connect(c) \/ W!Close(c) \/ UNCHANGED W!workerVars
  BY DEF AcceptConnection, CloseConnection, W!Connect, W!Close, W!Become,
         W!workerVars
<1>2. QED
  BY <1>1 DEF W!Next

LEMMA ClientRequestImplements ==
  ASSUME Inv, NEW c \in Client, ClientRequest(c)
  PROVE  W!Next
<1>1. CASE Len(queue) >= ingress_size_cap
  <2>1. queue # <<>>
    BY <1>1 DEF Inv, TypeOK
  <2>2. W!Reject(c)
    BY <1>1, <2>1 DEF ClientRequest, Enqueue, DropRpc, W!Reject, W!Become
  <2>3. QED
    BY <2>2 DEF W!Next
<1>2. CASE ~(Len(queue) >= ingress_size_cap)
  <2>1. W!Admit(c)
    BY <1>2 DEF ClientRequest, Enqueue, W!Admit, W!Become
  <2>2. QED
    BY <2>1 DEF W!Next
<1>3. QED
  BY <1>1, <1>2

\* The grant was asked for the head of the deque, so there is one; it was not
\* dropped.
LEMMA RecvCreditGrantImplements ==
  ASSUME Inv, NEW c \in Client, RecvCreditGrant(c)
  PROVE  W!Next
<1>1. queue # <<>> /\ queue \in Seq(Client) /\ status \in [Client -> Status]
  BY DEF RecvCreditGrant, Inv, CreditCycle, TypeOK
<1>2. Head(queue) \in Client /\ status[Head(queue)] = "queued"
  <2>1. 1 \in DOMAIN queue /\ Head(queue) = queue[1] /\ queue[1] \in Client
    BY <1>1
  <2>2. Head(queue) \in Range(queue)
    BY <2>1 DEF Range
  <2>3. QED
    BY <2>1, <2>2 DEF Inv, OnePlace
<1> DEFINE st == [status EXCEPT ![Head(queue)] = "sent"]
<1>3. \A x \in Client : st[x] = "dropped" <=> status[x] = "dropped"
  BY <1>1, <1>2
<1>4. queue' = Tail(queue) /\ status' = Drained(st)
  BY <1>1 DEF RecvCreditGrant
<1>5. Drained(st) = W!Flushed(st)
  <2> HIDE DEF st
  <2>1. QED
    BY <1>3, DrainedIsFlushed DEF Inv
<1>6. W!Forward
  BY <1>1, <1>4, <1>5 DEF W!Forward
<1>7. QED
  BY <1>6 DEF W!Next

LEMMA RecvResponseImplements ==
  ASSUME Inv, NEW c \in Client, RecvResponse(c)
  PROVE  W!Next
<1> DEFINE st == [status EXCEPT ![c] = "idle"]
<1>1. /\ status[c] = "sent" /\ status' = Drained(st) /\ queue' = queue
      /\ status \in [Client -> Status]
  BY DEF RecvResponse, Inv, TypeOK
<1>2. \A x \in Client : st[x] = "dropped" <=> status[x] = "dropped"
  BY <1>1
<1>3. Drained(st) = W!Flushed(st)
  <2> HIDE DEF st
  <2>1. QED
    BY <1>2, DrainedIsFlushed DEF Inv
<1>4. W!Answer(c)
  BY <1>1, <1>3 DEF W!Answer
<1>5. QED
  BY <1>4 DEF W!Next

\* Deque, cap, credit cycle and rpc_queue implement Worker (Ingress::enqueue,
\* ingress_post_credit, forward): first come first served, nobody is turned
\* away while nobody waits, and everyone is answered once, whatever the cap
\* does and also in a step that aborts.
THEOREM ImplementsWorker == Spec => WorkerSpec
<1>1. Init => W!Init
  BY DEF Init, W!Init
<1>2. Inv /\ [Next]_ingressVars => [W!Next]_(W!workerVars)
  <2> SUFFICES ASSUME Inv, [Next]_ingressVars PROVE [W!Next]_(W!workerVars)
    OBVIOUS
  <2>1. CASE UNCHANGED ingressVars
    BY <2>1 DEF ingressVars, W!workerVars
  <2>2. CASE Next
    BY <2>2, ConnectionImplements, ClientRequestImplements,
       RecvCreditGrantImplements, RecvResponseImplements DEF Next
  <2>3. QED
    BY <2>1, <2>2
<1>3. QED
  BY <1>1, <1>2, Invariance, PTL DEF Spec, WorkerSpec, W!Spec
=============================================================================
