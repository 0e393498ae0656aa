---------------------------- MODULE RpcIdsProof ----------------------------
(***************************************************************************)
(* Theorems about local ids, for every number of workers and messages and  *)
(* every width of the lanes.                                               *)
(***************************************************************************)
EXTENDS RpcIds, TLAPS

Assigned(m) == stage[m] \in {"ready", "asked", "routed"}

\* A worker that is within get_new_local_id parses one message of its own.
ParsingOK ==
  \A m \in Message :
    stage[m] = "headers" <=> /\ step[WorkerOf[m]] # "idle"
                             /\ parsing[WorkerOf[m]] = m
WorkerOK ==
  \A w \in Worker :
    step[w] # "idle" => parsing[w] \in Message /\ WorkerOf[parsing[w]] = w

\* The parent of a sub-request is in id_map while the sub-request exists, and
\* the high lane of the sub-request's id is its id.
ParentOK ==
  \A m \in Message :
    /\ stage[m] = "pooled" => parent[m] = NoMessage
    /\ parent[m] # NoMessage =>
         /\ stage[parent[m]] = "routed"
         /\ WorkerOf[parent[m]] = WorkerOf[m]
         /\ parent[parent[m]] = NoMessage
         /\ local_id[parent[m]].branch # 0
    /\ Assigned(m) => local_id[m].parent = ParentLane(m)

\* No two requests in id_map have the same id.
RootsUnique ==
  \A m, x \in Message :
    /\ stage[m] = "routed" /\ stage[x] = "routed"
    /\ parent[m] = NoMessage /\ parent[x] = NoMessage
    /\ WorkerOf[m] = WorkerOf[x]
    /\ local_id[m] = local_id[x]
    => m = x

Inv == TypeOK /\ ParsingOK /\ WorkerOK /\ ParentOK /\ RootsUnique

-----------------------------------------------------------------------------

LEMMA BranchFacts ==
  ASSUME NEW c \in Nat
  PROVE  /\ Branch(c) \in 0 .. Lane - 1
         /\ c < Lane => Branch(c) = c
  BY RpcIdsAssumption DEF Branch

LEMMA InitInv == Init => Inv
  BY RpcIdsAssumption
  DEF Init, Inv, TypeOK, ParsingOK, WorkerOK, ParentOK, RootsUnique, Assigned,
      Stage, Step, Reason, Id, Unset

\* What LOG(FATAL) leaves behind satisfies the invariant.
LEMMA FatalInv ==
  ASSUME Inv, NEW reason \in Reason, Fatal(reason)
  PROVE  Inv'
  BY DEF Inv, Fatal, workerVars, TypeOK, ParsingOK, WorkerOK, ParentOK,
         RootsUnique, Assigned, ParentLane

LEMMA LoadCounterInv ==
  ASSUME Inv, NEW w \in Worker, NEW m \in Message, Free(w, m),
         NEW p \in Message \cup {NoMessage},
         p # NoMessage => /\ stage[p] = "routed" /\ WorkerOf[p] = w
                          /\ parent[p] = NoMessage
                          /\ local_id[p].branch # 0,
         LoadCounter(w, m, p)
  PROVE  Inv'
<1> USE DEF Inv, LoadCounter, Free
<1>1. TypeOK'
  BY DEF TypeOK, Stage, Step
<1>2. ParsingOK' /\ WorkerOK'
  BY RpcIdsAssumption DEF TypeOK, ParsingOK, WorkerOK
<1>3. ParentOK'
  BY RpcIdsAssumption DEF TypeOK, ParentOK, Assigned, ParentLane
<1>4. RootsUnique'
  BY DEF TypeOK, RootsUnique
<1>5. QED
  BY <1>1, <1>2, <1>3, <1>4

LEMMA StoreCounterInv ==
  ASSUME Inv, NEW w \in Worker, StoreCounter(w)
  PROVE  Inv'
<1> USE DEF Inv, StoreCounter
<1>1. TypeOK'
  BY DEF TypeOK, Step
<1>2. ParsingOK' /\ WorkerOK'
  BY RpcIdsAssumption DEF TypeOK, ParsingOK, WorkerOK
<1>3. ParentOK' /\ RootsUnique'
  BY DEF ParentOK, RootsUnique, Assigned, ParentLane
<1>4. QED
  BY <1>1, <1>2, <1>3

LEMMA AssignIdInv ==
  ASSUME Inv, NEW w \in Worker, AssignId(w)
  PROVE  Inv'
<1> DEFINE m == parsing[w]
<1>1. m \in Message /\ WorkerOf[m] = w /\ stage[m] = "headers"
  BY DEF Inv, AssignId, WorkerOK, ParsingOK
<1>2. PICK c \in {loaded[w] + 1, local_id_counter} :
        local_id' = [local_id EXCEPT ![m] =
                       [parent |-> ParentLane(m), branch |-> Branch(c)]]
  BY DEF AssignId
<1>3. c \in Nat /\ Branch(c) \in 0 .. Lane - 1
  BY <1>2, BranchFacts DEF Inv, TypeOK
<1>4. ParentLane(m) \in 0 .. Lane - 1
  BY <1>1, RpcIdsAssumption DEF Inv, TypeOK, ParentLane, Id
<1>5. TypeOK'
  BY <1>1, <1>2, <1>3, <1>4 DEF Inv, AssignId, TypeOK, Stage, Step, Id
<1>6. ParsingOK' /\ WorkerOK'
  BY <1>1, RpcIdsAssumption DEF Inv, AssignId, TypeOK, ParsingOK, WorkerOK
<1>7. \A x \in Message : x # m => local_id'[x] = local_id[x] /\ stage'[x] = stage[x]
  BY <1>2 DEF Inv, AssignId, TypeOK
<1>8. parent' = parent /\ stage'[m] = "ready"
      /\ local_id'[m] = [parent |-> ParentLane(m), branch |-> Branch(c)]
  BY <1>1, <1>2 DEF Inv, AssignId, TypeOK
<1>9. \A x \in Message : parent[x] # NoMessage => parent[x] # m /\ parent[x] \in Message
  BY <1>1 DEF Inv, ParentOK, TypeOK
<1>10. ParentOK'
  BY <1>1, <1>7, <1>8, <1>9 DEF Inv, ParentOK, Assigned, ParentLane, TypeOK
<1>11. RootsUnique'
  BY <1>1, <1>7, <1>8 DEF Inv, RootsUnique
<1>12. QED
  BY <1>5, <1>6, <1>10, <1>11 DEF Inv

\* Only the stage of m changes, to asked or routed.
LEMMA AdvanceInv ==
  ASSUME Inv, NEW w \in Worker, NEW m \in Message, Idle(w, m),
         Assigned(m), stage[m] # "routed", NEW s \in {"asked", "routed"},
         s = "routed" /\ parent[m] = NoMessage
           => IdMap(w, TRUE, local_id[m]) = {},
         stage' = [stage EXCEPT ![m] = s],
         UNCHANGED <<local_id_counter, local_id, parent, workerVars, aborted>>
  PROVE  Inv'
<1> USE DEF Inv, Idle, workerVars
<1>1. TypeOK'
  BY DEF TypeOK, Stage
<1>2. ParsingOK' /\ WorkerOK'
  BY DEF TypeOK, ParsingOK, WorkerOK, Assigned
<1>3. ParentOK'
  BY DEF TypeOK, ParentOK, Assigned, ParentLane
<1>4. RootsUnique'
  BY DEF TypeOK, RootsUnique, IdMap
<1>5. QED
  BY <1>1, <1>2, <1>3, <1>4

LEMMA AskForCreditInv ==
  ASSUME Inv, NEW w \in Worker, NEW m \in Message, AskForCredit(w, m)
  PROVE  Inv'
<1>1. \/ \E reason \in Reason : Fatal(reason)
      \/ /\ stage' = [stage EXCEPT ![m] = "asked"]
         /\ UNCHANGED <<local_id_counter, local_id, parent, workerVars, aborted>>
  BY DEF AskForCredit, Reason
<1>2. QED
  BY <1>1, FatalInv, AdvanceInv DEF AskForCredit, Assigned

LEMMA RouteInv ==
  ASSUME Inv, NEW w \in Worker, NEW m \in Message, Route(w, m)
  PROVE  Inv'
<1>1. \/ \E reason \in Reason : Fatal(reason)
      \/ /\ IdMap(w, parent[m] = NoMessage, local_id[m]) = {}
         /\ stage' = [stage EXCEPT ![m] = "routed"]
         /\ UNCHANGED <<local_id_counter, local_id, parent, workerVars, aborted>>
  BY DEF Route, Reason
<1>2. Idle(w, m) /\ Assigned(m) /\ stage[m] # "routed"
  BY DEF Route, Assigned
<1>3. parent[m] = NoMessage => (parent[m] = NoMessage) = TRUE
  OBVIOUS
<1>4. QED
  BY <1>1, <1>2, <1>3, FatalInv, AdvanceInv

LEMMA RespondInv ==
  ASSUME Inv, NEW w \in Worker, NEW m \in Message, Respond(w, m)
  PROVE  Inv'
<1>1. ASSUME NEW reason \in Reason, Fatal(reason) PROVE Inv'
  BY <1>1, FatalInv
<1>2. CASE /\ stage' = [stage EXCEPT ![m] = "pooled"]
           /\ local_id' = [local_id EXCEPT ![m] = Unset]
           /\ parent' = [parent EXCEPT ![m] = NoMessage]
           /\ UNCHANGED <<local_id_counter, workerVars, aborted>>
  <2> USE <1>2 DEF Inv, workerVars
  <2>0. Unset \in Id
    BY RpcIdsAssumption DEF Unset, Id
  <2>1. TypeOK'
    BY <2>0 DEF TypeOK, Stage
  <2>2. ParsingOK' /\ WorkerOK'
    BY DEF Respond, Idle, TypeOK, ParsingOK, WorkerOK
  <2>3. \A x \in Message : parent[x] # m
    BY RpcIdsAssumption DEF Respond, SubRequests, ParentOK
  <2>4. ParentOK'
    BY <2>3, RpcIdsAssumption DEF TypeOK, ParentOK, Assigned, ParentLane
  <2>5. RootsUnique'
    BY DEF TypeOK, RootsUnique
  <2>6. QED
    BY <2>1, <2>2, <2>4, <2>5
<1>3. QED
  BY <1>1, <1>2 DEF Respond, Reason

LEMMA NextInv ==
  ASSUME Inv, [Next]_idVars
  PROVE  Inv'
<1>1. CASE UNCHANGED idVars
  BY <1>1 DEF idVars, Inv, TypeOK, ParsingOK, WorkerOK, ParentOK, RootsUnique,
              Assigned, ParentLane
<1>2. ASSUME NEW w \in Worker, StoreCounter(w) \/ AssignId(w)
      PROVE  Inv'
  BY <1>2, StoreCounterInv, AssignIdInv
<1>3. ASSUME NEW w \in Worker, NEW m \in Message, ParseRpcId(w, m)
      PROVE  Inv'
  BY <1>3, LoadCounterInv DEF ParseRpcId
<1>4. ASSUME NEW w \in Worker, NEW m \in Message, NEW p \in Message,
             ParseRpcLocalId(w, m, p)
      PROVE  Inv'
  <2>1. Fatal("range") => Inv'
    BY FatalInv DEF Reason
  <2>2. LoadCounter(w, m, p) /\ local_id[p].branch # 0 => Inv'
    BY <1>4, LoadCounterInv DEF ParseRpcLocalId
  <2>3. QED
    BY <1>4, <2>1, <2>2 DEF ParseRpcLocalId
<1>5. ASSUME NEW w \in Worker, NEW m \in Message,
             AskForCredit(w, m) \/ Route(w, m) \/ Respond(w, m)
      PROVE  Inv'
  BY <1>5, AskForCreditInv, RouteInv, RespondInv
<1>6. QED
  BY <1>1, <1>2, <1>3, <1>4, <1>5 DEF Next

THEOREM Invariance == Spec => []Inv
<1>1. Init => Inv
  BY InitInv
<1>2. Inv /\ [Next]_idVars => Inv'
  BY NextInv
<1>3. QED
  BY <1>1, <1>2, PTL DEF Spec

\* The state of the local ids is well typed; in particular an id never leaves
\* its lanes (rpc_message.cc:19).
THEOREM TypeCorrect == Spec => []TypeOK
<1>1. Inv => TypeOK
  BY DEF Inv
<1>2. QED
  BY <1>1, Invariance, PTL

\* The high lane of a sub-request's id leads to its parent and to nothing else.
LEMMA ParentLookup ==
  ASSUME Inv, NEW m \in Message, parent[m] # NoMessage, Assigned(m)
  PROVE  IngressRpc(WorkerOf[m], m) = {parent[m]}
<1> DEFINE p == parent[m]
<1>1. /\ p \in Message /\ stage[p] = "routed" /\ WorkerOf[p] = WorkerOf[m]
      /\ parent[p] = NoMessage /\ local_id[p].branch # 0
      /\ local_id[m].parent = local_id[p].branch
      /\ local_id[p].parent = 0
  BY DEF Inv, ParentOK, TypeOK, ParentLane, Assigned
<1>2. local_id[p] = IngressKey(m)
  BY <1>1 DEF Inv, TypeOK, Id, IngressKey
<1>3. IngressRpc(WorkerOf[m], m) = IdMap(WorkerOf[m], TRUE, local_id[p])
  BY <1>1, <1>2 DEF IngressRpc
<1>4. p \in IdMap(WorkerOf[m], TRUE, local_id[p])
  BY <1>1 DEF IdMap
<1>5. \A x \in IdMap(WorkerOf[m], TRUE, local_id[p]) : x = p
  BY <1>1 DEF IdMap, Inv, RootsUnique
<1>6. QED
  BY <1>3, <1>4, <1>5

\* get_ingress_rpc (rpc_mapper.cc:85) finds the request a sub-request belongs
\* to, for every width of the counter and after any number of wraps.
THEOREM ParentsFound == Spec => []ParentFound
<1>1. Inv => ParentFound
  BY ParentLookup DEF ParentFound, Assigned
<1>2. QED
  BY <1>1, Invariance, PTL

-----------------------------------------------------------------------------
(* One thread *)

OneThread == \A v, w \in Worker : v = w

\* Nobody else changes the counter during get_new_local_id.
CounterOK ==
  /\ local_id_counter >= 1
  /\ \A w \in Worker : /\ step[w] = "store" => loaded[w] = local_id_counter
                       /\ step[w] = "assign" => loaded[w] + 1 = local_id_counter

\* Before the wrap: every id that was given out has a branch of its own, below
\* the value that is about to be given out.
Unwrapped ==
  local_id_counter < Lane =>
    /\ aborted = "no"
    /\ \A m \in Message :
         Assigned(m) => /\ local_id[m].branch \in 1 .. local_id_counter
                        /\ \A w \in Worker : step[w] = "assign" =>
                             local_id[m].branch # local_id_counter
    /\ \A m, x \in Message :
         Assigned(m) /\ Assigned(x) /\ local_id[m].branch = local_id[x].branch
           => m = x

\* No check fails before the wrap.
LEMMA NoFatal ==
  ASSUME Inv, Unwrapped, local_id_counter < Lane, NEW m \in Message, Assigned(m)
  PROVE  /\ parent[m] # NoMessage => IngressRpc(WorkerOf[m], m) # {}
         /\ local_id[m] # Unset
         /\ ~InPpmQueue(WorkerOf[m], local_id[m]) \/ stage[m] = "asked"
         /\ \A root \in BOOLEAN :
              IdMap(WorkerOf[m], root, local_id[m]) = {} \/ stage[m] = "routed"
<1>1. parent[m] # NoMessage => IngressRpc(WorkerOf[m], m) = {parent[m]}
  BY ParentLookup DEF Unwrapped
<1>2. local_id[m] # Unset
  <2> SUFFICES ASSUME local_id[m] = Unset PROVE FALSE
    OBVIOUS
  <2>1. local_id[m].branch = Lane - 1 /\ local_id[m].parent = Lane - 1
    BY DEF Unset
  <2>2. Lane - 1 # 0
    BY RpcIdsAssumption
  <2>3. /\ parent[m] \in Message /\ Assigned(parent[m]) /\ parent[m] # m
        /\ local_id[parent[m]].branch = local_id[m].branch
    BY <2>1, <2>2, RpcIdsAssumption
    DEF Inv, ParentOK, ParentLane, TypeOK, Assigned
  <2>4. QED
    BY <2>3 DEF Unwrapped
<1>3. \A x \in Message : Assigned(x) /\ local_id[x] = local_id[m] => x = m
  BY DEF Unwrapped
<1>4. QED
  BY <1>1, <1>2, <1>3 DEF InPpmQueue, IdMap, Assigned

LEMMA InitUnwrapped == Init => CounterOK /\ Unwrapped
  BY DEF Init, CounterOK, Unwrapped, Assigned

LEMMA StepCounterOK ==
  ASSUME OneThread, Inv, CounterOK, [Next]_idVars
  PROVE  CounterOK' /\ local_id_counter' >= local_id_counter
<1> USE DEF Inv, TypeOK, CounterOK, OneThread
<1>1. CASE UNCHANGED idVars
  BY <1>1 DEF idVars
<1>2. ASSUME NEW w \in Worker, StoreCounter(w)
      PROVE  CounterOK' /\ local_id_counter' >= local_id_counter
  BY <1>2 DEF StoreCounter
<1>3. ASSUME NEW w \in Worker, AssignId(w)
      PROVE  CounterOK' /\ local_id_counter' >= local_id_counter
  BY <1>3 DEF AssignId
<1>4. ASSUME NEW w \in Worker, NEW m \in Message, NEW p, LoadCounter(w, m, p)
      PROVE  CounterOK' /\ local_id_counter' >= local_id_counter
  BY <1>4 DEF LoadCounter
<1>5. ASSUME UNCHANGED <<local_id_counter, workerVars>>
      PROVE  CounterOK' /\ local_id_counter' >= local_id_counter
  BY <1>5 DEF workerVars
<1>6. QED
  BY <1>1, <1>2, <1>3, <1>4, <1>5
  DEF Next, ParseRpcId, ParseRpcLocalId, AskForCredit, Route, Respond, Fatal

LEMMA StepUnwrapped ==
  ASSUME OneThread, Inv, CounterOK, Unwrapped, [Next]_idVars
  PROVE  Unwrapped'
<1> SUFFICES ASSUME local_id_counter' < Lane PROVE Unwrapped'
  BY DEF Unwrapped
<1>0. local_id_counter < Lane
  <2>1. local_id_counter' \in Nat
    BY NextInv DEF Inv, TypeOK
  <2>2. QED
    BY <2>1, StepCounterOK, RpcIdsAssumption DEF Inv, TypeOK
<1>1. CASE UNCHANGED idVars
  BY <1>1 DEF idVars, Unwrapped, Assigned
<1>2. ASSUME NEW w \in Worker, StoreCounter(w) PROVE Unwrapped'
  BY <1>0, <1>2 DEF StoreCounter, Unwrapped, Assigned, Inv, TypeOK, CounterOK, Id
<1>3. ASSUME NEW w \in Worker, AssignId(w) PROVE Unwrapped'
  <2> DEFINE m == parsing[w]
  <2>1. m \in Message /\ ~Assigned(m)
    BY <1>3 DEF Inv, AssignId, WorkerOK, ParsingOK, Assigned
  <2>2. local_id'[m].branch = local_id_counter
    BY <1>0, <1>3, <2>1, BranchFacts DEF AssignId, CounterOK, Inv, TypeOK
  <2>3. \A x \in Message : x # m => /\ local_id'[x] = local_id[x]
                                    /\ Assigned(x)' <=> Assigned(x)
    BY <1>3 DEF AssignId, Inv, TypeOK, Assigned
  <2>4. /\ \A v \in Worker : step'[v] # "assign"
        /\ local_id_counter' = local_id_counter /\ aborted' = aborted
        /\ step[w] = "assign"
    BY <1>3 DEF AssignId, OneThread, Inv, TypeOK
  <2>5. \A x \in Message : Assigned(x) => local_id[x].branch # local_id_counter
    BY <1>0, <2>4 DEF Unwrapped
  <2>6. \A x \in Message : Assigned(x)' =>
          local_id'[x].branch \in 1 .. local_id_counter
    BY <1>0, <2>1, <2>2, <2>3 DEF Unwrapped, CounterOK, Inv, TypeOK
  <2>7. QED
    BY <1>0, <2>1, <2>2, <2>3, <2>4, <2>5, <2>6 DEF Unwrapped
<1>4. ASSUME NEW w \in Worker, NEW m \in Message, NEW p, Free(w, m),
             LoadCounter(w, m, p)
      PROVE  Unwrapped'
  BY <1>0, <1>4 DEF LoadCounter, Free, Unwrapped, Assigned, Inv, TypeOK
<1>5. ASSUME NEW w \in Worker, NEW m \in Message, NEW p \in Message,
             ParseRpcLocalId(w, m, p)
      PROVE  Free(w, m) /\ LoadCounter(w, m, p)
  BY <1>0, <1>5 DEF ParseRpcLocalId, Unwrapped, Assigned
<1>6. ASSUME NEW m \in Message, Assigned(m), NEW s \in Stage,
             stage' = [stage EXCEPT ![m] = s],
             s = "pooled" \/ local_id' = local_id,
             \A x \in Message : x # m => local_id'[x] = local_id[x],
             UNCHANGED <<local_id_counter, workerVars, aborted>>
      PROVE  Unwrapped'
  BY <1>0, <1>6 DEF Unwrapped, Assigned, workerVars, Inv, TypeOK
<1>7. ASSUME NEW w \in Worker, NEW m \in Message, AskForCredit(w, m)
      PROVE  Unwrapped'
  <2>1. Assigned(m) /\ WorkerOf[m] = w /\ stage[m] # "asked" /\ parent[m] # NoMessage
    BY <1>7 DEF AskForCredit, Assigned, Idle
  <2>2. ~InPpmQueue(w, local_id[m]) /\ IngressRpc(w, m) # {}
    BY <1>0, <2>1, NoFatal
  <2>3. /\ stage' = [stage EXCEPT ![m] = "asked"]
        /\ UNCHANGED <<local_id_counter, local_id, parent, workerVars, aborted>>
    BY <1>7, <2>2 DEF AskForCredit
  <2>4. QED
    BY <1>6, <2>1, <2>3 DEF Stage
<1>8. ASSUME NEW w \in Worker, NEW m \in Message, Route(w, m)
      PROVE  Unwrapped'
  <2>1. Assigned(m) /\ WorkerOf[m] = w /\ stage[m] # "routed"
    BY <1>8 DEF Route, Assigned, Idle
  <2>2. /\ parent[m] # NoMessage => IngressRpc(w, m) # {}
        /\ local_id[m] # Unset
        /\ IdMap(w, parent[m] = NoMessage, local_id[m]) = {}
    BY <1>0, <2>1, NoFatal
  <2>3. /\ stage' = [stage EXCEPT ![m] = "routed"]
        /\ UNCHANGED <<local_id_counter, local_id, parent, workerVars, aborted>>
    BY <1>8, <2>2 DEF Route
  <2>4. QED
    BY <1>6, <2>1, <2>3 DEF Stage
<1>9. ASSUME NEW w \in Worker, NEW m \in Message, Respond(w, m)
      PROVE  Unwrapped'
  <2>1. Assigned(m) /\ WorkerOf[m] = w
    BY <1>9 DEF Respond, Assigned, Idle
  <2>2. parent[m] # NoMessage => IngressRpc(w, m) # {}
    BY <1>0, <2>1, NoFatal
  <2>3. /\ stage' = [stage EXCEPT ![m] = "pooled"]
        /\ local_id' = [local_id EXCEPT ![m] = Unset]
        /\ UNCHANGED <<local_id_counter, workerVars, aborted>>
    BY <1>9, <2>2 DEF Respond
  <2>4. \A x \in Message : x # m => local_id'[x] = local_id[x]
    BY <2>3 DEF Inv, TypeOK
  <2>5. QED
    BY <1>6, <2>1, <2>3, <2>4 DEF Stage
<1>10. QED
  BY <1>1, <1>2, <1>3, <1>4, <1>5, <1>7, <1>8, <1>9 DEF Next, ParseRpcId

\* One thread never fails a check of an id before the low lane of
\* local_id_counter has wrapped (rpc_message.cc:19, rpc_mapper.cc:74).
THEOREM AbortsNeedWrap ==
  ASSUME OneThread
  PROVE  Spec => []AbortsOnlyAfterWrap
<1>1. Init => CounterOK /\ Unwrapped
  BY InitUnwrapped
<1>2. Inv /\ CounterOK /\ Unwrapped /\ [Next]_idVars => CounterOK' /\ Unwrapped'
  BY StepCounterOK, StepUnwrapped
<1>3. Unwrapped => AbortsOnlyAfterWrap
  BY DEF Unwrapped, AbortsOnlyAfterWrap
<1>4. QED
  BY <1>1, <1>2, <1>3, Invariance, PTL DEF Spec
=============================================================================
