------------------------------- MODULE RpcIds -------------------------------
(***************************************************************************)
(* Local ids of RPCs (rpc_message.cc), the id_map of RPCMapper and the     *)
(* lookup of the ingress RPC a sub-request belongs to.                     *)
(*                                                                         *)
(* A local id is a 64-bit word: the high lane is the parent, the low lane  *)
(* the next value of local_id_counter, a global variable that is not       *)
(* atomic.  A request that enters the hosted service has parent 0; it is   *)
(* told its id in the header rpc-local-id, which its sub-requests echo.    *)
(* Every worker thread has its own RPCMapper.  A non-ingress sidecar has   *)
(* one worker; an ingress has one per hosted service, and only requests    *)
(* without a parent.                                                       *)
(***************************************************************************)
EXTENDS Integers, FiniteSets

CONSTANTS
  Worker,      \* threads of the process
  Message,     \* RPCMessage objects
  WorkerOf,    \* the worker whose pool a message belongs to
  NoMessage,
  Lane,        \* number of values of a lane: 2^32
  IsIngress,   \* config.is_ingress
  MaxCounter   \* bound: values of local_id_counter

ASSUME RpcIdsAssumption ==
  /\ WorkerOf \in [Message -> Worker]
  /\ NoMessage \notin Message
  /\ Lane \in Nat /\ Lane >= 2
  /\ IsIngress \in BOOLEAN
  /\ MaxCounter \in Nat

VARIABLES
  local_id_counter,
  stage,      \* where each message is
  local_id,   \* its id
  parent,     \* the message of the request that made it, NoMessage if none
  parsing,    \* the message each worker is parsing
  loaded,     \* the value of the counter it has loaded
  step,       \* its next step of get_new_local_id
  aborted     \* why LOG(FATAL) was reached, "no" if it was not

idVars == <<local_id_counter, stage, local_id, parent, parsing, loaded, step,
            aborted>>
workerVars == <<parsing, loaded, step>>

Stage == { "pooled",   \* in RPCMessagePool
           "headers",  \* its headers are being parsed
           "ready",    \* it has its id
           "asked",    \* a sub-request in ppm_queue, waiting for its credit
           "routed" }  \* forwarded: it is in us_map and id_map
Step == {"idle", "store", "assign"}
Reason == {"no", "range", "no parent", "duplicate", "unset"}

\* RPCID as its two lanes; -1 is the word with all bits set.
Id == [parent : 0 .. Lane - 1, branch : 0 .. Lane - 1]
Unset == [parent |-> Lane - 1, branch |-> Lane - 1]

Init ==
  /\ local_id_counter = 1
  /\ stage = [m \in Message |-> "pooled"]
  /\ local_id = [m \in Message |-> Unset]
  /\ parent = [m \in Message |-> NoMessage]
  /\ parsing = [w \in Worker |-> NoMessage]
  /\ loaded = [w \in Worker |-> 0]
  /\ step = [w \in Worker |-> "idle"]
  /\ aborted = "no"

\* LOG(FATAL): the process is gone, its state is immaterial.
Fatal(reason) ==
  /\ aborted' = reason
  /\ UNCHANGED <<local_id_counter, stage, local_id, parent, workerVars>>

-----------------------------------------------------------------------------
(* add_header_field: get_new_local_id, interleaved with the other workers    *)

\* Mutant of Branch: a narrower branch lane.
BranchHalf(c) == c % (Lane \div 2)
\* Mutant of Branch: the counter is packed without the mask.
BranchUnmasked(c) == c
Branch(c) == c % Lane

\* The increment begins with a load of the counter.
LoadCounter(w, m, p) ==
  /\ parsing' = [parsing EXCEPT ![w] = m]
  /\ parent' = [parent EXCEPT ![m] = p]
  /\ stage' = [stage EXCEPT ![m] = "headers"]
  /\ loaded' = [loaded EXCEPT ![w] = local_id_counter]
  /\ step' = [step EXCEPT ![w] = "store"]
  /\ UNCHANGED <<local_id_counter, local_id, aborted>>

\* A message can be taken from the pool of its worker.
Free(w, m) == /\ step[w] = "idle" /\ WorkerOf[m] = w /\ stage[m] = "pooled"
              /\ local_id_counter < MaxCounter

\* Header rpc-id of a request for the hosted service, or of any request that
\* reaches an ingress: get_new_local_id(0).
ParseRpcId(w, m) ==
  /\ Free(w, m)
  /\ LoadCounter(w, m, NoMessage)

\* Header rpc-local-id of a sub-request of p: the id p was forwarded with
\* (set_local_id_header) must fit into a lane and not be 0.
ParseRpcLocalId(w, m, p) ==
  /\ ~IsIngress
  /\ Free(w, m)
  /\ WorkerOf[p] = w /\ stage[p] = "routed" /\ parent[p] = NoMessage
  /\ IF local_id[p].branch = 0 THEN Fatal("range") ELSE LoadCounter(w, m, p)

StoreCounter(w) ==
  /\ step[w] = "store"
  /\ local_id_counter' = loaded[w] + 1
  /\ step' = [step EXCEPT ![w] = "assign"]
  /\ UNCHANGED <<stage, local_id, parent, parsing, loaded, aborted>>

\* The value that is packed is the one that was stored, or the counter as it is
\* now: compilers may keep it in a register or load it again.
ParentLane(m) == IF parent[m] = NoMessage THEN 0 ELSE local_id[parent[m]].branch
AssignId(w) ==
  /\ step[w] = "assign"
  /\ LET m == parsing[w]
     IN  /\ \E c \in {loaded[w] + 1, local_id_counter} :
              local_id' = [local_id EXCEPT ![m] =
                             [parent |-> ParentLane(m), branch |-> Branch(c)]]
         /\ stage' = [stage EXCEPT ![m] = "ready"]
  /\ parsing' = [parsing EXCEPT ![w] = NoMessage]
  /\ step' = [step EXCEPT ![w] = "idle"]
  /\ UNCHANGED <<local_id_counter, parent, loaded, aborted>>

-----------------------------------------------------------------------------
(* RPCMapper *)

\* id_map of one worker and connection type, at key i.  Requests without a
\* parent and sub-requests are of different types.
IdMap(w, root, i) ==
  {m \in Message : /\ WorkerOf[m] = w /\ stage[m] = "routed"
                   /\ (parent[m] = NoMessage) = root
                   /\ local_id[m] = i}

\* get_ingress_rpc: what the high lane of a sub-request's id finds.
IngressKey(m) == [parent |-> 0, branch |-> local_id[m].parent]
IngressRpc(w, m) ==
  IF local_id[m].parent = 0 THEN {} ELSE IdMap(w, TRUE, IngressKey(m))

\* The worker handles one event at a time.
Idle(w, m) == step[w] = "idle" /\ WorkerOf[m] = w

\* A sub-request with id i waits in ppm_queue.
InPpmQueue(w, i) ==
  \E x \in Message : WorkerOf[x] = w /\ stage[x] = "asked" /\ local_id[x] = i

\* protocol_client: the sub-request waits for a credit in the ppm_queue of its
\* service, where no other may have its id (each service has a queue of its
\* own); its ingress RPC decides what to ask for.
AskForCredit(w, m) ==
  /\ Idle(w, m) /\ stage[m] = "ready" /\ parent[m] # NoMessage
  /\ \E same_service \in BOOLEAN :
       IF same_service /\ InPpmQueue(w, local_id[m]) THEN Fatal("duplicate")
       ELSE IF IngressRpc(w, m) = {} THEN Fatal("no parent")
       ELSE /\ stage' = [stage EXCEPT ![m] = "asked"]
            /\ UNCHANGED <<local_id_counter, local_id, parent, workerVars,
                           aborted>>

\* Mutant of Route: an entry of id_map is replaced.
RouteReplaces(w, m) ==
  /\ Idle(w, m)
  /\ stage[m] = (IF parent[m] = NoMessage THEN "ready" ELSE "asked")
  /\ IF local_id[m] = Unset THEN Fatal("unset")
     ELSE /\ stage' = [stage EXCEPT ![m] = "routed"]
          /\ UNCHANGED <<local_id_counter, local_id, parent, workerVars, aborted>>

\* forward_request and RPCMapper::route.  A sub-request has got its credit
\* (fanout_req_management looks for its ingress RPC once more).
Route(w, m) ==
  /\ Idle(w, m)
  /\ stage[m] = (IF parent[m] = NoMessage THEN "ready" ELSE "asked")
  /\ IF parent[m] # NoMessage /\ IngressRpc(w, m) = {} THEN Fatal("no parent")
     ELSE IF local_id[m] = Unset THEN Fatal("unset")
     ELSE IF IdMap(w, parent[m] = NoMessage, local_id[m]) # {}
     THEN Fatal("duplicate")
     ELSE /\ stage' = [stage EXCEPT ![m] = "routed"]
          /\ UNCHANGED <<local_id_counter, local_id, parent, workerVars, aborted>>

\* Sub-requests of p that are not answered.
SubRequests(p) == {m \in Message : stage[m] # "pooled" /\ parent[m] = p}

\* The response is forwarded, which counts for the ingress RPC
\* (fanout_res_credit_management); remove_rpc erases the id and clears the
\* message.  The service is synchronous: it answers after its sub-requests.
Respond(w, m) ==
  /\ Idle(w, m) /\ stage[m] = "routed"
  /\ SubRequests(m) = {}
  /\ IF parent[m] # NoMessage /\ IngressRpc(w, m) = {} THEN Fatal("no parent")
     ELSE /\ stage' = [stage EXCEPT ![m] = "pooled"]
          /\ local_id' = [local_id EXCEPT ![m] = Unset]
          /\ parent' = [parent EXCEPT ![m] = NoMessage]
          /\ UNCHANGED <<local_id_counter, workerVars, aborted>>

-----------------------------------------------------------------------------

Next ==
  /\ aborted = "no"
  /\ \E w \in Worker :
       \/ StoreCounter(w)
       \/ AssignId(w)
       \/ \E m \in Message : \/ ParseRpcId(w, m)
                             \/ \E p \in Message : ParseRpcLocalId(w, m, p)
                             \/ AskForCredit(w, m)
                             \/ Route(w, m)
                             \/ Respond(w, m)

Spec == Init /\ [][Next]_idVars

-----------------------------------------------------------------------------
(* Properties *)

\* Every variable has its type: a packed id keeps each lane within 32 bits.
TypeOK ==
  /\ local_id_counter \in Nat
  /\ stage \in [Message -> Stage]
  /\ local_id \in [Message -> Id]
  /\ parent \in [Message -> Message \cup {NoMessage}]
  /\ parsing \in [Worker -> Message \cup {NoMessage}]
  /\ loaded \in [Worker -> Nat]
  /\ step \in [Worker -> Step]
  /\ aborted \in Reason

\* get_ingress_rpc finds, at any time and also after the counter has wrapped,
\* exactly the request a sub-request was made by: credits and fan-out counters
\* are charged to the right request.
ParentFound ==
  aborted = "no" =>
    \A m \in Message :
      parent[m] # NoMessage /\ stage[m] \in {"ready", "asked", "routed"} =>
        IngressRpc(WorkerOf[m], m) = {parent[m]}

\* With one thread no check of an id fails before the branch lane has wrapped:
\* ids are unique, the id a service echoes is in range, no id reads as -1.
AbortsOnlyAfterWrap == local_id_counter < Lane => aborted = "no"

\* docs/rpc_ids.md: the branch suffix is monotonic, so id_map never has an id
\* already.
NoDuplicateId == aborted # "duplicate"
=============================================================================
