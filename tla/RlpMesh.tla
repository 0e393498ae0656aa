------------------------------ MODULE RlpMesh ------------------------------
(***************************************************************************)
(* The Request Limit Protocol between a sidecar (Sidecar) and the leaf     *)
(* sidecars of its downstream services.  Each leaf sidecar runs the server *)
(* side: protocol_server and forward on its own CreditQueue, for one       *)
(* hosted service (endpoint 0).                                            *)
(*                                                                         *)
(* leaf_stage[d][r] says where the sub-request of r to service d is, as a  *)
(* message on the way or inside the leaf sidecar.  Messages arrive in any  *)
(* order (Credit Requests, grants and returns are UDP datagrams); none is  *)
(* lost or duplicated.  The identity r is used again for a new request     *)
(* once all messages of the old one were delivered.                        *)
(***************************************************************************)
EXTENDS Sidecar

CONSTANTS
  LeafLimit,   \* initial limit of each leaf sidecar
  LeafRatios   \* bound: rounded ratios of round trip to local service time a
               \* limit update of a leaf may compute ({}: no update is due)

ASSUME LeafLimitAssumption ==
  LeafLimit \in Nat \ {0} /\ LeafRatios \subseteq Nat \ {0}

VARIABLES leaf_cq, leaf_stage

leafVars == <<leaf_cq, leaf_stage>>
meshVars == <<vars, leafVars>>

LeafStage == { "none",
               "asked",    \* Credit Request on the way to the leaf
               "queued",   \* Credit Request in the credit queue of the leaf
               "granted",  \* granted: the grant is on the way, or collected
               "request",  \* request on the way to the leaf
               "return",   \* credit return on the way to the leaf
               "local",    \* in the leaf service
               "answered" }\* response on the way to the parent

LeafEndpoint == 0

MeshInit ==
  /\ Init
  /\ leaf_cq = [d \in Downstream |->
       EmptyCreditQueue([e \in Endpoint |-> LeafLimit], LeafLimit)]
  /\ leaf_stage = [d \in Downstream |-> [r \in Req |-> "none"]]

-----------------------------------------------------------------------------
(* Leaf sidecars *)

\* update_limits of a leaf with one CPU: a ratio of 1 gives the initial limit,
\* and with one hosted service the global limit is the limit of its endpoint.
\* (More CPUs multiply the ratio; any set of limits is a set of ratios.)
LeafLimits == {LeafLimit + k - 1 : k \in LeafRatios}
LeafUpdateLimits(c, limit) ==
  UpdateGlobalLimit(UpdateEndpointLimit(c, limit, LeafEndpoint), limit)
LeafLimitsMaybeUpdated(c) == {c} \cup {LeafUpdateLimits(c, l) : l \in LeafLimits}

\* check_credit_transmission of leaf d on queue c and stages st.
LeafCheckCreditTransmission(d, c, st) ==
  LET popped == Pop(c)
  IN  /\ leaf_cq' = [leaf_cq EXCEPT ![d] = popped.cq]
      /\ leaf_stage' = [leaf_stage EXCEPT ![d] =
           IF popped.grant = NoReq THEN st
           ELSE [st EXCEPT ![popped.grant] = "granted"]]

\* The service passes the priority of r on: one that is out of range has ended
\* the parent (RecvCreditRequest) before it comes here.
LeafRecvCreditRequest(r, d) ==
  /\ leaf_stage[d][r] = "asked"
  /\ \E c \in LeafLimitsMaybeUpdated(leaf_cq[d]) :
       LeafCheckCreditTransmission(d, Push(c, r, LeafEndpoint, PriorityOf[r]),
                                   [leaf_stage[d] EXCEPT ![r] = "queued"])
  /\ UNCHANGED vars

\* Mutant of LeafRecvCreditReturn: the freed slot is not offered to the queue.
LeafRecvCreditReturnOnly(r, d) ==
  /\ leaf_stage[d][r] = "return"
  /\ leaf_cq' = [leaf_cq EXCEPT ![d] = DecrementInFlight(@, LeafEndpoint)]
  /\ leaf_stage' = [leaf_stage EXCEPT ![d][r] = "none"]
  /\ UNCHANGED vars
\* Mutant of LeafRecvCreditReturn: the returned credit stays in use.
LeafIgnoreCreditReturn(r, d) ==
  /\ leaf_stage[d][r] = "return"
  /\ leaf_stage' = [leaf_stage EXCEPT ![d][r] = "none"]
  /\ UNCHANGED leaf_cq
  /\ UNCHANGED vars
LeafRecvCreditReturn(r, d) ==
  /\ leaf_stage[d][r] = "return"
  /\ LeafCheckCreditTransmission(d, DecrementInFlight(leaf_cq[d], LeafEndpoint),
                                 [leaf_stage[d] EXCEPT ![r] = "none"])
  /\ UNCHANGED vars

LeafRecvRequest(r, d) ==
  /\ leaf_stage[d][r] = "request"
  /\ leaf_stage' = [leaf_stage EXCEPT ![d][r] = "local"]
  /\ UNCHANGED leaf_cq
  /\ UNCHANGED vars

\* Mutant of LeafResponse: an answered request keeps its slot.
LeafResponseLeaks(r, d) ==
  /\ leaf_stage[d][r] = "local"
  /\ LeafCheckCreditTransmission(d, leaf_cq[d],
                                 [leaf_stage[d] EXCEPT ![r] = "answered"])
  /\ UNCHANGED vars
LeafResponse(r, d) ==
  /\ leaf_stage[d][r] = "local"
  /\ LeafCheckCreditTransmission(d, DecrementInFlight(leaf_cq[d], LeafEndpoint),
                                 [leaf_stage[d] EXCEPT ![r] = "answered"])
  /\ UNCHANGED vars

LeafStep(r, d) ==
  \/ LeafRecvCreditRequest(r, d)
  \/ LeafRecvCreditReturn(r, d)
  \/ LeafRecvRequest(r, d)
  \/ LeafResponse(r, d)

-----------------------------------------------------------------------------
(* The parent sidecar *)

\* Mutants of MessageFor: a credit that was collected is asked for again;
\* credits that are not used are not returned.
MessageForAsksAgain(stage_of_call, old) ==
  CASE stage_of_call \in {"asked", "granted"} -> "asked"
    [] stage_of_call = "sent" -> "request"
    [] stage_of_call = "returned" -> "return"
    [] OTHER -> old
MessageForNoReturn(stage_of_call, old) ==
  CASE stage_of_call = "asked" -> "asked"
    [] stage_of_call = "sent" -> "request"
    [] OTHER -> old
\* What the parent sends to the leaf sidecars when the calls of r change.
MessageFor(stage_of_call, old) ==
  CASE stage_of_call = "asked" -> "asked"
    [] stage_of_call = "sent" -> "request"
    [] stage_of_call = "returned" -> "return"
    [] OTHER -> old
SendMessages(r) ==
  leaf_stage' = [d \in Downstream |->
    IF call'[r][d] = call[r][d] THEN leaf_stage[d]
    ELSE [leaf_stage[d] EXCEPT ![r] = MessageFor(call'[r][d], @)]]

MeshClientCreditRequest(r) ==
  /\ \A d \in Downstream : leaf_stage[d][r] = "none"
  /\ ClientCreditRequest(r)
  /\ UNCHANGED leafVars

\* Events of the parent that exchange no message with a leaf.
ParentStep(r) ==
  /\ \/ RecvCreditRequest(r)
     \/ RecvCreditReturn(r)
     \/ RecvRequest(r)
     \/ LocalResponse(r)
  /\ UNCHANGED leafVars

MeshSubRequest(r, d) ==
  /\ SubRequest(r, d)
  /\ SendMessages(r)
  /\ UNCHANGED leaf_cq

MeshRecvCreditGrant(r, d) ==
  /\ leaf_stage[d][r] = "granted"
  /\ RecvCreditGrant(r, d)
  /\ SendMessages(r)
  /\ UNCHANGED leaf_cq

MeshRecvResponse(r, d) ==
  /\ leaf_stage[d][r] = "answered"
  /\ RecvResponse(r, d)
  /\ leaf_stage' = [leaf_stage EXCEPT ![d][r] = "none"]
  /\ UNCHANGED leaf_cq

-----------------------------------------------------------------------------

MeshNext ==
  /\ ~aborted
  /\ \E r \in Req :
       \/ MeshClientCreditRequest(r)
       \/ ParentStep(r)
       \/ \E d \in Downstream : \/ MeshSubRequest(r, d)
                                \/ MeshRecvCreditGrant(r, d)
                                \/ MeshRecvResponse(r, d)
                                \/ LeafStep(r, d)

MeshSpec == MeshInit /\ [][MeshNext]_meshVars

\* Every message is delivered and every service completes what it began.  A
\* service that may call one of several downstreams calls one of them.
MeshFairSpec ==
  /\ MeshSpec
  /\ \A r \in Req :
       /\ WF_meshVars(~aborted /\ ParentStep(r))
       /\ WF_meshVars(~aborted /\ \E d \in Downstream : MeshSubRequest(r, d))
       /\ \A d \in Downstream :
            /\ WF_meshVars(~aborted /\ MeshRecvCreditGrant(r, d))
            /\ WF_meshVars(~aborted /\ MeshRecvResponse(r, d))
            /\ WF_meshVars(~aborted /\ LeafStep(r, d))

-----------------------------------------------------------------------------
(* Properties *)

MeshTypeOK ==
  /\ TypeOK
  /\ leaf_cq \in [Downstream -> CreditQueueType]
  /\ leaf_stage \in [Downstream -> [Req -> LeafStage]]

\* The parent and the leaf agree on every sub-request: a grant reaches a parent
\* that waits for it, the parent returns or uses each credit once, and a
\* sub-request that is not under way has no credit at the leaf.
CallsMatchLeaves ==
  \A r \in Req, d \in Downstream :
    leaf_stage[d][r] \in
      CASE call[r][d] = "none" -> {"none", "return"}
        [] call[r][d] = "asked" -> {"asked", "queued", "granted"}
        [] call[r][d] = "granted" -> {"granted"}
        [] call[r][d] = "sent" -> {"request", "local", "answered"}
        [] call[r][d] = "answered" -> {"none"}
        [] call[r][d] = "returned" -> {"return", "none"}

HoldsCredit(r, d) == leaf_stage[d][r] \in {"granted", "request", "return", "local"}

\* Credits are conserved across the two sidecars: the in_flight counter of a
\* leaf is the number of its credits that are on the way, kept by the parent,
\* used by a request or being returned, also while the limits of leaves change.
CreditsConserved ==
  \A d \in Downstream :
    leaf_cq[d].in_flight = Cardinality({r \in Req : HoldsCredit(r, d)})

\* What is next for r does not depend on another request: a message of r can be
\* delivered, or the parent's service can call, answer or go on.
CanMove(r) ==
  \/ stage[r] \in {"asked", "granted"}
  \/ /\ stage[r] = "local"
     /\ MayRespond(r) \/ \E d \in DownstreamsOf(r) : MayCall(r, d)
  \/ \E d \in Downstream :
       \/ leaf_stage[d][r] \in {"asked", "request", "return", "local", "answered"}
       \/ leaf_stage[d][r] = "granted" /\ call[r][d] = "asked"

\* r waits in credit queues, and for each of them a request of S has one of the
\* slots it waits for.
WaitsFor(r, S) ==
  /\ stage[r] = "queued" \/ \E d \in Downstream : leaf_stage[d][r] = "queued"
  /\ stage[r] = "queued" => \E x \in S : Occupies(x)
  /\ \A d \in Downstream :
       leaf_stage[d][r] = "queued" => \E x \in S : HoldsCredit(x, d)
Behind(S) == S \cup {r \in Req : WaitsFor(r, S)}

\* A condition on the configuration: the dfanout requests that may ask a leaf for
\* a credit are at most as many as the smallest limit of the leaf.
DfanoutWithinLimits ==
  \A d \in Downstream :
    Cardinality({r \in Req : FanoutOf(r) = "dfanout" /\ d \in DownstreamsOf(r)})
      <= LeafLimit

\* Nobody waits for itself: every request can move, or in each credit queue it
\* waits in, the slots are held by a request that can, or that waits for credits
\* of a leaf of which another holder can.  From a request that waits at the
\* parent there are three such steps at most: to one in the parent's service,
\* which waits at a leaf, to a dfanout request that keeps the leaf's credit until
\* it has all, to a request that uses the credit it lacks.  (fanout_req_management
\* keeps credits in credit_return_queue while it waits for more; without
\* DfanoutWithinLimits two dfanout requests can block each other.)
NoCircularWait ==
  LET movable == {r \in Req : CanMove(r)}
  IN  \A r \in Req : stage[r] # "none" => r \in Behind(Behind(Behind(movable)))

\* rlp_logic.md: no timeouts are required if servers do not crash.  Every
\* request that entered the service is answered.
EveryRequestAnswered ==
  \A r \in Req : stage[r] = "local" ~> stage[r] = "none"

-----------------------------------------------------------------------------
(* A leaf sidecar is a sidecar *)

\* Where a sub-request is for its leaf, as the request of any other client.  A
\* credit that the parent keeps, uses or returns is one the leaf has granted.
ClientStage(l) ==
  CASE l \in {"request", "return"} -> "granted"
    [] l = "answered" -> "none"
    [] OTHER -> l

Leaf(d) == INSTANCE Sidecar WITH
  ServiceOf <- [r \in Req |-> LeafEndpoint],
  Downstream <- {}, Downstreams <- [e \in Endpoint |-> {}],
  Fanout <- [e \in Endpoint |-> "sequential"],
  CpuCount <- 1, ExtraLimit <- LeafLimit - 2, OverNum <- 0, OverDen <- 1,
  Ratios <- LeafRatios,
  cq <- leaf_cq[d], stage <- [r \in Req |-> ClientStage(leaf_stage[d][r])],
  call <- [r \in Req |-> [f \in {} |-> "none"]], ppm_queue <- [f \in {} |-> {}],
  pfanout_req <- [r \in Req |-> 0], pfanout_res <- [r \in Req |-> 0],
  dfanout_service <- [r \in Req |-> NoService],
  aborted <- FALSE

\* Arithmetic fact: without over-commitment the global limit is the largest one.
ASSUME LeafGlobalLimitAssumption ==
  \A d \in Downstream, l \in LeafLimits \cup {LeafLimit} :
    Leaf(d)!LeafGlobalLimit([e \in Endpoint |-> IF e = LeafEndpoint THEN l ELSE LeafLimit])
      = l

\* The parent is a client like the ones Sidecar assumes: it asks once for each
\* sub-request, then uses or returns the credit, whatever the fan-out.  So each
\* leaf implements the specification of a leaf sidecar.
LeavesAreSidecars ==
  /\ \A d \in Downstream : Leaf(d)!Init
  /\ [][\A d \in Downstream : [Leaf(d)!Next]_(Leaf(d)!vars)]_meshVars
=============================================================================
