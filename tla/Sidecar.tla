------------------------------ MODULE Sidecar ------------------------------
(***************************************************************************)
(* A non-ingress sidecar (State in state.cc) between its upstream clients, *)
(* its local service and the downstream sidecars.  Each action is one      *)
(* completion event of the single-threaded event loop, run to its end:     *)
(*                                                                         *)
(*   upstream client      --Credit Request-->  protocol_server             *)
(*                        <--Credit Grant----  check_credit_transmission   *)
(*                        --request--------->  forward INGRESS DOWNSTREAM  *)
(*                        --Credit return--->  protocol_server             *)
(*   local service        --sub-request----->  protocol_client(false)      *)
(*                        --response-------->  forward INGRESS UPSTREAM    *)
(*   downstream sidecar   --Credit Grant---->  protocol_client(true)       *)
(*                        --response-------->  forward EGRESS UPSTREAM     *)
(*                                                                         *)
(* Every message is identified by the upstream request it belongs to, and  *)
(* the downstream service for sub-requests.  A request that was answered   *)
(* may be asked for again: it then stands for the client's next request.   *)
(* The local service is synchronous, as rlp_logic.md assumes: it answers   *)
(* only when its sub-requests are answered, a sequential service has one   *)
(* sub-request at a time, a pfanout service calls all its downstreams or   *)
(* none, a dfanout service calls one, each at most once per request.       *)
(***************************************************************************)
EXTENDS CreditQueue, FiniteSetsExt

CONSTANTS
  ServiceOf,    \* [Req -> Endpoint]: the hosted service of a request
  PriorityOf,   \* [Req -> Nat]: the priority header of a request
  Downstream,   \* the downstream services (keys of config.routing)
  Downstreams,  \* [Endpoint -> SUBSET Downstream]: config.mapping
  Fanout,       \* [Endpoint -> FanoutKind]: config.mapping
  CpuCount,     \* config.cpu_count
  ExtraLimit,   \* config.extra_limit
  OverNum,      \* config.over_commitment is the fraction OverNum / OverDen
  OverDen,
  Ratios        \* bound: rounded ratios of round trip to local service time
                \* a limit update may compute ({}: no update is due)

FanoutKind == {"sequential", "pfanout", "dfanout"}

ASSUME ConfigAssumption ==
  /\ ServiceOf \in [Req -> Endpoint]
  /\ PriorityOf \in [Req -> Nat]
  /\ IsFiniteSet(Req)
  /\ IsFiniteSet(Downstream)
  /\ Downstreams \in [Endpoint -> SUBSET Downstream]
  /\ Fanout \in [Endpoint -> FanoutKind]
  /\ CpuCount \in Nat \ {0}
  /\ ExtraLimit \in Int
  /\ CpuCount * 2 + ExtraLimit >= 1
  /\ OverNum \in Nat /\ OverDen \in Nat \ {0} /\ OverNum <= OverDen
  /\ Ratios \subseteq Nat \ {0}

VARIABLES
  cq,               \* shared_state.credit_queue
  stage,            \* where each upstream request is
  call,             \* where each sub-request of a request is
  ppm_queue,        \* per downstream service: sub-requests awaiting a credit
  pfanout_req,      \* RPCMessage::pfanout_req of the ingress RPC
  pfanout_res,      \* RPCMessage::pfanout_res of the ingress RPC
  dfanout_service,  \* RPCMessage::dfanout_service of the ingress RPC
  aborted           \* LOG(FATAL) was reached: the process is gone

vars == <<cq, stage, call, ppm_queue, pfanout_req, pfanout_res,
          dfanout_service, aborted>>
rpcVars == <<call, ppm_queue, pfanout_req, pfanout_res, dfanout_service>>

NoService == "none"

Stage == { "none",     \* the client has no request
           "asked",    \* its Credit Request is on the way to this sidecar
           "queued",   \* the Credit Request waits in the credit queue
           "granted",  \* the Credit Grant was sent, the request is not here
           "local" }   \* forwarded to the local service

CallStage == { "none",     \* the local service has not called
               "asked",    \* Credit Request sent, no grant yet
               "granted",  \* dfanout: granted, kept until all are granted
               "sent",     \* forwarded downstream
               "answered", \* the response went back to the local service
               "returned" }\* dfanout: the credit was returned

NoCalls == [d \in Downstream |-> "none"]
DownstreamsOf(r) == Downstreams[ServiceOf[r]]
FanoutOf(r) == Fanout[ServiceOf[r]]

-----------------------------------------------------------------------------
(* Limits *)

IsLeaf == Downstream = {}
IntMax == 2147483647

InitialLimit == CpuCount * 2 + ExtraLimit

\* Leaf services: the largest limit plus a share of the other limits.
LeafGlobalLimit(limit) ==
  LET sum == MapThenSumSet(LAMBDA e : limit[e], Endpoint)
      max == Max({limit[e] : e \in Endpoint})
  IN  max + ((sum - max) * OverNum) \div OverDen

NewLimit(e, ratio) ==
  (ratio + 1) * CpuCount + ExtraLimit
    + (IF Fanout[e] = "dfanout" THEN 0 ELSE Cardinality(Downstreams[e]))

UpdateLimits(c, e, ratio) ==
  LET updated == UpdateEndpointLimit(c, NewLimit(e, ratio), e)
  IN  IF IsLeaf
      THEN UpdateGlobalLimit(updated,
                             LeafGlobalLimit(updated.per_endpoint_limit))
      ELSE updated

PossibleLimits ==
  {InitialLimit} \cup {NewLimit(e, k) : e \in Endpoint, k \in Ratios}

\* Arithmetic fact about the sum and maximum of positive limits.
ASSUME GlobalLimitAssumption ==
  \A limit \in [Endpoint -> PossibleLimits] :
    LeafGlobalLimit(limit) \in Nat \ {0}

\* update_limits recomputes the limits at every 2000th sample only.
LimitsMaybeUpdated(c, e) == {c} \cup {UpdateLimits(c, e, k) : k \in Ratios}

-----------------------------------------------------------------------------

Init ==
  LET limit == [e \in Endpoint |-> InitialLimit]
  IN  /\ cq = EmptyCreditQueue(limit, IF IsLeaf THEN LeafGlobalLimit(limit)
                                                ELSE IntMax)
      /\ stage = [r \in Req |-> "none"]
      /\ call = [r \in Req |-> NoCalls]
      /\ ppm_queue = [d \in Downstream |-> {}]
      /\ pfanout_req = [r \in Req |-> 0]
      /\ pfanout_res = [r \in Req |-> 0]
      /\ dfanout_service = [r \in Req |-> NoService]
      /\ aborted = FALSE

\* check_credit_transmission on queue c, when the requests are at stages st.
CheckCreditTransmission(c, st) ==
  LET popped == Pop(c)
  IN  /\ cq' = popped.cq
      /\ stage' = IF popped.grant = NoReq
                  THEN st
                  ELSE [st EXCEPT ![popped.grant] = "granted"]

\* A step that reaches LOG(FATAL) sets aborted, which ends the behaviour: what
\* else the step does to the state is immaterial.

-----------------------------------------------------------------------------
(* Upstream clients *)

\* External: an upstream sidecar sends a Credit Request for a new request.
ClientCreditRequest(r) ==
  /\ stage[r] = "none"
  /\ stage' = [stage EXCEPT ![r] = "asked"]
  /\ UNCHANGED <<cq, aborted>>
  /\ UNCHANGED rpcVars

\* protocol_server, message type 0x01.  A priority the queue has no level
\* for is an out_of_range exception, which the event loop turns into an abort.
RecvCreditRequest(r) ==
  /\ stage[r] = "asked"
  /\ aborted' = (PriorityOf[r] \notin Priority)
  /\ IF PriorityOf[r] \in Priority
     THEN \E c \in LimitsMaybeUpdated(cq, ServiceOf[r]) :
            CheckCreditTransmission(Push(c, r, ServiceOf[r], PriorityOf[r]),
                                    [stage EXCEPT ![r] = "queued"])
     ELSE UNCHANGED <<cq, stage>>
  /\ UNCHANGED rpcVars

\* Mutant of RecvCreditReturn: the freed slot is not offered to the queue.
RecvCreditReturnOnly(r) ==
  /\ stage[r] = "granted"
  /\ cq' = DecrementInFlight(cq, ServiceOf[r])
  /\ stage' = [stage EXCEPT ![r] = "none"]
  /\ UNCHANGED aborted
  /\ UNCHANGED rpcVars

\* protocol_server, message type 0x02: the client does not use the credit.
RecvCreditReturn(r) ==
  /\ stage[r] = "granted"
  /\ CheckCreditTransmission(DecrementInFlight(cq, ServiceOf[r]),
                             [stage EXCEPT ![r] = "none"])
  /\ UNCHANGED aborted
  /\ UNCHANGED rpcVars

\* forward INGRESS DOWNSTREAM: the request enters the local service.
RecvRequest(r) ==
  /\ stage[r] = "granted"
  /\ stage' = [stage EXCEPT ![r] = "local"]
  /\ UNCHANGED <<cq, aborted>>
  /\ UNCHANGED rpcVars

-----------------------------------------------------------------------------
(* Local service *)

\* The local service may call d now (it is synchronous).
MayCall(r, d) ==
  /\ call[r][d] = "none"
  /\ \/ /\ FanoutOf(r) = "sequential"
        /\ \A f \in Downstream : call[r][f] \in {"none", "answered"}
     \/ FanoutOf(r) = "pfanout"
     \/ /\ FanoutOf(r) = "dfanout"
        /\ call[r] = NoCalls

\* The local service may answer: all it called was answered.
MayRespond(r) ==
  \/ call[r] = NoCalls
  \/ /\ FanoutOf(r) = "pfanout"
     /\ \A d \in DownstreamsOf(r) : call[r][d] = "answered"
  \/ /\ FanoutOf(r) # "pfanout"
     /\ \A d \in Downstream : call[r][d] \in {"none", "answered", "returned"}

\* PPMQueue::push aborts on an id it has, pop on an id it does not have, and
\* get_ingress_rpc when the parent was answered already.
PPMPush(r, d) ==
  /\ aborted' = (r \in ppm_queue[d])
  /\ ppm_queue' = [ppm_queue EXCEPT ![d] = @ \cup {r}]
PPMPop(r, d) ==
  /\ aborted' = (r \notin ppm_queue[d] \/ stage[r] # "local")
  /\ ppm_queue' = [ppm_queue EXCEPT ![d] = @ \ {r}]

\* READ on EGRESS DOWNSTREAM: protocol_client(false) puts the sub-request into
\* the PPMQueue and sends its Credit Request, to all downstreams if dfanout.
SubRequest(r, d) ==
  /\ stage[r] = "local"
  /\ d \in DownstreamsOf(r)
  /\ MayCall(r, d)
  /\ PPMPush(r, d)
  /\ IF FanoutOf(r) = "dfanout"
     THEN /\ dfanout_service' = [dfanout_service EXCEPT ![r] = d]
          /\ call' = [call EXCEPT ![r] =
               [f \in Downstream |->
                  IF f \in DownstreamsOf(r) THEN "asked" ELSE "none"]]
     ELSE /\ call' = [call EXCEPT ![r][d] = "asked"]
          /\ UNCHANGED dfanout_service
  /\ UNCHANGED <<cq, stage, pfanout_req, pfanout_res>>

\* Mutant of LocalResponse: the counters of the pooled RPCMessage are stale.
LocalResponseStale(r) ==
  /\ stage[r] = "local"
  /\ MayRespond(r)
  /\ CheckCreditTransmission(DecrementInFlight(cq, ServiceOf[r]),
                             [stage EXCEPT ![r] = "none"])
  /\ call' = [call EXCEPT ![r] = NoCalls]
  /\ UNCHANGED <<pfanout_req, pfanout_res, dfanout_service, ppm_queue, aborted>>

\* READ on INGRESS UPSTREAM: forward sends the response to the client and
\* frees its slot.  The RPCMessage is cleared and goes back to its pool; clear
\* aborts if credits are still to be returned.
LocalResponse(r) ==
  /\ stage[r] = "local"
  /\ MayRespond(r)
  /\ CheckCreditTransmission(DecrementInFlight(cq, ServiceOf[r]),
                             [stage EXCEPT ![r] = "none"])
  /\ aborted' = (\E d \in Downstream :
                   call[r][d] = "granted" /\ d # dfanout_service[r])
  /\ call' = [call EXCEPT ![r] = NoCalls]
  /\ pfanout_req' = [pfanout_req EXCEPT ![r] = 0]
  /\ pfanout_res' = [pfanout_res EXCEPT ![r] = 0]
  /\ dfanout_service' = [dfanout_service EXCEPT ![r] = NoService]
  /\ UNCHANGED ppm_queue

-----------------------------------------------------------------------------
(* Downstream sidecars: protocol_client(true) and fanout_req_management *)

\* Mutant of ReleaseParent: the slot is not offered to the queue.
ReleaseParentOnly(r) ==
  cq' = DecrementInFlight(cq, ServiceOf[r]) /\ UNCHANGED stage

\* After the last sub-request left, the parent is no longer active.
ReleaseParent(r) ==
  CheckCreditTransmission(DecrementInFlight(cq, ServiceOf[r]), stage)

SequentialGrant(r, d) ==
  /\ PPMPop(r, d)
  /\ call' = [call EXCEPT ![r][d] = "sent"]
  /\ ReleaseParent(r)
  /\ UNCHANGED pfanout_req

\* Mutant of PfanoutGrant: the first sub-request releases the parent.
PfanoutGrantFirst(r, d) ==
  /\ PPMPop(r, d)
  /\ call' = [call EXCEPT ![r][d] = "sent"]
  /\ pfanout_req' = [pfanout_req EXCEPT ![r] = @ + 1]
  /\ IF pfanout_req[r] = 0 THEN ReleaseParent(r) ELSE UNCHANGED <<cq, stage>>

PfanoutGrant(r, d) ==
  /\ PPMPop(r, d)
  /\ call' = [call EXCEPT ![r][d] = "sent"]
  /\ pfanout_req' = [pfanout_req EXCEPT ![r] = @ + 1]
  /\ IF pfanout_req[r] + 1 = Cardinality(DownstreamsOf(r))
     THEN ReleaseParent(r)
     ELSE UNCHANGED <<cq, stage>>

\* Credits of all downstreams are collected (the ones of other services than
\* the chosen one in credit_return_queue); the last one sends the sub-request
\* to the chosen service and returns the other credits.
DfanoutCollect(r, d) ==
  /\ pfanout_req[r] + 1 # Cardinality(DownstreamsOf(r))
  /\ aborted' = (stage[r] # "local")
  /\ call' = [call EXCEPT ![r][d] = "granted"]
  /\ UNCHANGED <<cq, stage, ppm_queue>>
\* Mutant of DfanoutComplete: the sub-request of the service whose grant came
\* last is looked for, instead of the chosen one.
DfanoutCompleteLast(r, d) ==
  /\ pfanout_req[r] + 1 = Cardinality(DownstreamsOf(r))
  /\ PPMPop(r, d)
  /\ call' = [call EXCEPT ![r] =
       [f \in Downstream |-> IF f = dfanout_service[r] THEN "sent"
                             ELSE IF f \in DownstreamsOf(r) THEN "returned"
                             ELSE "none"]]
  /\ ReleaseParent(r)
DfanoutComplete(r, d) ==
  /\ pfanout_req[r] + 1 = Cardinality(DownstreamsOf(r))
  /\ PPMPop(r, dfanout_service[r])
  /\ call' = [call EXCEPT ![r] =
       [f \in Downstream |-> IF f = dfanout_service[r] THEN "sent"
                             ELSE IF f \in DownstreamsOf(r) THEN "returned"
                             ELSE "none"]]
  /\ ReleaseParent(r)
DfanoutGrant(r, d) ==
  /\ DfanoutCollect(r, d) \/ DfanoutComplete(r, d)
  /\ pfanout_req' = [pfanout_req EXCEPT ![r] = @ + 1]

RecvCreditGrant(r, d) ==
  /\ call[r][d] = "asked"
  /\ \/ FanoutOf(r) = "sequential" /\ SequentialGrant(r, d)
     \/ FanoutOf(r) = "pfanout" /\ PfanoutGrant(r, d)
     \/ FanoutOf(r) = "dfanout" /\ DfanoutGrant(r, d)
  /\ UNCHANGED <<pfanout_res, dfanout_service>>

\* READ on EGRESS UPSTREAM: fanout_res_credit_management.  The parent is active
\* again, whatever the limits; for pfanout only the first response counts.
RecvResponse(r, d) ==
  /\ call[r][d] = "sent"
  /\ aborted' = (stage[r] # "local")
  /\ call' = [call EXCEPT ![r][d] = "answered"]
  /\ IF FanoutOf(r) = "pfanout"
     THEN /\ pfanout_res' = [pfanout_res EXCEPT ![r] = @ + 1]
          /\ cq' = IF pfanout_res[r] + 1 > 1
                   THEN cq ELSE IncrementInFlight(cq, ServiceOf[r])
     ELSE /\ cq' = IncrementInFlight(cq, ServiceOf[r])
          /\ UNCHANGED pfanout_res
  /\ UNCHANGED <<stage, ppm_queue, pfanout_req, dfanout_service>>

-----------------------------------------------------------------------------

Next ==
  /\ ~aborted
  /\ \E r \in Req :
       \/ ClientCreditRequest(r)
       \/ RecvCreditRequest(r)
       \/ RecvCreditReturn(r)
       \/ RecvRequest(r)
       \/ LocalResponse(r)
       \/ \E d \in Downstream : \/ SubRequest(r, d)
                                \/ RecvCreditGrant(r, d)
                                \/ RecvResponse(r, d)

Spec == Init /\ [][Next]_vars

\* Messages that were sent arrive and are handled, a client that got a credit
\* uses or returns it, downstream sidecars grant and answer, and the local
\* service completes what it began.  Clients need not send new requests.
Fairness ==
  \A r \in Req :
    /\ WF_vars(~aborted /\ RecvCreditRequest(r))
    /\ WF_vars(~aborted /\ (RecvCreditReturn(r) \/ RecvRequest(r)))
    /\ WF_vars(~aborted /\ LocalResponse(r))
    /\ \A d \in Downstream :
         /\ WF_vars(~aborted /\ SubRequest(r, d))
         /\ WF_vars(~aborted /\ RecvCreditGrant(r, d))
         /\ WF_vars(~aborted /\ RecvResponse(r, d))

FairSpec == Spec /\ Fairness

-----------------------------------------------------------------------------
(* Properties *)

\* The state variables have the values the code's types allow; the weighted
\* round robin never stands at a priority with no rounds left (pop() decrements
\* the unsigned remaining_rounds without a test).
TypeOK ==
  /\ cq \in CreditQueueType
  /\ cq.remaining_rounds >= 1
  /\ stage \in [Req -> Stage]
  /\ call \in [Req -> [Downstream -> CallStage]]
  /\ ppm_queue \in [Downstream -> SUBSET Req]
  /\ pfanout_req \in [Req -> Nat]
  /\ pfanout_res \in [Req -> Nat]
  /\ dfanout_service \in [Req -> Downstream \cup {NoService}]
  /\ aborted \in BOOLEAN

Sent(r, d) == call[r][d] \in {"sent", "answered"}
AllSent(r) == DownstreamsOf(r) # {} /\ \A d \in DownstreamsOf(r) : Sent(r, d)
SomeAnswered(r) == \E d \in DownstreamsOf(r) : call[r][d] = "answered"
Blocked(r) == \E d \in DownstreamsOf(r) : call[r][d] = "sent"

\* Sub-requests of r: one at a time (sequential), counted as they leave and
\* return (pfanout), or credits collected for all downstreams first (dfanout).
SequentialCalls(r) ==
  /\ \A d \in Downstream : call[r][d] \in {"none", "asked", "sent", "answered"}
  /\ \A d, f \in Downstream : call[r][d] \in {"asked", "sent"}
                              /\ call[r][f] \in {"asked", "sent"} => d = f
PfanoutCalls(r) ==
  /\ \A d \in Downstream : call[r][d] \in {"none", "asked", "sent", "answered"}
  /\ pfanout_req[r] = Cardinality({d \in DownstreamsOf(r) : Sent(r, d)})
  /\ pfanout_res[r] =
       Cardinality({d \in DownstreamsOf(r) : call[r][d] = "answered"})
DfanoutCalls(r) ==
  \/ call[r] = NoCalls /\ pfanout_req[r] = 0
  \/ /\ dfanout_service[r] \in DownstreamsOf(r)
     /\ \A d \in DownstreamsOf(r) : call[r][d] \in {"asked", "granted"}
     /\ \E d \in DownstreamsOf(r) : call[r][d] = "asked"
     /\ pfanout_req[r] =
          Cardinality({d \in DownstreamsOf(r) : call[r][d] = "granted"})
  \/ /\ dfanout_service[r] \in DownstreamsOf(r)
     /\ Sent(r, dfanout_service[r])
     /\ \A d \in DownstreamsOf(r) \ {dfanout_service[r]} :
          call[r][d] = "returned"

\* A sub-request waits in the PPMQueue of its service until its credit, or for
\* dfanout the last of its credits, arrives.
AwaitsCredit(r, d) ==
  IF FanoutOf(r) = "dfanout"
  THEN d = dfanout_service[r] /\ \E f \in Downstream : call[r][f] = "asked"
  ELSE call[r][d] = "asked"

FanoutOK(r) ==
  /\ stage[r] # "local" =>
       call[r] = NoCalls /\ pfanout_req[r] = 0 /\ pfanout_res[r] = 0
  /\ \A d \in Downstream \ DownstreamsOf(r) : call[r][d] = "none"
  /\ \A d \in Downstream : r \in ppm_queue[d] <=> AwaitsCredit(r, d)
  /\ FanoutOf(r) = "sequential" => SequentialCalls(r)
  /\ FanoutOf(r) = "pfanout" => PfanoutCalls(r)
  /\ FanoutOf(r) = "dfanout" => DfanoutCalls(r)

\* The fan-out counters and the PPMQueues agree with the sub-requests that are
\* under way, and an answered request leaves nothing behind for the next one
\* that gets its RPCMessage (credit grants and responses find their parent).
FanoutConsistent == \A r \in Req : FanoutOK(r)

\* A request occupies a slot from its grant until it is answered, except
\* while it waits for downstream services.  A pfanout request gives its slot
\* back with its last sub-request and takes one with its first response, so
\* for a while it may occupy two.
Occupies(r) ==
  \/ stage[r] = "granted"
  \/ /\ stage[r] = "local"
     /\ IF FanoutOf(r) = "pfanout" THEN ~AllSent(r) \/ SomeAnswered(r)
                                   ELSE ~Blocked(r)
OccupiesTwo(r) ==
  /\ stage[r] = "local"
  /\ FanoutOf(r) = "pfanout"
  /\ ~AllSent(r)
  /\ SomeAnswered(r)

\* Number of requests of S in a slot, counted with their second slots.
Active(S) == Cardinality({r \in S : Occupies(r)})
             + Cardinality({r \in S : OccupiesTwo(r)})
RequestsOf(e) == {r \in Req : ServiceOf[r] = e}

\* in_flight and in_flight_per_endpoint count the active requests, whatever
\* the order in which grants, sub-requests and responses arrive: no slot is
\* leaked or freed twice (increment_in_flight and decrement_in_flight are
\* called from five handlers).
InFlightCountsActive ==
  /\ cq.in_flight = Active(Req)
  /\ \A e \in Endpoint : cq.in_flight_per_endpoint[e] = Active(RequestsOf(e))

\* queue holds exactly the requests that are queued according to st, each
\* once, at its priority and endpoint.
QueueMatches(queue, st) ==
  /\ \A p \in Priority, e \in Endpoint : \A i \in DOMAIN queue[p][e] :
       LET r == queue[p][e][i]
       IN  /\ st[r] = "queued" /\ ServiceOf[r] = e /\ PriorityOf[r] = p
           /\ \A j \in DOMAIN queue[p][e] : queue[p][e][j] = r => j = i
  /\ \A r \in Req : st[r] = "queued" =>
       /\ PriorityOf[r] \in Priority
       /\ \E i \in DOMAIN queue[PriorityOf[r]][ServiceOf[r]] :
            queue[PriorityOf[r]][ServiceOf[r]][i] = r

\* Every Credit Request that was received and not granted is in the credit
\* queue exactly once, at its priority and endpoint, and nothing else is: a
\* request gets one grant per Credit Request and none gets lost.
QueueHoldsWaiting == QueueMatches(cq.queue, stage)

\* Work conservation while limits do not change: between two events no
\* waiting Credit Request could be granted.  Each handler pops once, which is
\* enough because it frees at most one slot.
NoIdleCredit == ~CanGrant(cq)

\* Also when limits change: while a Credit Request waits some request is
\* active, whose end will pop the queue.  Nothing else would (no timeouts).
NoStrandedRequest == Waiting(cq) => cq.in_flight >= 1

\* A grant is sent only if the limits in force still hold with it.
GrantsWithinLimits ==
  [][\A r \in Req : stage[r] # "granted" /\ stage'[r] = "granted" =>
       /\ cq'.in_flight <= cq'.global_limit
       /\ cq'.in_flight_per_endpoint[ServiceOf[r]]
            <= cq'.per_endpoint_limit[ServiceOf[r]]]_vars

\* A Credit Request that waits at the head of its queue, with a free slot at
\* its endpoint, is overtaken a bounded number of times, whatever arrives and
\* whatever the other requests do: at most 21 times per endpoint, less one, and
\* every grant that pop() gives to another request brings its turn nearer.
\* Between grants the weighted round robin does not lose its place.
OvertakingBounded ==
  [][\A p \in Priority, e \in Endpoint :
       /\ cq.queue[p][e] # <<>> /\ cq'.queue[p][e] # <<>>
       /\ Head(cq'.queue[p][e]) = Head(cq.queue[p][e])
       /\ cq'.in_flight_per_endpoint[e] < cq'.per_endpoint_limit[e]
       => /\ Bypass(cq', p, e) < FullTurn * NumEndpoints
          /\ IF \E r \in Req : stage[r] # "granted" /\ stage'[r] = "granted"
             THEN Bypass(cq', p, e) < Bypass(cq, p, e)
             ELSE Bypass(cq', p, e) = Bypass(cq, p, e)]_vars

\* No interleaving of grants, responses and sub-requests reaches LOG(FATAL):
\* each grant finds its sub-request in the PPMQueue, each priority its queue.
NoAbort == ~aborted

\* rlp_logic.md: there is a one-to-one mapping between Credit Request and
\* Credit Grant.  Every Credit Request the sidecar received is granted.
EveryRequestGranted ==
  \A r \in Req : stage[r] = "queued" ~> stage[r] = "granted"
=============================================================================
