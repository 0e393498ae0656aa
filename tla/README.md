# Roshanfer sidecar: TLA+ models, checks and proofs

The Roshanfer sidecar sits next to every service of a microservice application.
It forwards RPCs and runs the *Request Limit Protocol* (RLP): before a request is
sent to a service, its sidecar must have granted a *credit*, and each sidecar
limits the number of *active* requests of its service, in total and per endpoint.
RLP has no timeouts and no retries: a credit that is lost, a slot that is not
freed or a Credit Request nobody looks at again stays that way for ever. This is
what the models are about.

Paths below are relative to `src/`.

## Inventory

| part | state | operations | interacts with |
|---|---|---|---|
| Credit queue (`src/credit_queue.cc`) | queues per priority and endpoint, weighted round robin (`it`, `remaining_rounds`, an endpoint iterator per priority), `in_flight`, `in_flight_per_endpoint`, limits | `push`, `pop`, `increment_in_flight`, `decrement_in_flight`, `update_*_limit` | called by every RLP handler |
| RLP server side (`src/state.cc`: `protocol_server`, `check_credit_transmission`, `update_limits`) | the credit queue | Credit Request, credit return, one `pop` at the end of each event that frees a slot | upstream sidecars, over UDP |
| RLP client side and fan-out (`src/state.cc`: `protocol_client`, `fanout_req_management`, `fanout_res_credit_management`; `src/ppm_queue.cc`) | `PPMQueue` per downstream service, `pfanout_req`, `pfanout_res`, `dfanout_service`, `credit_return_queue` in the ingress `RPCMessage` | sub-request, credit grant, response | the local service (HTTP), downstream sidecars |
| Forwarding (`src/state.cc`: `forward`, `route_request`, `forward_request`, `write_http`) | `rpc_queue` per direction | request in, response out | connections, `RPCMapper` |
| Ingress worker (`src/ingress.cc`, `ingress_*` of `src/state.cc`) | deque, `ingress_size_cap` (AIMD), `has_credit_request_on_fly` | `enqueue`, `dequeue`, `drop_rpc`, `update_ingress_cap` | external clients (HTTP/1), frontend sidecar |
| Event loop (`src/event_loop.cc`) | one io_uring ring per thread, `UserData` of operations under way | one handler per completion: ACCEPT, READ, CONNECT, WRITE, CANCEL, RCVMSG, SENDMSG | everything |
| Buffers (`src/buffer_manager.cc`, `src/ring_wrapper.cc`) | pools of write, UDP and `UserData` objects; provided buffers of the ring | get, free, submit | event loop, connections, credit queue |
| HTTP connections and pools (`src/connection.cc`) | HTTP/1 parser and writer state, idle/busy; nghttp2 sessions | `http_read`, `http_write`, `submit_request`, pool selection | forwarding |
| RPC messages, ids, mapping (`src/rpc_message.cc`, `src/rpc_mapper.cc`) | pooled `RPCMessage`s, local-id counter, maps from ids to messages | allocate, look up, remove | forwarding |
| Statistics (`src/stats.cc`), configuration, start-up, vendored parsers | averages and quantiles | – | limits, cap |

A non-ingress sidecar has one thread (`src/config.cc` rejects more), so each
completion event runs to its end before the next one: the grain of the actions
below. What is hard is the order of the events. Credit grants, responses,
sub-requests, returns and limit updates of many requests interleave freely (UDP
and several TCP connections); in each order the slots must balance. `LOG(FATAL)`
ends the process; it is the variable `aborted` of the models.

What makes each part correct:

- credit queue: no Credit Request is lost or granted twice; no grant above a
  limit; no slot idle while a request could have it; no priority starves;
- RLP and fan-out: `in_flight` is the number of active requests, whatever the
  order of messages; counters that live in pooled messages are reset; each grant
  finds the sub-request it is for; credits that are not used are returned once;
- mesh: credits are conserved between sidecars; requests do not wait for each
  other's credits for ever;
- ingress: one Credit Request at a time, which never stops while requests wait;
  each request is answered once, with its response or with a 503;
- RPC messages and ids: an id is given to one live request, and a sub-request is
  charged to the request that made it;
- HTTP/2 relay: a request reaches the service once and whole, each client gets
  the answer to its own call, no pointer into a message outlives it, and each
  message goes back to its pool;
- event loop, buffers, connections: no object is used after it was freed, freed
  twice or lost; a descriptor number that is used again does not mix up two
  connections; each connection has one RPC at a time, and a response finds it.

`PROJECT.json` lists the hazards of the code line by line with the properties
that cover them.

## Modules

| module | models | extends |
|---|---|---|
| `CreditQueue` | `CreditQueue` and `InnerCreditQueue`: every operation is an operator from one queue record to the next | |
| `Sidecar` | a non-ingress sidecar: server and client side of RLP, fan-out, forwarding, limit updates | `CreditQueue` |
| `RlpMesh` | a sidecar and the leaf sidecars of its downstream services, with the messages between them | `Sidecar` |
| `Ingress` | one worker of the ingress sidecar with its clients and the frontend | instance of `Worker` |
| `EventLoop` | the HTTP/1 side of an ingress worker: completions, descriptors, connections, `RPCMapper`, `UserData` and write buffers | instance of `Worker` |
| `Worker` | abstract: what an ingress worker promises its clients; `Ingress` and `EventLoop` implement it | |
| `Relay` | abstract: what a sidecar promises for the calls it relays | |
| `Http2Relay` | gRPC calls over HTTP/2: nghttp2 callbacks, data providers and flow control, pooled messages, `RPCMapper`, forwarding | instance of `Relay` |
| `RpcIds` | `get_new_local_id` and its global counter, `id_map`, `get_ingress_rpc` | |
| `MCSidecar`, `MCRlpMesh`, `MCIngress`, `MCEventLoop`, `MCHttp2Relay`, `MCRpcIds` | finite instances for TLC | |
| `CreditQueueProof`, `SidecarProof`, `RlpMeshProof`, `IngressProof`, `EventLoopProof`, `Http2RelayProof`, `RpcIdsProof` | theorems | |

`CreditQueue` describes a pop by what it selects: the first priority from `it`
with an eligible endpoint, and the first eligible endpoint from that priority's
iterator. The loops of the code visit candidates in that order. A pop that finds
nothing has been through all priorities and has set `remaining_rounds` to the
full weight of the one it is back at (`Unsuccessful`); a pop stopped by the early
return (empty queue or global limit reached) leaves the round robin alone. The
difference decides between fairness and starvation below.

`Sidecar` has an action per event. The stage of an upstream request is `none`,
`asked` (Credit Request on the way), `queued`, `granted`, `local` (in the local
service); `call[r][d]` is the stage of its sub-request to service `d`. Each
handler that frees a slot ends in `CheckCreditTransmission`, one `Pop`, like the
code. The RPC state that lives in the pooled `RPCMessage` is reset by
`LocalResponse`, where the code calls `clear`. Limit updates are driven by
measured times: any rounded ratio of round-trip to local service time in `Ratios`
may come out at any Credit Request (the code recomputes at every 2000th sample).
The local service is the environment. It is synchronous (`docs/rlp_logic.md`
defines active requests so): it answers after its sub-requests, a sequential
service has one at a time, a pfanout service calls all its downstreams, a
dfanout service one.

`RlpMesh` conjoins the events of `Sidecar` with what they send to leaf sidecars
that run the server side on their own `CreditQueue`. `leaf_stage[d][r]` is where
the sub-request is, as a message or in the leaf. Messages overtake each other;
none is lost or duplicated, since the code has no answer to that (a duplicated
grant is `LOG(FATAL)`, a lost one stops the request). The mesh is a composition of
sidecars in both directions: the parent implements `Sidecar` with any downstream
services, and each leaf `d` implements `Leaf(d)`, the instance of `Sidecar` with
no downstream services, whose clients are the sub-requests (`LeavesAreSidecars`;
`ClientStage` is the refinement mapping). A leaf hosts one service on one CPU. Each
Credit Request it receives may come with an `update_limits`, which sets the limit of
its endpoint and with it the global limit (`LeafLimitsMaybeUpdated`; the rounded
ratios of round trip to service time are `LeafRatios`, which stand for more CPUs as
well). A ratio is at least 1, so `LeafLimit`, the limit a leaf begins with, is its
smallest one. A leaf that lowers its limit has more credits out than it allows until
they come back. A priority out of range never gets to a leaf: the parent that
received the request with it has aborted before.

`Ingress` is one worker thread. Workers share only the local-id counter. Requests
are identified by their client connection, which has one request at a time
(HTTP/1). The branch `update_ingress_cap` takes depends on latency statistics, so
the new cap is any value between the multiplicative decrease and the largest
additive increase.

`EventLoop` is the same worker one level below. Each action is a completion:
`Accept`, `ReadRequest`, `ReadUnsupported` (a request `http_read` rejects),
`ReadEnd` (the client closed), `Cancel`, `RecvCreditGrant` (RCVMSG),
`RecvResponse` (READ on a connection of the pool), `WriteDone`, `SendDone`, and
`ConnectionReset` for an operation that failed. `reads`, `writes` and `cancels`
are the operations in the ring (a CANCEL with its cause, since a connection may
have several: its READ stays armed after data that are rejected, so that more data
can be rejected again, up to `MaxRejects` at a time, and the end is still to come);
the ACCEPTs of both listeners and the RCVMSG are always in the ring; `user_data` and `buffers` the sizes of the two
free queues of `BufferManager`. `listener` maps descriptors to connections and
`rpcs` is the key set of `ds_map`: both are keyed by the descriptor number, which
the kernel gives out again as soon as it was closed. Admission is a choice here
(a request may be dropped when the deque is not empty). `impolite` is the set of
clients that may send a request the ingress does not support, reset, or close
before they are answered; any set is possible. A client sends no second request
before the answer to the first (no pipelining), small WRITEs and SENDMSGs complete
before what they cause, and the frontend keeps its connections. Provided buffers
and UDP buffers are not counted.

`Worker` is the abstract specification of both: a phase for each client and the
line of those whose requests wait. Requests are forwarded first come first served, one
is turned away only while others wait, and each client gets its own answer or a 503.
`Ingress` implements it with `status` and `queue` as they are (`WorkerSpec`).
`EventLoop` has no such variables. There the phase of a client is found by looking for
its last RPC, `<<fd[c], last_id[c]>>`, in the deque, among the 503s and on the pool
connections, and the line by looking up the descriptors of the deque in the listener
(`WorkerServed`, while `Polite`). A response that reached the wrong connection, or an
RPC that was dropped from one table and not from another, would be no step of `Worker`.
So the admission and credits that `EventLoop` leaves open and the descriptors that
`Ingress` leaves out are two details of the same service.

`Http2Relay` is the data path of a backend sidecar. A call is a downstream stream
and the upstream stream its request goes to. A message has two payloads,
`data[m].req` and `data[m].res` (`data_map` 0 and 1 up to `offset`), with their
`read_offset`; units of payload carry their call and position, so that data that
end up in the wrong call, twice or not at all are seen. `source[k]` is what
nghttp2 holds: the `DataReadStruct` pointer given to `submit_request` or
`submit_response`. The callbacks copy the `n` units the windows have room for;
`ResumeRequest` and `ResumeResponse` are the READs that bring a WINDOW_UPDATE.
`data_read_callback_response` submits the trailers and removes the RPC after the
last unit. A READ may hold several frames, all of which are parsed before `forward`
runs; here each frame that ends a message is forwarded at once, which makes no
difference to the calls, since the frames parsed in between belong to other
streams. What the peers may do is in `Habits`: `cancel` (RST_STREAM), `early`
(answer before the request has arrived), `split` (an error as HEADERS followed by
trailers). Credits are reduced to the wait for a grant (`queued`). Requests and
responses that are not errors have data and end as gRPC ends them (requests with
DATA, responses with trailers); other ends are `LOG(FATAL)`.

`Relay` is its abstract specification: three functions from calls to what was
asked, answered and seen. `Http2Relay` implements it under the refinement mapping
`RequestOf`, `ReplyOf`, `SeenOf`, which compares the units received with those
that were sent: `RelaySpec` is checked by `http2` and proved.

`RpcIds` takes `get_new_local_id` apart into the load, the store and the use of the
counter, since `local_id_counter` is a plain global: `loaded[w]` is the register
of thread `w`. A lane of an id has `Lane` values (2^32 in the code), so that the
wrap is within reach. `parent` records which request really made a sub-request;
`get_ingress_rpc` has to find it from the id alone. Every check of an id in
`protocol_client`, `fanout_req_management`, `route`, `PPMQueue::push` and
`fanout_res_credit_management` is a `Fatal`.

## Runs

Passing runs:

| run | instance | checks |
|---|---|---|
| `leaf` | leaf sidecar, 4 requests, 2 endpoints, 3 priorities, over-commitment 1/2, endpoint limits moving between 1 and 2 and the global limit between 1 and 3 | `TypeOK`, `QueueHoldsWaiting`, `NoStrandedRequest`, `GrantsWithinLimits`, `OvertakingBounded` |
| `fanout` | sequential, pfanout and dfanout endpoint with limit 1 each, 4 requests, 2 downstream services | `InFlightCountsActive`, `FanoutConsistent`, `NoIdleCredit`, `NoAbort` |
| `leaf_fair` | leaf sidecar with global limit 1, two priorities on one endpoint and a second endpoint | `EveryRequestGranted` |
| `mesh` | parent and two leaves with limits moving between 1 and 2, a pfanout and a dfanout request | `MeshTypeOK`, `CallsMatchLeaves`, `CreditsConserved`, `NoCircularWait`, `EveryRequestAnswered`, `LeavesAreSidecars` |
| `ingress` | 5 clients, cap between 1 and 3 | `TypeOK`, `CreditCycle`, `OnePlace`, `DropsAwaitGrant`, `NoAbort`, `WorkerSpec`, `EveryRequestAnswered` |
| `eventloop` | 2 clients that connect again and again, 2 descriptors, 2 pool connections, 13 `UserData`, 3 write buffers | `TypeOK`, `NoStaleUserData`, `WriteBuffersAccounted`, `PoliteConnectionsReachable`, `OneRpcPerConnection`, `NoProtocolAbort`, `WorkerServed` |
| `http2` | 2 requests for the service and a sub-request, 2 messages, payloads of 2 units, clients that cancel | `TypeOK`, `ProvidersLive`, `MessagesReturned`, `LookupsSucceed`, `RelaySpec`, `EveryCallAnswered` |
| `ids` | one thread, 4 RPCs, lanes of 4 values, counter up to 9 | `TypeOK`, `ParentFound`, `AbortsOnlyAfterWrap` |

Runs that refute what a document, comment or check of the repository says:

| run | refutes |
|---|---|
| `starvation` | `EveryRequestGranted` when a per-endpoint limit binds below the global limit: each failed pop gives the current priority its full weight again, so two priority-0 clients that alternate keep a priority-1 Credit Request waiting for ever |
| `mesh_deadlock` | `EveryRequestAnswered` with two dfanout requests: each holds one leaf's credit and waits for the other's. No timeouts are said to be needed |
| `close_reused` | `ConnectionsReachable`: a rejected request closes the descriptor and leaves the READ armed; when the client closes, or sends more that is rejected, the number is closed a second time, and the connection that has it by then is closed and removed from the listener |
| `id_race` | `NoDuplicateId`: two ingress threads increment `local_id_counter`; the late store of one puts the counter back, and the other gets an id its `id_map` still has (`LOG(FATAL)` in `route`) |

Bounds. Requests are clients that may ask again after they were answered, so the
runs are unbounded in time; what is bounded is how many exist at once. Limits of
1 or 2 with 3 to 5 requests make both limits bind, queues fill up at two
priorities of the same endpoint, and pops fail for either reason. With two
downstream services each order of two grants and two responses occurs, including
the pfanout response that overtakes the other branch's grant. Priorities with
weight 1 are used where the round robin is not the question. The ingress cap
reaches 1, where rounding matters, and 5 clients exceed the highest cap by two.
In `eventloop` two clients on two descriptors are enough for one to get the
other's old number; since each closed connection costs a `UserData`, the 13
objects bound the run, which ends in the abort of `get_user_data`; three write
buffers run out when both clients and a pool connection are written to.
`MaxStream` bounds the requests per connection to 2, `MaxRejects` the CANCELs of one
connection for rejected data to 2 at a time. In
`mesh` the limits of the leaves move between 1 and 2 (`LeafRatios`). That a leaf lowers
its limit below the credits it has out, or raises it while another request waits, takes
three requests at the leaf, for which the liveness check is too long. The invariants of
the run and `LeavesAreSidecars` are theorems for any number of requests, and TLC finds no
violation of them under `MeshSpec` with `Req = {r1, r2, r3}` (624,186 states), where a
leaf does exceed its limit; only `EveryRequestAnswered` is limited to two requests.
In `http2` three calls share two messages, so messages are used again while the
streams of finished calls are still known to nghttp2, and the pool runs out (a
check of the code: `aborted = "pool"`); payloads of two units can be cut at each
place. In `ids` the counter wraps twice, so that ids of live requests come again,
and the checks that meet them fire.

Fairness. `leaf_fair`, `mesh` and `ingress` assume weak fairness of each
message delivery and of each service: a message that was sent is delivered and
its event handled (the event loop takes completions in order), and a service that
has a request answers it. Clients never have to ask. There is no fairness between
requests in the credit queue: that is what the liveness properties are about. A
client that holds a credit uses it or returns it, as `fanout_req_management`
does. `http2` assumes that connections come up, credits are granted, and peers
update their windows and answer; what the sidecar does with each of these events
is not assumed. Clients need not begin, go on or give up.

`CHECK_DEADLOCK FALSE` is set only where the system stops: in `mesh_deadlock`, and
in the runs of `EventLoop`, `Http2Relay` and `RpcIds`, where `LOG(FATAL)` is
reachable and ends the process (in `http2` also when all calls are over).

Worth knowing, without a run: `docs/rlp_logic.md:99` and `docs/rpc_flow.md:59`
promise head-drop, but `Ingress::enqueue` drops the request that arrives (a head
drop, the mutant `EnqueueHeadDrop`, would break `CreditCycle`). Limits are checked
at grants only: a response reactivates its parent after the slot was granted to
another request (`src/state.cc:741`), so the number of active requests exceeds
the limit for a while, although `docs/rlp_logic.md:13` calls it a maximum "at any
time". A client that closes its connection before its
answer ends the ingress process (`LOG(FATAL)` at `src/event_loop.cc:273`; the
message suspects a timeout). `Ingress` has the behaviour behind the constant
`Impatient`, which is empty in the runs; in `EventLoop` it is what the condition
`Polite` of three properties excludes. A response for a client that is gone is taken
off `rpc_queue` and lost (`src/state.cc:394`): this, too, takes an impolite client. An
HTTP/1 pool smaller than the number of requests forwarded at once is `LOG(FATAL)`
(`src/connection.cc:479`): the run `ingress` has `PoolSize` equal to the number of
clients, its theorem a pool at least as large, so that `NoAbort` says that such a pool
is enough, not that a smaller one is survived. For a while a pfanout request occupies
two slots (`OccupiesTwo`): a first response may precede the last grant.

More of the same, on the data path and at the edges:

- A service that answers before it has the whole request (`early`; HTTP/2 allows
  it) leaves the request's data provider behind. The message goes back to the
  pool, and the next WINDOW_UPDATE sends whatever the message holds by then, the
  data of another call, or meets `LOG(FATAL)` in `get_us_rpc`. With
  `Habits = {"early"}` TLC refutes `ProvidersLive`, `LookupsSucceed` and
  `RelaySpec`; the theorems assume `AnswersAfterRequest`.
- An error that comes as response headers followed by trailers (`split`) is
  forwarded without its trailers (`submit_error_response` sends
  `res_headers` only), and with them without `grpc-status`: `RelaySpec` fails.
- The stream-close callback is commented out (`src/connection.cc:1241`). The
  message of a call the client has reset stays in the maps if the answer has data;
  after enough of them the pool is empty and `get_rpc` aborts, and closing the
  connection is `LOG(FATAL)` in CANCEL.
- `docs/rpc_ids.md` says that at the ingress edge `local_id` is `global_id`; the
  code takes `get_new_local_id(0)` (`src/rpc_message.cc:99`).
- `Ingress` accepts priorities 0 to 3 (`src/ingress.cc:45`) and `CreditQueue` has
  levels 0 to 2: a Credit Request of priority 3 ends the receiving sidecar.
  `NeverAborts` assumes `PrioritiesInRange`.
- The READ that reports the end of a connection keeps its `UserData`
  (`src/event_loop.cc:121`), although `docs/udp_rlp_internals.md` says error paths
  give it back: after `buffer_count` closed connections `get_user_data` aborts.
  `eventloop` runs into that abort.
- WRITE frees its buffer whatever the number of bytes written
  (`src/event_loop.cc:242`): the rest of a short send is lost.
- `extract_service_from_rlp_req` reads the length byte as a signed `char`
  (`src/state.cc:486`), `dispatch_rlp_recv` as an unsigned one: they disagree on
  messages longer than 127 bytes.

## Proofs

All theorems hold for every number of requests, endpoints, downstream services,
limits and clients.

`SidecarProof` proves `Spec => []Inv` for
`Inv == TypeOK /\ QueueOK /\ FanoutConsistent /\ NoStrandedRequest`, from which
`TypeCorrect`, `SlotsAccounted`, `QueueAccounted`, `FanoutAccounted`,
`NothingStranded`, `GrantsLimited` and, with priorities in range, `NeverAborts`
follow. `QueueOK` says that the queue holds the waiting requests, that the
counters count the requests in a slot, and that limits are among
`PossibleLimits`. None of the parts is inductive alone. That the counters are
right after a grant needs `QueueMatches` (the request popped was waiting, so it
was in no slot) and `FanoutConsistent` (the last pfanout grant is the last because
`pfanout_req` counts the sub-requests that left; a response finds its parent in
the service). `NoStrandedRequest` needs exact counters and positive limits: a
failed pop on a non-empty queue means that a limit is reached, so a slot is taken.

The proof is in three layers. `CreditQueueProof` has what each operation of the
queue does, in particular `PopFacts`: a pop grants the head of an eligible queue
or leaves queues and counters alone. The middle layer (`PopPreservesInv`,
`QuietPreservesInv`, the counting lemmas) shows that a step of a given shape
(change one request, add or remove its slots, then pop) preserves `Inv`. The last
layer has one lemma per action.

`SlotsNeverIdle` is about fixed limits (`Ratios = {}`): when `update_limits` raises a
limit by more than one, a single pop may not be enough and `NoIdleCredit` fails. With
fixed limits it is inductive next to `TypeOK`. The argument is in
`CreditQueueProof`: if nothing can be granted and one slot becomes free, then
either the global limit was binding, and one grant restores it, or only the
endpoint of the slot can have become eligible, and one grant takes its slot again
(`DecrementPopConserves`); a new request is granted by the pop that follows it
unless no slot is free for it (`PushPopConserves`). `QueueStep` shows that no
handler changes the queue in another way.

`OvertakingIsBounded` is the safety side of fairness. `Bypass(cq, p, e)` is the number
of grants that can still go to other requests before the head of queue `(p, e)`: for
each endpoint the iterator of priority `p` has to pass, one full turn of the round robin
(16 + 4 + 1 grants), plus what the other priorities may take before the turn of `p`.
While the endpoint has a free slot, each grant to another request makes it smaller, and
no other step (Credit Requests, returns, limit updates, failed pops) changes it. The
proof needs that `remaining_rounds` never exceeds the weight of the priority at `it`
(`RoundsInv`), and that a pop which grants nothing does not move the round robin
(`PopOvertakes`): a queue with a free slot at its endpoint is eligible unless the early
return was taken. The condition on the slot is what `starvation` lacks: there the endpoint is full
whenever the failed pop comes, the scan goes all the way round and gives the priority at
`it` its full weight again.

`IngressProof` proves `Spec => []Inv` for the conjunction of `TypeOK`,
`CreditCycle`, `OnePlace` and `DropsAwaitGrant`. A request is dropped only when
the deque is at its cap; the cap is at least 1 (`CapsInRange`), so the deque is
not empty and a Credit Request is outstanding, whose grant writes the 503.
`NeverAborts` additionally assumes as many pool connections as clients and
clients that wait for their answers. `ImplementsWorker` uses each part of the invariant:
`TypeOK` for a positive cap (a request is turned away only if others wait), `CreditCycle`
for a head to forward, `OnePlace` for the 503s that are written to be those of the
clients that were dropped. It covers the steps that abort, too.

`RlpMeshProof` shows that the composition implements `Sidecar`
(`MeshImplementsSidecar`): an event of a leaf is a stutter, an event of the
parent the corresponding event of `Sidecar`. The environment `Sidecar` assumes is
therefore not stronger than real leaf sidecars, and its invariants carry over.
On top of it `MeshInvariance` has the invariant of the leaves, `LeafInv`: each
leaf's queue holds exactly the sub-requests that wait in it, its counter the
sub-requests that have its credit (whether or not they exceed its limit, which the
leaf may have lowered), and the stage the parent gives a sub-request
matches the stage at its leaf. The steps of the parent change a leaf in four ways
only (`LeafMove`, `LeafRelease`, `LeafPush`, `LeafPop`); each has a lemma, and
each action is a composition of them. `MeshTypeCorrect`, `CallsAlwaysMatch` and
`CreditsAlwaysConserved` follow.

`LeavesImplementSidecar` is the other half of the composition. `Sidecar` assumes of
its clients that they ask once, then use or return the credit, and ask again
only after that. Here the client is the parent, and the assumption is a consequence
of its handlers: a sub-request is sent only to a leaf that has nothing of the request
any more (`FreshCalls` in `LeafInv`), and a credit is kept, used or returned only
after its grant (`Allowed`, for the last grant of a dfanout request by counting
the collected ones, `LastGrant`). To the leaf these steps are a `ClientCreditRequest`
or nothing (`SendMessagesIs`); its own handlers are those of `Sidecar`,
limit updates included (`LeafStepIs`, `LeafLimitsAre`).

`WaitsAreNotCircular` says when the deadlock of `mesh_deadlock` cannot happen: when no
more dfanout requests can ask a leaf than its smallest limit (`DfanoutWithinLimits`, a
condition on the configuration, which the run `mesh` meets and `mesh_deadlock` does not), and priorities are in range.
Then every request can move, or is behind one that can, in at most three steps
(`NoCircularWait`). The argument: a leaf in which somebody waits has at least `LeafLimit` credits out
(`BusyInv`, by the same one-pop-is-enough argument as for the sidecar, applied to the
smallest limit: after a limit was raised slots may be free while somebody waits, but
never below `LeafLimit`), so its credits have holders. A
holder that cannot move is a dfanout request that is still collecting (`StuckHolder`):
everyone else uses or returns a credit at once. It waits at a second leaf; if all
holders there were collecting, too, there would be one dfanout request more than
`LeafLimit` that may ask this leaf (`CollectorServed`, by counting). That is what liveness
adds fairness to: no theorem states `EveryRequestAnswered`, but there is no deadlock
to prevent it.

`Http2RelayProof` has one inductive invariant, the conjunction of `Ownership`
(maps and pool partition the messages), `PoolClear` (a pooled message is empty),
`Phases` (which states of the two streams go together), `Providers` (who may be
the source of what), `Payloads` (a message holds the units of its own call),
`Requests` and `Responses` (what was sent on is a prefix of it, as long as the
offset says). `ProvidersLive` alone is not inductive: that no provider is left
when a message is freed needs the phases (a call that is answered has its whole
request delivered), and that needs `AnswersAfterRequest`. `ImplementsRelay` is the
simulation: each action, with the invariant before and after it, is a step of
`Relay` or leaves the mapped variables alone. The units make the mapping say that
the data arrived whole.

`EventLoopProof` has its invariant in two parts. `RingInv` accounts for what the
operations in the ring hold, whatever the clients do: besides the two accounting
properties it needs `WritesQuiet`, that a WRITE is prepared only for a connection
that has none in the ring (a client that waits, a pool connection that is idle),
since otherwise two WRITEs would be counted as one. From it follow `TypeCorrect`,
`UserDataNeverShared` and `BuffersAccounted`. `PoliteInv` holds while the clients
wait for their answers. It ties together the four tables a request is in:
`Linked` (listener and connections refer to each other), `Closing` (a CANCEL in
the ring is for a listed connection nobody waits on), `Busy` and `Current` (a
connection waits exactly when `ds_map` has the RPC of its last stream),
`Placed` and `Distinct` (an RPC is in one place), `Credited` (a Credit Request is
out only while the deque is not empty). None is inductive alone: that a response
finds its connection needs `Current`, which survives a CANCEL because of
`Closing`, which survives an ACCEPT because of `Linked`. `PoliteReachable` and
`OneRpcEach` follow for every configuration. `NeverAborts` also assumes
`LargePool`: the pool has as many connections as there are descriptors. With fewer
a grant may find no idle connection; the lemma `IdleEnough` is the pigeonhole
argument. `ImplementsWorker` is the simulation for clients that wait for their answers.
`OwnerOf` and `RpcOf` turn `PoliteInv` into a correspondence between RPCs and the clients
that wait for them, from which the phase of every client after each completion follows;
a CANCEL, the completions of WRITE and SENDMSG and every abort are stutters.

`RpcIdsProof`: the invariant says that a request without a parent that is routed
is the only one with its id in its `id_map`, that requests with sub-requests under
way stay routed, and that the high lane of a sub-request is the low lane of its
parent. Uniqueness holds because `route` refuses an id that is taken, not because
the counter is monotonic, so `ParentsFound` needs no assumption on threads or on
the wrap. `AbortsNeedWrap` has one worker (`OneThread`): every id then has a branch
between 2 and the counter, all different.

Assumptions: the ranges of the configuration (`ConfigAssumption`,
`IngressAssumption`, `EndpointsAssumption`, `LeafLimitAssumption`), and that the
global limit computed from positive limits is positive
(`GlobalLimitAssumption`) and without over-commitment the largest of them
(`LeafGlobalLimitAssumption`), facts about a sum over a set whose proof would need
induction. TLC evaluates all of them in the runs.

Only model-checked: liveness (`EveryRequestGranted`, `EveryRequestAnswered`,
`EveryCallAnswered`), which TLAPS does not handle under fairness. Every safety
property of the passing runs is also a theorem, and `OvertakingIsBounded` and
`WaitsAreNotCircular` are the parts of liveness that need no fairness.

## Not modelled

- Message formats, HTTP/1 parsing (and HTTP/1 messages cut over several READs),
  time stamps and statistics: their results are nondeterministic choices (limits,
  cap). A measured round trip of 0 is `LOG(FATAL)` (`src/state.cc:531`).
- Loss and duplication of UDP datagrams, and upstream connections that close: the
  protocol has no answer to them (`LOG(FATAL)` or a wait for ever).
- UDP buffers (each waiting Credit Request keeps one, `src/buffer_manager.cc:126`)
  and the provided buffers of the ring; descriptors, `UserData` and write buffers of
  non-ingress sidecars, whose pools work as in `EventLoop`.
- nghttp2 itself: `Http2Relay` uses what the code relies on (a provider is asked
  until it reports the end, a closed stream asks no provider).
- Start-up: sockets, configuration files, the initial connection of pools; the
  vendored parser and t-digest.

## Plan

Done: credit queue, sidecar, mesh, ingress, event loop of the ingress, HTTP/2
relay, ids, the abstract specifications `Relay` and `Worker` with what implements them,
and the theorems above. What would add most next: HTTP/1 messages in several READs with
the pool of the frontend; UDP buffers against the number of Credit Requests that may
wait; the ratio of grants two priorities get under load.
