----------------------------- MODULE Http2Relay -----------------------------
(***************************************************************************)
(* A backend sidecar relays gRPC calls between HTTP/2 connections: the     *)
(* nghttp2 callbacks and HTTP2Connection of connection.cc, forward and     *)
(* forward_request of state.cc, RPCMapper and the pool of gRPCMessages.    *)
(*                                                                         *)
(* A call is a stream of a downstream connection and the stream of the     *)
(* upstream connection its request is submitted on: stream ids are never   *)
(* used again, messages are.  Each action is one completion event.  Data   *)
(* go through nghttp2 in pieces: it asks a data provider, which is a       *)
(* pointer into the message, for as much as the flow control windows       *)
(* allow, now or when a WINDOW_UPDATE arrives.  Payloads are sequences of  *)
(* units that carry their call and position.                               *)
(***************************************************************************)
EXTENDS Integers, Sequences, FiniteSets

CONSTANTS
  Call,        \* calls of the clients
  Ingress,     \* those that arrive at the INGRESS listener
  Message,     \* gRPCMessage objects of the pool
  NoMessage,
  RequestLen,  \* units of a request and of a response that is not an error
  ResponseLen,
  Habits       \* "early": the service may answer before it has the request,
               \* "split": an error may come as headers followed by trailers,
               \* "cancel": the client may reset the stream

ASSUME Http2Assumption ==
  /\ Ingress \subseteq Call
  /\ NoMessage \notin Message
  /\ RequestLen \in Nat \ {0} /\ ResponseLen \in Nat \ {0}
  /\ Habits \subseteq {"early", "split", "cancel"}

VARIABLES
  client,       \* the client: what it has sent or got of a call
  server,       \* the request on the side of the service
  uploaded,     \* units of the request that have arrived from the client
  produced,     \* units of the response that have arrived from the service
  received,     \* what the service has got of the request
  got,          \* what the client has got of the response
  up,           \* connection types whose pool has a connection that is UP
  pool,         \* RPCMessagePool::grpc_pool
  ds_map,       \* RPCMapper: the message of a downstream stream
  us_map,       \*            and of an upstream stream
  data,         \* of each message: data_map 0 and 1 up to offset
  read_offset,  \* how far the two have been read
  source,       \* data providers of the two streams of a call
  aborted       \* why LOG(FATAL) was reached, "no" if it was not

peerVars == <<client, server, uploaded, produced, received, got>>
messageVars == <<pool, data, read_offset>>
mapVars == <<ds_map, us_map>>
http2Vars == <<peerVars, messageVars, mapVars, source, up, aborted>>

ClientState == { "idle", "asking",       \* the request is arriving
                 "asked",                \* END_STREAM has arrived
                 "ok", "error", "bare",  \* END_STREAM was sent: with trailers,
                                         \* as an error, without grpc-status
                 "cancelled" }
ServerState == { "idle",
                 "queued",      \* a sub-request in ppm_queue, without a credit
                 "receiving",   \* the request was submitted
                 "received",    \* END_STREAM of the request
                 "answering",   \* response headers sent
                 "ok", "error" }
Type == {"INGRESS", "EGRESS"}
Pair(S) == [req : S, res : S]    \* for the request and the response
Reason == {"no", "pool", "no connection", "lookup"}
TypeOf(k) == IF k \in Ingress THEN "INGRESS" ELSE "EGRESS"

\* The first n units of the request or response of a call.
Units(k, n) == [i \in 1 .. n |-> <<k, i>>]

Empty == [req |-> <<>>, res |-> <<>>]
Start == [req |-> 0, res |-> 0]
NoSource == [req |-> NoMessage, res |-> NoMessage]

Init ==
  /\ client = [k \in Call |-> "idle"] /\ server = [k \in Call |-> "idle"]
  /\ uploaded = [k \in Call |-> 0] /\ produced = [k \in Call |-> 0]
  /\ received = [k \in Call |-> <<>>] /\ got = [k \in Call |-> <<>>]
  /\ up = {}
  /\ pool = Message
  /\ ds_map = [k \in Call |-> NoMessage] /\ us_map = [k \in Call |-> NoMessage]
  /\ data = [m \in Message |-> Empty]
  /\ read_offset = [m \in Message |-> Start]
  /\ source = [k \in Call |-> NoSource]
  /\ aborted = "no"

\* LOG(FATAL): the process is gone, its state is immaterial.
Fatal(reason) ==
  /\ aborted' = reason
  /\ UNCHANGED <<peerVars, messageVars, mapVars, source, up>>

-----------------------------------------------------------------------------
(* RPCMapper and RPCMessagePool *)

\* Mutant of FreeRpc: clear leaves the payload of the response behind.
FreeRpcKeepsData(m) ==
  /\ pool' = pool \cup {m}
  /\ data' = [data EXCEPT ![m].req = <<>>]
  /\ read_offset' = [read_offset EXCEPT ![m] = Start]

\* Mutant of FreeRpc: clear leaves the offsets behind.
FreeRpcKeepsOffset(m) ==
  /\ pool' = pool \cup {m}
  /\ data' = [data EXCEPT ![m] = Empty]
  /\ UNCHANGED read_offset

\* free_rpc and gRPCMessage::clear
FreeRpc(m) ==
  /\ pool' = pool \cup {m}
  /\ data' = [data EXCEPT ![m] = Empty]
  /\ read_offset' = [read_offset EXCEPT ![m] = Start]

\* remove_rpc
RemoveRpc(k, m) ==
  /\ ds_map' = [ds_map EXCEPT ![k] = NoMessage]
  /\ us_map' = [us_map EXCEPT ![k] = NoMessage]
  /\ FreeRpc(m)

-----------------------------------------------------------------------------
(* Data providers *)

\* Mutant of RequestCallback: the stream is deferred when the window is full, and
\* nothing resumes it.
RequestCallbackDefers(k, m, n) ==
  LET eof == read_offset[m].req + n = Len(data[m].req)
  IN  /\ n <= Len(data[m].req) - read_offset[m].req
      /\ received' = [received EXCEPT ![k] =
           @ \o SubSeq(data[m].req, read_offset[m].req + 1,
                       read_offset[m].req + n)]
      /\ read_offset' = [read_offset EXCEPT ![m].req = @ + n]
      /\ UNCHANGED source
      /\ server' = [server EXCEPT ![k] = IF eof THEN "received" ELSE "receiving"]

\* data_read_callback_request copies n units of message m to the upstream
\* stream of k; END_STREAM goes with the last of them.
RequestCallback(k, m, n) ==
  LET eof == read_offset[m].req + n = Len(data[m].req)
  IN  /\ n <= Len(data[m].req) - read_offset[m].req
      /\ received' = [received EXCEPT ![k] =
           @ \o SubSeq(data[m].req, read_offset[m].req + 1,
                       read_offset[m].req + n)]
      /\ read_offset' = [read_offset EXCEPT ![m].req = @ + n]
      /\ source' = [source EXCEPT ![k].req = IF eof THEN NoMessage ELSE m]
      /\ server' = [server EXCEPT ![k] =
           IF @ \notin {"idle", "queued", "receiving"} THEN @
           ELSE IF eof THEN "received" ELSE "receiving"]

\* At the end it records the time in the message of the stream, which must exist.
RequestLookupFails(m, n, us) ==
  /\ data[m].req # <<>>
  /\ read_offset[m].req + n = Len(data[m].req)
  /\ us = NoMessage

\* data_read_callback_response copies n units of message m to the downstream
\* stream of k.  After the last of them it submits the trailers, which end the
\* stream, and removes the RPC.  There is a unit to copy: a response without
\* data is an error and has no data provider.
ResponseCallback(k, m, n) ==
  LET eof == read_offset[m].res + n = Len(data[m].res)
  IN  /\ n <= Len(data[m].res) - read_offset[m].res
      /\ got' = [got EXCEPT ![k] =
           @ \o SubSeq(data[m].res, read_offset[m].res + 1,
                       read_offset[m].res + n)]
      /\ source' = [source EXCEPT ![k].res = IF eof THEN NoMessage ELSE m]
      /\ client' = [client EXCEPT ![k] = IF eof THEN "ok" ELSE @]
      /\ IF eof THEN RemoveRpc(k, m)
         ELSE /\ read_offset' = [read_offset EXCEPT ![m].res = @ + n]
              /\ UNCHANGED <<mapVars, pool, data>>

-----------------------------------------------------------------------------
(* READ on a downstream connection: the request of a client *)

\* on_begin_headers_callback and on_header_callback: allocate_rpc.
BeginRequest(k) ==
  /\ client[k] = "idle"
  /\ IF pool = {} THEN Fatal("pool")
     ELSE \E m \in pool :     \* a queue; any message stands for its front
            /\ pool' = pool \ {m}
            /\ ds_map' = [ds_map EXCEPT ![k] = m]
            /\ client' = [client EXCEPT ![k] = "asking"]
            /\ UNCHANGED <<server, uploaded, produced, received, got, data,
                           read_offset, us_map, source, up, aborted>>

\* on_data_chunk_recv_callback: add_data, one unit at a time.
RequestData(k) ==
  /\ client[k] = "asking" /\ uploaded[k] < RequestLen
  /\ LET m == ds_map[k]
     IN  IF m = NoMessage THEN Fatal("lookup")
         ELSE /\ data' = [data EXCEPT ![m].req = Append(@, <<k, uploaded[k] + 1>>)]
              /\ uploaded' = [uploaded EXCEPT ![k] = @ + 1]
              /\ UNCHANGED <<client, server, produced, received, got, pool,
                             read_offset, mapVars, source, up, aborted>>

\* Mutant of ForwardRequest: the request is written before it is routed.
ForwardRequestUnrouted(k, n) ==
  LET m == ds_map[k]
  IN  IF TypeOf(k) \notin up THEN Fatal("no connection")
      ELSE IF RequestLookupFails(m, n, us_map[k]) THEN Fatal("lookup")
      ELSE /\ us_map' = [us_map EXCEPT ![k] = m]
           /\ RequestCallback(k, m, n)
           /\ client' = [client EXCEPT ![k] = IF @ = "asking" THEN "asked" ELSE @]
           /\ UNCHANGED <<uploaded, produced, got, ds_map, pool, data, up,
                          aborted>>

\* route_request takes a connection that is UP; forward_request submits the
\* request, routes it and writes the n units there is a window for.
ForwardRequest(k, n) ==
  LET m == ds_map[k]
  IN  IF TypeOf(k) \notin up THEN Fatal("no connection")
      ELSE /\ us_map' = [us_map EXCEPT ![k] = m]
           /\ RequestCallback(k, m, n)
           /\ client' = [client EXCEPT ![k] = IF @ = "asking" THEN "asked" ELSE @]
           /\ UNCHANGED <<uploaded, produced, got, ds_map, pool, data, up,
                          aborted>>

\* END_STREAM (frame_recv_callback).  A request for the hosted service is
\* forwarded by the same event, a sub-request waits for its credit.
RequestEnd(k, n) ==
  /\ client[k] = "asking" /\ uploaded[k] = RequestLen
  /\ IF ds_map[k] = NoMessage THEN Fatal("lookup")
     ELSE IF k \in Ingress THEN ForwardRequest(k, n)
     ELSE /\ n = 0
          /\ client' = [client EXCEPT ![k] = "asked"]
          /\ server' = [server EXCEPT ![k] = "queued"]
          /\ UNCHANGED <<uploaded, produced, received, got, messageVars, mapVars,
                         source, up, aborted>>

\* RCVMSG with the grant for a sub-request: send_sub_request.
RecvCreditGrant(k, n) ==
  /\ server[k] = "queued"
  /\ ForwardRequest(k, n)

\* RST_STREAM from the client.  nghttp2 closes the stream, with the provider of
\* the response if there is one; frame_recv_callback does nothing.
CancelCall(k) ==
  /\ "cancel" \in Habits
  /\ client[k] \in {"asking", "asked"}
  /\ client' = [client EXCEPT ![k] = "cancelled"]
  /\ source' = [source EXCEPT ![k].res = NoMessage]
  /\ UNCHANGED <<server, uploaded, produced, received, got, messageVars, mapVars,
                 up, aborted>>

\* WINDOW_UPDATE from the client: write_http sends more of the response.
ResumeResponse(k, n) ==
  LET m == source[k].res
  IN  /\ m # NoMessage /\ n > 0
      /\ IF /\ read_offset[m].res + n = Len(data[m].res)
            /\ ds_map[k] = NoMessage
         THEN Fatal("lookup")
         ELSE /\ ResponseCallback(k, m, n)
              /\ UNCHANGED <<server, uploaded, produced, received, up, aborted>>

-----------------------------------------------------------------------------
(* READ on an upstream connection: the response of the service *)

\* SETTINGS: the connection is UP (frame_recv_callback).
RecvSettings(t) ==
  /\ t \notin up
  /\ up' = up \cup {t}
  /\ UNCHANGED <<peerVars, messageVars, mapVars, source, aborted>>

\* WINDOW_UPDATE from the service: write_http sends more of the request.
ResumeRequest(k, n) ==
  LET m == source[k].req
  IN  /\ m # NoMessage
      /\ n > 0 \/ read_offset[m].req = Len(data[m].req)
      /\ IF RequestLookupFails(m, n, us_map[k]) THEN Fatal("lookup")
         ELSE /\ RequestCallback(k, m, n)
              /\ UNCHANGED <<client, uploaded, produced, got, pool, data,
                             mapVars, up, aborted>>

\* The service answers when it has the request.
MayAnswer(k) ==
  server[k] = "received" \/ ("early" \in Habits /\ server[k] = "receiving")

\* HEADERS: on_header_callback, category RESPONSE.
ResponseHeaders(k) ==
  /\ MayAnswer(k)
  /\ IF us_map[k] = NoMessage THEN Fatal("lookup")
     ELSE /\ server' = [server EXCEPT ![k] = "answering"]
          /\ UNCHANGED <<client, uploaded, produced, received, got, messageVars,
                         mapVars, source, up, aborted>>

\* DATA: on_data_chunk_recv_callback.
ResponseData(k) ==
  /\ server[k] = "answering" /\ produced[k] < ResponseLen
  /\ LET m == us_map[k]
     IN  IF m = NoMessage THEN Fatal("lookup")
         ELSE /\ data' = [data EXCEPT ![m].res = Append(@, <<k, produced[k] + 1>>)]
              /\ produced' = [produced EXCEPT ![k] = @ + 1]
              /\ UNCHANGED <<client, server, uploaded, received, got, pool,
                             read_offset, mapVars, source, up, aborted>>

\* Mutant of ForwardError: the message stays in the maps.
ForwardErrorKeeps(k, m, status) ==
  /\ client' = [client EXCEPT ![k] =
       IF @ = "cancelled" THEN @ ELSE IF status = "headers" THEN "error" ELSE "bare"]
  /\ UNCHANGED <<mapVars, messageVars, got, source>>

\* forward with is_error: submit_error_response sends the response headers and
\* END_STREAM, never trailers, and the RPC is removed.
ForwardError(k, m, status) ==
  /\ client' = [client EXCEPT ![k] =
       IF @ = "cancelled" THEN @ ELSE IF status = "headers" THEN "error" ELSE "bare"]
  /\ RemoveRpc(k, m)
  /\ UNCHANGED <<got, source>>

\* Mutant of ForwardResponse: the RPC is removed when its response has been
\* submitted, as it is for an error.
ForwardResponseRemoves(k, m, n) ==
  LET eof == n = Len(data[m].res)
  IN  /\ n <= Len(data[m].res)
      /\ got' = [got EXCEPT ![k] = SubSeq(data[m].res, 1, n)]
      /\ source' = [source EXCEPT ![k].res = IF eof THEN NoMessage ELSE m]
      /\ client' = [client EXCEPT ![k] = IF eof THEN "ok" ELSE @]
      /\ RemoveRpc(k, m)

\* forward: submit_response makes the message the provider of the stream, and
\* write_http sends the n units there is a window for.  The frames for a stream
\* that was reset are discarded by nghttp2, its provider is never asked.
ForwardResponse(k, m, n) ==
  IF client[k] = "cancelled"
  THEN /\ n = 0
       /\ UNCHANGED <<client, got, pool, data, read_offset, mapVars, source>>
  ELSE ResponseCallback(k, m, n)

\* HEADERS with END_STREAM after the response headers: the trailers.  Without
\* data the response is an error (frame_recv_callback).
ResponseTrailers(k, n) ==
  /\ server[k] = "answering"
  /\ produced[k] = ResponseLen \/ ("split" \in Habits /\ produced[k] = 0)
  /\ LET m == us_map[k]
     IN  IF m = NoMessage THEN Fatal("lookup")
         ELSE /\ IF data[m].res = <<>> THEN n = 0 /\ ForwardError(k, m, "trailers")
                                       ELSE ForwardResponse(k, m, n)
              /\ server' = [server EXCEPT ![k] =
                              IF produced[k] = 0 THEN "error" ELSE "ok"]
              /\ UNCHANGED <<uploaded, produced, received, up, aborted>>

\* The only HEADERS of a response, with END_STREAM: an error.
TrailersOnly(k) ==
  /\ MayAnswer(k)
  /\ LET m == us_map[k]
     IN  IF m = NoMessage THEN Fatal("lookup")
         ELSE /\ ForwardError(k, m, "headers")
              /\ server' = [server EXCEPT ![k] = "error"]
              /\ UNCHANGED <<uploaded, produced, received, up, aborted>>

-----------------------------------------------------------------------------

DownstreamEvent(k) ==
  \/ BeginRequest(k)
  \/ RequestData(k)
  \/ CancelCall(k)
  \/ \E n \in 0 .. RequestLen : RequestEnd(k, n) \/ RecvCreditGrant(k, n)
  \/ \E n \in 1 .. ResponseLen : ResumeResponse(k, n)

UpstreamEvent(k) ==
  \/ \E n \in 0 .. RequestLen : ResumeRequest(k, n)
  \/ ResponseHeaders(k)
  \/ ResponseData(k)
  \/ \E n \in 0 .. ResponseLen : ResponseTrailers(k, n)
  \/ TrailersOnly(k)

Next ==
  /\ aborted = "no"
  /\ \/ \E k \in Call : DownstreamEvent(k) \/ UpstreamEvent(k)
     \/ \E t \in Type : RecvSettings(t)

Spec == Init /\ [][Next]_http2Vars

\* The connections come up, credits are granted, windows are updated, and the
\* service answers in the end.  Clients need not begin, go on or give up.
FairSpec ==
  /\ Spec
  /\ \A t \in Type : WF_http2Vars(aborted = "no" /\ RecvSettings(t))
  /\ \A k \in Call :
       /\ WF_http2Vars(aborted = "no" /\ \E n \in 0 .. RequestLen : RecvCreditGrant(k, n))
       /\ WF_http2Vars(aborted = "no" /\ \E n \in 1 .. ResponseLen : ResumeResponse(k, n))
       /\ WF_http2Vars(aborted = "no" /\ UpstreamEvent(k))

-----------------------------------------------------------------------------
(* Properties *)

\* Every variable has its type; offsets stay within the payload.
TypeOK ==
  /\ client \in [Call -> ClientState] /\ server \in [Call -> ServerState]
  /\ uploaded \in [Call -> 0 .. RequestLen]
  /\ produced \in [Call -> 0 .. ResponseLen]
  /\ received \in [Call -> Seq(Call \X Nat)] /\ got \in [Call -> Seq(Call \X Nat)]
  /\ up \subseteq Type
  /\ pool \subseteq Message
  /\ ds_map \in [Call -> Message \cup {NoMessage}]
  /\ us_map \in [Call -> Message \cup {NoMessage}]
  /\ data \in [Message -> Pair(Seq(Call \X Nat))]
  /\ read_offset \in [Message -> Pair(Nat)]
  /\ \A m \in Message : /\ read_offset[m].req <= Len(data[m].req)
                       /\ read_offset[m].res <= Len(data[m].res)
  /\ source \in [Call -> Pair(Message \cup {NoMessage})]
  /\ aborted \in Reason

\* A data provider points into the message of its own call: nghttp2 holds the
\* pointer past the event that submitted it, and free_rpc does not know
\* (rpc_message.cc:474 counts shared_ptrs only).
ProvidersLive ==
  \A k \in Call : /\ source[k].req # NoMessage => source[k].req = us_map[k]
                  /\ source[k].res # NoMessage => source[k].res = ds_map[k]

\* A message is in the pool or belongs to one call, and a call that was
\* answered has given its message back: what is kept for ever is the message of
\* a call the client gave up.
MessagesReturned ==
  /\ \A m \in Message :
       Cardinality({k \in Call : ds_map[k] = m}) = (IF m \in pool THEN 0 ELSE 1)
  /\ \A k \in Call : client[k] \in {"idle", "ok", "error", "bare"} =>
                       ds_map[k] = NoMessage /\ us_map[k] = NoMessage

\* Every callback finds the RPC of its stream: get_ds_rpc and get_us_rpc do not
\* fail, in whatever order frames, window updates and grants arrive.
LookupsSucceed == aborted # "lookup"

\* The calls as their clients and services see them.
RequestOf(k) ==
  CASE server[k] = "idle" -> "none"
    [] server[k] \in {"queued", "receiving"} -> "asked"
    [] OTHER -> IF received[k] = Units(k, RequestLen) THEN "delivered" ELSE "garbled"
ReplyOf(k) == IF server[k] \in {"ok", "error"} THEN server[k] ELSE "none"
SeenOf(k) ==
  CASE client[k] = "ok" -> IF got[k] = Units(k, ResponseLen) THEN "ok" ELSE "garbled"
    [] client[k] = "error" -> IF got[k] = <<>> THEN "error" ELSE "garbled"
    [] client[k] = "bare" -> "garbled"
    [] OTHER -> "none"

R == INSTANCE Relay WITH request <- [k \in Call |-> RequestOf(k)],
                         reply <- [k \in Call |-> ReplyOf(k)],
                         seen <- [k \in Call |-> SeenOf(k)]

\* Chunks, windows, pooled messages and recycled buffers implement the relay:
\* each request is delivered once and whole, each client gets the answer to its
\* own call.
RelaySpec == R!Spec

\* A call whose request has arrived is answered, unless the client gives up or
\* the process ends.
EveryCallAnswered ==
  \A k \in Call :
    client[k] = "asked" ~> client[k] # "asked" \/ aborted # "no"
=============================================================================
