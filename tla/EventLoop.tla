----------------------------- MODULE EventLoop -----------------------------
(***************************************************************************)
(* The HTTP/1 side of an ingress worker's event loop (event_loop.cc):      *)
(* client connections and their descriptors, the pool of connections to    *)
(* the frontend, the RPCMapper, the UserData of the operations in the      *)
(* io_uring ring, and the write buffers.  Admission and credits are        *)
(* abstract here; Ingress has them in detail.                              *)
(*                                                                         *)
(* A connection object is identified by the client it belongs to.  An RPC  *)
(* is identified by the descriptor and the stream it arrived on, as in     *)
(* RPCMapper::ds_map.  Each action is one completion event.  Completions   *)
(* of one connection arrive in the order of their causes: a client sends   *)
(* its next request after the WRITE of the answer, the frontend answers    *)
(* after the WRITE of the request and grants after the SENDMSG.            *)
(***************************************************************************)
EXTENDS Integers, FiniteSets, Sequences

CONSTANTS
  Client,         \* clients, and their connection objects
  Fd,             \* descriptors for client connections
  Pool,           \* connections to the frontend, all of them UP
  NoConn, NoRpc,  \* absent entries
  UserDataCount,  \* config.buffer_count: UserData objects
  BufferCount,    \* TCP buffers that are not provided to the ring
  MaxStream,      \* bound: requests per connection
  MaxRejects      \* bound: CANCELs of one connection in the ring at a time
                  \* for data that was rejected

ASSUME EventLoopAssumption ==
  /\ IsFiniteSet(Client) /\ IsFiniteSet(Fd) /\ IsFiniteSet(Pool)
  /\ Fd # {}
  /\ Client \cap Pool = {}
  /\ NoConn \notin Client
  /\ NoRpc \notin Fd \X Nat
  /\ UserDataCount \in Nat /\ BufferCount \in Nat
  /\ MaxStream \in Nat /\ MaxRejects \in Nat
  /\ UserDataCount >= 3 + Cardinality(Pool)

VARIABLES
  impolite,     \* clients that may send a request the ingress does not
                \* support, or disconnect before they are answered
  fd,           \* HTTPConnection::fd
  status,       \* HTTPConnection::status ("none": no connection object)
  idle,         \* HTTP1Connection::idle
  last_id,      \* HTTP1Connection::last_id
  listener,     \* Listener::connections, by descriptor
  rpcs,         \* keys of ds_map
  queue,        \* Ingress::queue
  drops,        \* rpc_queue EGRESS UPSTREAM: 503s to be written
  us_map,       \* the RPC each pool connection waits for an answer to
  credit,       \* the Credit Request: "none", "sending", "sent"
  reads,        \* connections with an armed multishot READ
  writes,       \* connections with a WRITE in the ring
  cancels,      \* CANCELs in the ring: the connection and the cause
  user_data,    \* size of user_data_queue
  buffers,      \* size of free_buffer_queue
  aborted       \* why LOG(FATAL) was reached, "no" if it was not

connVars == <<fd, status, idle, last_id, listener>>
rpcVars == <<rpcs, queue, drops, us_map, credit>>
ringVars == <<reads, writes, cancels, user_data, buffers>>
loopVars == <<connVars, rpcVars, ringVars, impolite>>
allVars == <<loopVars, aborted>>

Status == {"none", "UP", "TEARDOWN"}
Reason == {"no", "resources", "protocol"}
Rpc == Fd \X (1 .. MaxStream)

\* The causes of the CANCELs of a connection: its end, which happens once, and
\* data that was rejected, which are counted.
Ended == 0
Rejected == 1 .. MaxRejects
Cause == {Ended} \cup Rejected

-----------------------------------------------------------------------------

\* No client is connected; RPCMapper and Ingress are empty.
InitConnections ==
  /\ impolite \in SUBSET Client
  /\ fd = [c \in Client |-> CHOOSE f \in Fd : TRUE]
  /\ status = [c \in Client |-> "none"]
  /\ idle = [c \in Client |-> TRUE]
  /\ last_id = [c \in Client |-> 0]
  /\ listener = [f \in Fd |-> NoConn]
InitRpcs ==
  /\ rpcs = {} /\ us_map = [p \in Pool |-> NoRpc]
  /\ queue = <<>> /\ drops = {} /\ credit = "none"

\* The worker runs: the ACCEPTs of both listeners and RCVMSG are in the ring, and
\* the CONNECT of every connection to the frontend has made room for its READ.
InitRing ==
  /\ reads = Pool /\ writes = {}
  /\ cancels = {}
InitBuffers ==
  /\ user_data = UserDataCount - 3 - Cardinality(Pool)
  /\ buffers = BufferCount

Init == /\ InitConnections /\ InitRpcs /\ InitRing /\ InitBuffers
        /\ aborted = "no"

\* LOG(FATAL): the process is gone, its state is immaterial.
Fatal(reason) == aborted' = reason /\ UNCHANGED loopVars

\* get_user_data n times, get_buffer b times: LOG(FATAL) if the pool is empty.
UserDataLeft(n) == user_data >= n
BuffersLeft(b) == buffers >= b
Available(n, b) == UserDataLeft(n) /\ BuffersLeft(b)

GetUserData(n) == user_data' = user_data - n
FreeUserData(n) == user_data' = user_data + n
GetBuffer(b) == buffers' = buffers - b
FreeBuffer(b) == buffers' = buffers + b

\* ingress_pre_credit with deque q: a Credit Request if none is on the way,
\* which is one SENDMSG.
NeedsCreditRequest(q, c) == q # <<>> /\ c = "none"
SendCreditRequest(q, c) == IF NeedsCreditRequest(q, c) THEN 1 ELSE 0
CreditAfter(q, c) == IF NeedsCreditRequest(q, c) THEN "sending" ELSE c

\* RingWrapper: the READ of a connection, WRITEs to connections C.
PrepareRead(c) == reads' = reads \cup {c}
PrepareWrite(C) == writes' = writes \cup C

\* RPCMapper
AllocateRpc(k) == rpcs' = rpcs \cup {k}
Route(p, k) == us_map' = [us_map EXCEPT ![p] = k]
CheckFdExists(f) == \E k \in rpcs : k[1] = f

\* Listener
AddConnection(c, f) ==
  /\ fd' = [fd EXCEPT ![c] = f]
  /\ status' = [status EXCEPT ![c] = "UP"]
  /\ idle' = [idle EXCEPT ![c] = TRUE]
  /\ last_id' = [last_id EXCEPT ![c] = 0]
  /\ listener' = [listener EXCEPT ![f] = c]
RemoveConnection(f) == listener' = [listener EXCEPT ![f] = NoConn]

-----------------------------------------------------------------------------
(* Client connections *)

\* The connection object of an earlier connection is no longer referenced.
Gone(c) == /\ c \notin reads \cup writes
           /\ \A why \in Cause : <<c, why>> \notin cancels
           /\ \A f \in Fd : listener[f] # c

\* ACCEPT: the kernel gives the connection a descriptor that is not in use; a
\* READ is armed and the ACCEPT renewed before its UserData is freed.
Accept(c, f) ==
  /\ Gone(c)
  /\ listener[f] = NoConn
  /\ IF ~Available(2, 0) THEN Fatal("resources")
     ELSE /\ AddConnection(c, f)
          /\ PrepareRead(c)
          /\ GetUserData(1)
          /\ UNCHANGED <<rpcVars, writes, cancels, buffers, impolite, aborted>>

\* READ of a request: http_read allocates the RPC and gives it to the ingress,
\* which drops it or queues it and sends a Credit Request.
ReadRequest(c) ==
  /\ c \in reads \ writes /\ status[c] = "UP" /\ idle[c]
  /\ last_id[c] < MaxStream
  /\ LET k == <<fd[c], last_id[c] + 1>>
     IN  IF k \in rpcs THEN Fatal("protocol")
         ELSE \E admitted \in {TRUE} \cup {queue = <<>>} :
                LET q == IF admitted THEN Append(queue, k) ELSE queue
                IN  IF ~Available(SendCreditRequest(q, credit), 0) THEN Fatal("resources")
                    ELSE /\ last_id' = [last_id EXCEPT ![c] = @ + 1]
                         /\ idle' = [idle EXCEPT ![c] = FALSE]
                         /\ AllocateRpc(k)
                         /\ queue' = q
                         /\ drops' = IF admitted THEN drops ELSE drops \cup {k}
                         /\ credit' = CreditAfter(q, credit)
                         /\ GetUserData(SendCreditRequest(q, credit))
                         /\ UNCHANGED <<fd, status, listener, us_map, reads,
                                        writes, cancels, buffers, impolite,
                                        aborted>>

\* set_status(TEARDOWN) and prepare_cancel, which closes the descriptor.
TearDown(c, why) ==
  /\ status' = [status EXCEPT ![c] = "TEARDOWN"]
  /\ cancels' = cancels \cup {<<c, why>>}

\* Mutant of ReadUnsupported: the UserData goes back to the pool, although the
\* multishot READ it belongs to is still armed.
ReadUnsupportedFrees(c) ==
  /\ c \in impolite /\ c \in reads \ writes /\ idle[c]
  /\ \E why \in Rejected :
       /\ <<c, why>> \notin cancels
       /\ IF ~Available(1, 0) THEN Fatal("resources")
          ELSE /\ TearDown(c, why)
               /\ UNCHANGED <<fd, idle, last_id, listener, rpcVars, reads, writes,
                              user_data, buffers, impolite, aborted>>

\* READ of a request that http_read rejects (HTTPParseException): the
\* connection is torn down.  Its READ stays armed in the ring, and http_read
\* keeps what it has read: more data is rejected again, whatever the status of
\* the connection, also after its descriptor was closed.
ReadUnsupported(c) ==
  /\ c \in impolite /\ c \in reads \ writes /\ idle[c]
  /\ \E why \in Rejected :
       /\ <<c, why>> \notin cancels
       /\ IF ~Available(1, 0) THEN Fatal("resources")
          ELSE /\ TearDown(c, why)
               /\ GetUserData(1)
               /\ UNCHANGED <<fd, idle, last_id, listener, rpcVars, reads, writes,
                              buffers, impolite, aborted>>

\* Mutant of ReadEnd: the status of the connection is not updated.
ReadEndStaysUp(c) ==
  /\ c \in reads \cap Client
  /\ c \in impolite \/ (status[c] = "UP" /\ idle[c] /\ c \notin writes)
  /\ IF ~Available(1, 0) THEN Fatal("resources")
     ELSE /\ cancels' = cancels \cup {<<c, Ended>>}
          /\ reads' = reads \ {c}
          /\ GetUserData(1)
          /\ UNCHANGED <<connVars, rpcVars, writes, buffers, impolite, aborted>>

\* READ of 0 bytes: the client closed, which ends the multishot READ.  The
\* UserData of the READ is not given back to the pool.
ReadEnd(c) ==
  /\ c \in reads \cap Client
  /\ c \in impolite \/ (status[c] = "UP" /\ idle[c] /\ c \notin writes)
  /\ IF ~Available(1, 0) THEN Fatal("resources")
     ELSE /\ TearDown(c, Ended)
          /\ reads' = reads \ {c}
          /\ GetUserData(1)
          /\ UNCHANGED <<fd, idle, last_id, listener, rpcVars, writes, buffers,
                         impolite, aborted>>

\* CANCEL: the kernel closed the descriptor, and the listener forgets the
\* connection it has under it; an RPC left for the descriptor is fatal.
Cancel(c, why) ==
  /\ <<c, why>> \in cancels /\ c \notin writes
  /\ IF CheckFdExists(fd[c]) THEN Fatal("protocol")
     ELSE /\ RemoveConnection(fd[c])
          /\ cancels' = cancels \ {<<c, why>>}
          /\ FreeUserData(1)
          /\ UNCHANGED <<fd, status, idle, last_id, rpcVars, reads, writes,
                         buffers, impolite, aborted>>

\* READ or WRITE with an error: the client reset the connection.
ConnectionReset(c) ==
  /\ c \in impolite \cap (reads \cup writes)
  /\ Fatal("protocol")

-----------------------------------------------------------------------------
(* Forwarding *)

\* A response for k cannot be written: its descriptor has no connection, or
\* one that waits for no answer; or a CANCEL of the descriptor is in the ring
\* (the WRITE then fails on the closed descriptor); or another response of the
\* same event was written to that connection before.
Undeliverable(K, k) ==
  LET c == listener[k[1]]
  IN  \/ c = NoConn
      \/ idle[c]
      \/ \E x \in cancels : fd[x[1]] = k[1]
      \/ \E x \in K \ {k} : x[1] = k[1]

\* forward EGRESS UPSTREAM: each response is written to the connection the
\* listener has for its descriptor, and its RPC is removed.  Without any
\* connection forward gives up, and the first of the responses is lost.
NoConnections == \A f \in Fd : listener[f] = NoConn
RemoveRpcs(K) == rpcs' = IF NoConnections THEN rpcs ELSE rpcs \ K
Owners(K) == IF NoConnections THEN {} ELSE {listener[k[1]] : k \in K}

\* Mutants of Written: http_write does not mark the connection as idle; it
\* does not remove the RPC.
WrittenBusy(K) ==
  /\ UNCHANGED idle
  /\ RemoveRpcs(K)
WrittenKeepsRpc(K) ==
  /\ idle' = [c \in Client |-> idle[c] \/ c \in Owners(K)]
  /\ UNCHANGED rpcs
Written(K) ==
  /\ idle' = [c \in Client |-> idle[c] \/ c \in Owners(K)]
  /\ RemoveRpcs(K)

\* The responses that stay in rpc_queue: none, unless forward gave up.
Kept(K) == IF ~NoConnections \/ K = {} THEN {{}} ELSE {K \ {k} : k \in K}

\* get_any_connection: connections of the pool that wait for no response.
IdleConnections == {p \in Pool : us_map[p] = NoRpc}

\* Mutant of SubmitRequest: a connection that waits for a response is used.
SubmitRequestBusy(p, k) == p \in Pool /\ Route(p, k)

\* submit_request and http_write: the RPC goes out on connection p.
SubmitRequest(p, k) == p \in IdleConnections /\ Route(p, k)

\* RCVMSG with a grant (ingress_post_credit): the head of the deque goes to the
\* frontend on an idle connection of the pool, the 503s are written, and the
\* next Credit Request is sent.
RecvCreditGrant(p) ==
  /\ credit = "sent"
  /\ IF queue = <<>> \/ IdleConnections = {} THEN Fatal("protocol")
     ELSE /\ LET n == 1 + Cardinality(Owners(drops))
                 s == SendCreditRequest(Tail(queue), "none")
             IN  IF ~NoConnections /\ \E k \in drops : Undeliverable(drops, k)
                 THEN Fatal("protocol")
                 ELSE IF ~Available(n + s, n) THEN Fatal("resources")
                 ELSE /\ SubmitRequest(p, Head(queue))
                      /\ queue' = Tail(queue)
                      /\ Written(drops)
                      /\ drops' \in Kept(drops)
                      /\ credit' = CreditAfter(Tail(queue), "none")
                      /\ PrepareWrite({p} \cup Owners(drops))
                      /\ GetUserData(n + s)
                      /\ GetBuffer(n)
                      /\ UNCHANGED <<fd, status, last_id, listener, reads,
                                     cancels, impolite, aborted>>

\* READ of a response: the pool connection is idle again, the response and the
\* 503s are written.
RecvResponse(p) ==
  /\ us_map[p] # NoRpc /\ p \notin writes
  /\ LET K == drops \cup {us_map[p]}
         n == Cardinality(Owners(K))
         s == SendCreditRequest(queue, credit)
     IN  IF ~NoConnections /\ \E k \in K : Undeliverable(K, k)
         THEN Fatal("protocol")
         ELSE IF ~Available(n + s, n) THEN Fatal("resources")
         ELSE /\ us_map' = [us_map EXCEPT ![p] = NoRpc]
              /\ Written(K)
              /\ drops' \in Kept(K)
              /\ credit' = CreditAfter(queue, credit)
              /\ PrepareWrite(Owners(K))
              /\ GetUserData(n + s)
              /\ GetBuffer(n)
              /\ UNCHANGED <<fd, status, last_id, listener, queue, reads,
                             cancels, impolite, aborted>>

\* Mutants of WriteDone: the buffer is not given back; it is given back twice.
WriteDoneKeepsBuffer(c) ==
  /\ c \in writes
  /\ writes' = writes \ {c}
  /\ FreeUserData(1)
  /\ UNCHANGED <<connVars, rpcVars, reads, cancels, buffers, impolite, aborted>>

WriteDoneFreesTwice(c) ==
  /\ c \in writes
  /\ writes' = writes \ {c}
  /\ FreeUserData(1)
  /\ FreeBuffer(2)
  /\ UNCHANGED <<connVars, rpcVars, reads, cancels, impolite, aborted>>

\* WRITE and SENDMSG completions give back the buffer and the UserData.
WriteDone(c) ==
  /\ c \in writes
  /\ writes' = writes \ {c}
  /\ FreeUserData(1)
  /\ FreeBuffer(1)
  /\ UNCHANGED <<connVars, rpcVars, reads, cancels, impolite, aborted>>

SendDone ==
  /\ credit = "sending"
  /\ credit' = "sent"
  /\ FreeUserData(1)
  /\ UNCHANGED <<connVars, rpcs, queue, drops, us_map, reads, writes, cancels,
                 buffers, impolite, aborted>>

-----------------------------------------------------------------------------

Next ==
  /\ aborted = "no"
  /\ \/ \E c \in Client : \/ \E f \in Fd : Accept(c, f)
                          \/ ReadRequest(c)
                          \/ ReadUnsupported(c)
                          \/ ReadEnd(c)
                          \/ \E why \in Cause : Cancel(c, why)
                          \/ ConnectionReset(c)
     \/ \E p \in Pool : RecvCreditGrant(p) \/ RecvResponse(p)
     \/ \E c \in Client \cup Pool : WriteDone(c)
     \/ SendDone

Spec == Init /\ [][Next]_allVars

-----------------------------------------------------------------------------
(* Properties *)

\* Every variable has its type; the pools never hold more than they started
\* with (get_user_data, get_buffer, free_buffer of buffer_manager.cc).
TypeOK ==
  /\ impolite \subseteq Client
  /\ fd \in [Client -> Fd]
  /\ status \in [Client -> Status]
  /\ idle \in [Client -> BOOLEAN]
  /\ last_id \in [Client -> 0 .. MaxStream]
  /\ listener \in [Fd -> Client \cup {NoConn}]
  /\ rpcs \subseteq Rpc /\ drops \subseteq Rpc
  /\ queue \in Seq(Rpc)
  /\ us_map \in [Pool -> Rpc \cup {NoRpc}]
  /\ credit \in {"none", "sending", "sent"}
  /\ reads \subseteq Client \cup Pool /\ writes \subseteq Client \cup Pool
  /\ cancels \subseteq Client \X Cause
  /\ user_data \in 0 .. UserDataCount
  /\ buffers \in 0 .. BufferCount
  /\ aborted \in Reason

\* Operations in the ring, each with a UserData of its own: two ACCEPTs, RCVMSG,
\* READs, WRITEs, CANCELs and the SENDMSG of a Credit Request.
Operations ==
  3 + Cardinality(reads) + Cardinality(writes) + Cardinality(cancels)
    + (IF credit = "sending" THEN 1 ELSE 0)

\* No UserData is in user_data_queue while an operation in the ring refers to
\* it: get_user_data would hand it out a second time (buffer_manager.cc:188),
\* and the completion of the old operation would be taken for the new one's.
NoStaleUserData == user_data + Operations <= UserDataCount

\* Each write buffer is in free_buffer_queue or belongs to one WRITE in the
\* ring, whatever the clients do (write_http, WRITE in event_loop.cc).
WriteBuffersAccounted == buffers + Cardinality(writes) = BufferCount

\* A connection that is UP is the one the listener has for its descriptor, so
\* that responses find it: a CANCEL removes only the object of its own
\* connection (event_loop.cc:280).
ConnectionsReachable ==
  \A c \in Client : status[c] = "UP" => listener[fd[c]] = c

\* The clients send what the ingress supports and wait for their answers.
Polite == impolite = {}

\* With such clients every connection can be answered, although descriptors
\* are used again as soon as they are closed.
PoliteConnectionsReachable == Polite => ConnectionsReachable

\* A listed connection that is not idle has one RPC in ds_map, an idle one has
\* none; that RPC is in the deque, or its 503 in rpc_queue, or it is on one
\* connection of the pool (http_read, forward and http_write agree).
OneRpcPerConnection ==
  Polite /\ aborted = "no" =>
    /\ \A f \in Fd : listener[f] # NoConn =>
          Cardinality({k \in rpcs : k[1] = f})
            = (IF idle[listener[f]] THEN 0 ELSE 1)
    /\ \A k \in rpcs :
          Cardinality({i \in DOMAIN queue : queue[i] = k})
            + Cardinality({p \in Pool : us_map[p] = k})
            + (IF k \in drops THEN 1 ELSE 0) = 1

\* With such clients no check of the loop fails: no RPC left at CANCEL, no
\* response without a connection or to an idle one, no descriptor and stream
\* used twice, no grant without a request, no pool without an idle connection.
NoProtocolAbort == Polite => aborted # "protocol"

\* Where the last request of a client is, as the tables of the loop have it.
LastRpc(c) == <<fd[c], last_id[c]>>
PhaseOf(c) ==
  IF status[c] # "UP" THEN "closed"
  ELSE IF idle[c] THEN "idle"
  ELSE IF \E i \in DOMAIN queue : queue[i] = LastRpc(c) THEN "queued"
  ELSE IF LastRpc(c) \in drops THEN "dropped"
  ELSE IF \E p \in Pool : us_map[p] = LastRpc(c) THEN "sent"
  ELSE "lost"

Phases == [c \in Client |-> PhaseOf(c)]
Line == [i \in DOMAIN queue |-> listener[queue[i][1]]]

W == INSTANCE Worker WITH phase <- Phases, line <- Line

\* With such clients the loop implements the promise of a worker: descriptors
\* that are used again, tables keyed by them and pool connections that serve
\* one client after the other never mix up two clients, lose a request or
\* change the order of the requests (http_read, forward, CANCEL).
WorkerServed ==
  /\ Polite => W!Init
  /\ [][Polite => [W!Next]_(W!workerVars)]_allVars
=============================================================================
