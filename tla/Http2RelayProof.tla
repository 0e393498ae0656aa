-------------------------- MODULE Http2RelayProof --------------------------
(***************************************************************************)
(* Theorems about the HTTP/2 relay, for every number of calls and messages *)
(* and payloads of any length: if the service answers only requests it has *)
(* received, data providers never outlive their message, messages are      *)
(* returned, no callback misses its RPC, and the relay implements Relay.   *)
(***************************************************************************)
EXTENDS Http2Relay, SequenceTheorems, FiniteSetTheorems, TLAPS

\* The service answers a request when it has received it (a synchronous gRPC
\* service), and sends an error as a single HEADERS frame.
AnswersAfterRequest == "early" \notin Habits
ErrorsInOneFrame == "split" \notin Habits

-----------------------------------------------------------------------------
(* The inductive invariant *)

\* A message that is not in the pool belongs to one call.
Ownership ==
  /\ \A k, l \in Call : ds_map[k] # NoMessage /\ ds_map[k] = ds_map[l] => k = l
  /\ \A k \in Call : ds_map[k] \notin pool
  /\ \A m \in Message : m \in pool \/ \E k \in Call : ds_map[k] = m
  /\ \A k \in Call : us_map[k] # NoMessage => us_map[k] = ds_map[k]

\* A message in the pool is clear.
PoolClear == \A m \in pool : data[m] = Empty /\ read_offset[m] = Start

\* How the two sides of a call and its entries in the maps go together.
Phases ==
  \A k \in Call :
    /\ client[k] = "idle" => server[k] = "idle" /\ ds_map[k] = NoMessage
    /\ client[k] = "asking" => server[k] = "idle" /\ ds_map[k] # NoMessage
    /\ client[k] = "asked" =>
         /\ server[k] \in {"queued", "receiving", "received", "answering", "ok"}
         /\ ds_map[k] # NoMessage
    /\ client[k] \in {"ok", "error", "bare"} =>
         server[k] \in {"ok", "error"} /\ ds_map[k] = NoMessage
    /\ server[k] \in {"queued", "receiving", "received", "answering"} =>
         client[k] \in {"asked", "cancelled"} /\ ds_map[k] # NoMessage
    /\ server[k] \in {"idle", "queued"} => us_map[k] = NoMessage
    /\ server[k] \in {"receiving", "received", "answering"} =>
         us_map[k] # NoMessage

\* A stream has a data provider exactly while its data are being sent.
Providers ==
  \A k \in Call :
    /\ source[k].req = IF server[k] = "receiving" THEN us_map[k] ELSE NoMessage
    /\ source[k].res = IF client[k] = "asked" /\ server[k] = "ok"
                       THEN ds_map[k] ELSE NoMessage

\* The message of a call holds what has arrived of that call, and no more.
PayloadOf(k) ==
  /\ ds_map[k] # NoMessage =>
       /\ data[ds_map[k]].req = Units(k, uploaded[k])
       /\ data[ds_map[k]].res = Units(k, produced[k])
       /\ read_offset[ds_map[k]].req <= uploaded[k]
       /\ read_offset[ds_map[k]].res <= produced[k]
  /\ client[k] = "idle" => uploaded[k] = 0
  /\ server[k] # "idle" => uploaded[k] = RequestLen
  /\ server[k] \in {"idle", "queued", "receiving", "received", "error"} =>
       produced[k] = 0
  /\ server[k] = "ok" => produced[k] = ResponseLen
Payloads == \A k \in Call : PayloadOf(k)

\* The service has got the request up to read_offset.
Requests ==
  \A k \in Call :
    /\ server[k] \in {"idle", "queued"} =>
         /\ received[k] = <<>>
         /\ ds_map[k] # NoMessage => read_offset[ds_map[k]].req = 0
    /\ server[k] = "receiving" =>
         received[k] = Units(k, read_offset[ds_map[k]].req)
    /\ server[k] \in {"received", "answering", "ok", "error"} =>
         received[k] = Units(k, RequestLen)

\* The client has got the response up to read_offset.
Responses ==
  \A k \in Call :
    /\ server[k] # "ok" =>
         /\ got[k] = <<>>
         /\ ds_map[k] # NoMessage => read_offset[ds_map[k]].res = 0
    /\ client[k] = "asked" /\ server[k] = "ok" =>
         got[k] = Units(k, read_offset[ds_map[k]].res)
    /\ client[k] = "ok" => server[k] = "ok" /\ got[k] = Units(k, ResponseLen)
    /\ client[k] \in {"error", "bare"} => server[k] = "error"

Inv == /\ TypeOK
       /\ Ownership
       /\ PoolClear
       /\ Phases
       /\ Providers
       /\ Payloads
       /\ Requests
       /\ Responses
       /\ LookupsSucceed

-----------------------------------------------------------------------------
(* Payloads as sequences *)

LEMMA UnitsFacts ==
  ASSUME NEW k \in Call, NEW n \in Nat
  PROVE  /\ Units(k, n) \in Seq(Call \X Nat)
         /\ Len(Units(k, n)) = n
         /\ \A i \in 1 .. n : Units(k, n)[i] = <<k, i>>
<1>1. \A i \in 1 .. n : <<k, i>> \in Call \X Nat
  OBVIOUS
<1>2. Units(k, n) \in Seq(Call \X Nat)
  BY <1>1, IsASeq DEF Units
<1>3. Len(Units(k, n)) = n
  BY <1>2, LenProperties DEF Units
<1>4. QED
  BY <1>2, <1>3 DEF Units

LEMMA UnitsZero ==
  ASSUME NEW k \in Call
  PROVE  Units(k, 0) = <<>>
  BY UnitsFacts, EmptySeq

LEMMA UnitsInjective ==
  ASSUME NEW k \in Call, NEW n \in Nat, Units(k, n) = <<>>
  PROVE  n = 0
  BY UnitsFacts

\* add_data: one more unit has arrived.
LEMMA UnitsAppend ==
  ASSUME NEW k \in Call, NEW n \in Nat
  PROVE  Append(Units(k, n), <<k, n + 1>>) = Units(k, n + 1)
<1> DEFINE s == Append(Units(k, n), <<k, n + 1>>)
           t == Units(k, n + 1)
<1>1. /\ s \in Seq(Call \X Nat)
      /\ Len(s) = n + 1
      /\ \A i \in 1 .. n : s[i] = <<k, i>>
      /\ s[n + 1] = <<k, n + 1>>
  <2>1. /\ Units(k, n) \in Seq(Call \X Nat)
        /\ Len(Units(k, n)) = n
        /\ \A i \in 1 .. n : Units(k, n)[i] = <<k, i>>
    BY UnitsFacts
  <2>2. <<k, n + 1>> \in Call \X Nat
    OBVIOUS
  <2>3. /\ s \in Seq(Call \X Nat)
        /\ Len(s) = Len(Units(k, n)) + 1
        /\ \A i \in 1 .. Len(Units(k, n)) : s[i] = Units(k, n)[i]
        /\ s[Len(Units(k, n)) + 1] = <<k, n + 1>>
    BY <2>1, <2>2, AppendProperties
  <2>4. QED
    BY <2>1, <2>3
<1>2. /\ t \in Seq(Call \X Nat)
      /\ Len(t) = n + 1
      /\ \A i \in 1 .. n + 1 : t[i] = <<k, i>>
  <2>1. n + 1 \in Nat
    OBVIOUS
  <2>2. QED
    BY <2>1, UnitsFacts
<1>3. \A i \in 1 .. n + 1 : s[i] = t[i]
  <2>1. TAKE i \in 1 .. n + 1
  <2>2. i \in 1 .. n \/ i = n + 1
    OBVIOUS
  <2>3. QED
    BY <1>1, <1>2, <2>2
<1> HIDE DEF s, t
<1>4. s = t
  BY <1>1, <1>2, <1>3, SeqEqual
<1>5. QED
  BY <1>4 DEF s, t

\* A data provider copies the next n units behind the r that were sent before.
LEMMA UnitsConcat ==
  ASSUME NEW k \in Call, NEW r \in Nat, NEW n \in Nat, NEW len \in Nat,
         r + n <= len
  PROVE  Units(k, r) \o SubSeq(Units(k, len), r + 1, r + n) = Units(k, r + n)
<1> DEFINE u == SubSeq(Units(k, len), r + 1, r + n)
           s == Units(k, r) \o u
           t == Units(k, r + n)
<1>1. /\ u \in Seq(Call \X Nat)
      /\ Len(u) = n
      /\ \A i \in 1 .. n : u[i] = <<k, r + i>>
  <2>1. /\ Units(k, len) \in Seq(Call \X Nat)
        /\ Len(Units(k, len)) = len
        /\ \A i \in 1 .. len : Units(k, len)[i] = <<k, i>>
    BY UnitsFacts
  <2>2. \A i \in r + 1 .. r + n : i \in 1 .. len
    OBVIOUS
  <2>3. /\ u \in Seq(Call \X Nat)
        /\ Len(u) = n
        /\ \A i \in 1 .. n : u[i] = Units(k, len)[r + i]
    BY <2>1, <2>2, SubSeqProperties
  <2>4. \A i \in 1 .. n : r + i \in 1 .. len
    OBVIOUS
  <2>5. QED
    BY <2>1, <2>3, <2>4
<1>2. /\ Units(k, r) \in Seq(Call \X Nat)
      /\ Len(Units(k, r)) = r
      /\ \A i \in 1 .. r : Units(k, r)[i] = <<k, i>>
  BY UnitsFacts
<1>3. /\ t \in Seq(Call \X Nat)
      /\ Len(t) = r + n
      /\ \A i \in 1 .. r + n : t[i] = <<k, i>>
  <2>1. r + n \in Nat
    OBVIOUS
  <2>2. QED
    BY <2>1, UnitsFacts
<1> HIDE DEF u
<1>4. /\ s \in Seq(Call \X Nat)
      /\ Len(s) = r + n
      /\ \A i \in 1 .. r + n :
           s[i] = IF i <= r THEN Units(k, r)[i] ELSE u[i - r]
  <2>1. /\ s \in Seq(Call \X Nat)
        /\ Len(s) = Len(Units(k, r)) + Len(u)
        /\ \A i \in 1 .. Len(Units(k, r)) + Len(u) :
             s[i] = IF i <= Len(Units(k, r)) THEN Units(k, r)[i]
                    ELSE u[i - Len(Units(k, r))]
    BY <1>1, <1>2, ConcatProperties
  <2>2. QED
    BY <1>1, <1>2, <2>1
<1>5. \A i \in 1 .. r + n : s[i] = t[i]
  <2>1. TAKE i \in 1 .. r + n
  <2>2. CASE i <= r
    <3>1. i \in 1 .. r
      BY <2>2
    <3>2. s[i] = Units(k, r)[i]
      BY <1>4, <2>2
    <3>3. QED
      BY <1>2, <1>3, <3>1, <3>2
  <2>3. CASE ~(i <= r)
    <3>1. i - r \in 1 .. n /\ r + (i - r) = i
      BY <2>3
    <3>2. QED
      BY <1>1, <1>3, <1>4, <2>3, <3>1
  <2>4. QED
    BY <2>2, <2>3
<1> HIDE DEF s, t
<1>6. s = t
  BY <1>3, <1>4, <1>5, SeqEqual
<1>7. QED
  BY <1>6 DEF s, t, u

-----------------------------------------------------------------------------
(* The invariant is inductive *)

\* The types of what belongs to a call and to a message.
LEMMA CallTyped ==
  ASSUME Inv, NEW k \in Call
  PROVE  /\ uploaded[k] \in 0 .. RequestLen /\ uploaded[k] \in Nat
         /\ produced[k] \in 0 .. ResponseLen /\ produced[k] \in Nat
         /\ received[k] \in Seq(Call \X Nat) /\ got[k] \in Seq(Call \X Nat)
         /\ ds_map[k] # NoMessage => ds_map[k] \in Message
         /\ us_map[k] # NoMessage => us_map[k] \in Message
<1>1. /\ uploaded[k] \in 0 .. RequestLen
      /\ produced[k] \in 0 .. ResponseLen
      /\ received[k] \in Seq(Call \X Nat) /\ got[k] \in Seq(Call \X Nat)
      /\ ds_map[k] # NoMessage => ds_map[k] \in Message
      /\ us_map[k] # NoMessage => us_map[k] \in Message
  BY DEF Inv, TypeOK
<1>2. QED
  BY <1>1, Http2Assumption

LEMMA MessageTyped ==
  ASSUME Inv, NEW m \in Message
  PROVE  /\ data[m] \in Pair(Seq(Call \X Nat))
         /\ read_offset[m] \in Pair(Nat)
         /\ read_offset[m].req \in Nat /\ read_offset[m].res \in Nat
<1>1. data[m] \in Pair(Seq(Call \X Nat)) /\ read_offset[m] \in Pair(Nat)
  BY DEF Inv, TypeOK
<1>2. QED
  BY <1>1 DEF Pair

LEMMA InitInv == Init => Inv
<1> SUFFICES ASSUME Init PROVE Inv
  OBVIOUS
<1> USE Http2Assumption DEF Init
<1>1. <<>> \in Seq(Call \X Nat) /\ Len(<<>>) = 0
  BY EmptySeq
<1>2. TypeOK
  BY <1>1 DEF TypeOK, ClientState, ServerState, Type, Pair, Reason, Empty, Start,
              NoSource
<1>3. Ownership /\ PoolClear /\ Phases
  BY DEF Ownership, PoolClear, Phases
<1>4. Providers /\ Payloads /\ Requests /\ Responses
  BY DEF Providers, Payloads, PayloadOf, Requests, Responses, NoSource
<1>5. LookupsSucceed
  BY DEF LookupsSucceed
<1>6. QED
  BY <1>2, <1>3, <1>4, <1>5 DEF Inv

\* What LOG(FATAL) leaves behind satisfies the invariant.
LEMMA FatalInv ==
  ASSUME Inv, NEW reason \in Reason \ {"lookup"}, Fatal(reason)
  PROVE  Inv'
<1> USE DEF Fatal, peerVars, messageVars, mapVars
<1>1. TypeOK'
  BY DEF Inv, TypeOK
<1>2. Ownership' /\ PoolClear' /\ Phases'
  BY DEF Inv, Ownership, PoolClear, Phases
<1>3. Providers' /\ Payloads' /\ Requests' /\ Responses'
  BY DEF Inv, Providers, Payloads, PayloadOf, Requests, Responses
<1>4. LookupsSucceed'
  BY DEF LookupsSucceed
<1>5. QED
  BY <1>1, <1>2, <1>3, <1>4 DEF Inv

LEMMA BeginRequestInv ==
  ASSUME Inv, NEW k \in Call, BeginRequest(k)
  PROVE  Inv'
<1>1. CASE pool = {}
  BY <1>1, FatalInv DEF BeginRequest, Reason
<1>2. CASE pool # {}
  <2>1. PICK m \in pool :
          /\ pool' = pool \ {m}
          /\ ds_map' = [ds_map EXCEPT ![k] = m]
          /\ client' = [client EXCEPT ![k] = "asking"]
          /\ UNCHANGED <<server, uploaded, produced, received, got, data,
                         read_offset, us_map, source, up, aborted>>
    BY <1>2 DEF BeginRequest
  <2>2. client[k] = "idle"
    BY DEF BeginRequest
  <2>3. m \in Message /\ m # NoMessage
    BY Http2Assumption DEF Inv, TypeOK
  <2>4. data[m] = Empty /\ read_offset[m] = Start
    BY DEF Inv, PoolClear
  <2>5. server[k] = "idle" /\ ds_map[k] = NoMessage /\ us_map[k] = NoMessage
    BY <2>2 DEF Inv, Phases
  <2>6. TypeOK'
    BY <2>1, <2>3 DEF Inv, TypeOK, ClientState
  <2>7. Ownership'
    <3>1. \A l \in Call : ds_map'[l] = IF l = k THEN m ELSE ds_map[l]
      BY <2>1 DEF Inv, TypeOK
    <3>2. \A l \in Call : ds_map[l] # m
      BY DEF Inv, Ownership
    <3>3. \A x \in Message : x \in pool' \/ \E l \in Call : ds_map'[l] = x
      <4>1. TAKE x \in Message
      <4>2. CASE x = m
        BY <3>1, <4>2
      <4>3. CASE x # m
        <5>1. x \in pool \/ \E l \in Call : l # k /\ ds_map[l] = x
          BY <2>5, Http2Assumption DEF Inv, Ownership
        <5>2. QED
          BY <2>1, <3>1, <4>3, <5>1
      <4>4. QED
        BY <4>2, <4>3
    <3>4. QED
      BY <2>1, <2>5, <3>1, <3>2, <3>3 DEF Inv, Ownership
  <2>8. PoolClear'
    BY <2>1 DEF Inv, PoolClear
  <2>9. Phases'
    BY <2>1, <2>3, <2>5 DEF Inv, TypeOK, Phases
  <2>10. Providers'
    BY <2>1, <2>2, <2>5 DEF Inv, TypeOK, Providers
  <2>11. Payloads'
    BY <2>1, <2>2, <2>3, <2>4, <2>5, UnitsZero
    DEF Inv, TypeOK, Payloads, PayloadOf, Ownership, Empty, Start
  <2>12. Requests'
    BY <2>1, <2>2, <2>4, <2>5 DEF Inv, TypeOK, Requests, Start
  <2>13. Responses'
    BY <2>1, <2>2, <2>4, <2>5 DEF Inv, TypeOK, Responses, Start
  <2>14. LookupsSucceed'
    BY <2>1 DEF Inv, LookupsSucceed
  <2>15. QED
    BY <2>6, <2>7, <2>8, <2>9, <2>10, <2>11, <2>12, <2>13, <2>14 DEF Inv
<1>3. QED
  BY <1>1, <1>2

LEMMA RequestDataInv ==
  ASSUME Inv, NEW k \in Call, RequestData(k)
  PROVE  Inv'
<1> DEFINE m == ds_map[k]
<1>1. client[k] = "asking" /\ uploaded[k] < RequestLen
  BY DEF RequestData
<1>2. m # NoMessage /\ m \in Message /\ server[k] = "idle"
  BY <1>1 DEF Inv, TypeOK, Phases
<1>3. /\ data' = [data EXCEPT ![m].req = Append(@, <<k, uploaded[k] + 1>>)]
      /\ uploaded' = [uploaded EXCEPT ![k] = @ + 1]
      /\ UNCHANGED <<client, server, produced, received, got, pool, read_offset,
                     mapVars, source, up, aborted>>
  BY <1>2 DEF RequestData
<1>4. UNCHANGED <<ds_map, us_map>>
  BY <1>3 DEF mapVars
<1>5. uploaded[k] \in Nat /\ data[m] \in Pair(Seq(Call \X Nat))
  BY <1>2, CallTyped, MessageTyped
<1>6. data[m].req = Units(k, uploaded[k])
  BY <1>2 DEF Inv, Payloads, PayloadOf
<1>7. Append(data[m].req, <<k, uploaded[k] + 1>>) = Units(k, uploaded[k] + 1)
  BY <1>5, <1>6, UnitsAppend
<1> HIDE DEF m
<1>8. /\ data' = [data EXCEPT ![m] = [@ EXCEPT !.req = Units(k, uploaded[k] + 1)]]
      /\ data'[m].req = Units(k, uploaded[k] + 1)
      /\ data'[m].res = data[m].res
      /\ \A x \in Message : x # m => data'[x] = data[x]
  BY <1>2, <1>3, <1>5, <1>7 DEF Inv, TypeOK, Pair
<1>9. /\ Units(k, uploaded[k] + 1) \in Seq(Call \X Nat)
      /\ Len(Units(k, uploaded[k] + 1)) = uploaded[k] + 1
      /\ Len(Units(k, uploaded[k])) = uploaded[k]
  <2>1. uploaded[k] + 1 \in Nat
    BY <1>5
  <2>2. QED
    BY <1>5, <2>1, UnitsFacts
<1>10. TypeOK'
  <2>1. data' \in [Message -> Pair(Seq(Call \X Nat))]
    BY <1>2, <1>5, <1>8, <1>9 DEF Inv, TypeOK, Pair
  <2>2. uploaded' \in [Call -> 0 .. RequestLen]
    BY <1>1, <1>3, <1>5, Http2Assumption DEF Inv, TypeOK
  <2>3. \A x \in Message : /\ read_offset[x].req <= Len(data'[x].req)
                           /\ read_offset[x].res <= Len(data'[x].res)
    <3>1. TAKE x \in Message
    <3>2. CASE x # m
      BY <1>8, <3>2 DEF Inv, TypeOK
    <3>3. CASE x = m
      <4>1. read_offset[m].req \in Nat /\ read_offset[m].req <= uploaded[k]
        BY <1>2, <1>6, <1>9 DEF Inv, TypeOK, Pair
      <4>2. read_offset[m].res <= Len(data[m].res)
        BY <1>2 DEF Inv, TypeOK
      <4>3. QED
        BY <1>5, <1>8, <1>9, <3>3, <4>1, <4>2
    <3>4. QED
      BY <3>2, <3>3
  <2>4. QED
    BY <1>3, <1>4, <2>1, <2>2, <2>3 DEF Inv, TypeOK
<1>11. Ownership'
  BY <1>3, <1>4 DEF Inv, Ownership
<1>12. PoolClear'
  <2>1. m \notin pool
    BY DEF Inv, Ownership, m
  <2>2. QED
    BY <1>3, <1>8, <2>1 DEF Inv, PoolClear, TypeOK
<1>13. Phases' /\ Providers'
  BY <1>3, <1>4 DEF Inv, Phases, Providers
<1>14. Payloads'
  <2>1. \A l \in Call : l # k => ds_map[l] # m
    BY <1>2 DEF Inv, Ownership, m
  <2>2. QED
    <3>1. /\ uploaded'[k] = uploaded[k] + 1
          /\ \A l \in Call : l # k => uploaded'[l] = uploaded[l]
      BY <1>3 DEF Inv, TypeOK
    <3>2. /\ read_offset[m].req \in Nat /\ read_offset[m].req <= uploaded[k]
      BY <1>2 DEF Inv, TypeOK, Pair, Payloads, PayloadOf, m
    <3>3. \A l \in Call : ds_map[l] # NoMessage => ds_map[l] \in Message
      BY DEF Inv, TypeOK
    <3>4. QED
      BY <1>1, <1>2, <1>3, <1>4, <1>5, <1>8, <2>1, <3>1, <3>2, <3>3
      DEF Inv, Payloads, PayloadOf, m
<1>15. Requests' /\ Responses'
  BY <1>3, <1>4 DEF Inv, Requests, Responses
<1>16. LookupsSucceed'
  BY <1>3 DEF Inv, LookupsSucceed
<1>17. QED
  BY <1>10, <1>11, <1>12, <1>13, <1>14, <1>15, <1>16 DEF Inv

\* What a call of the data provider of a request does: r units are sent.
RequestEffect(k, m, r) ==
  /\ r \in Nat /\ r <= RequestLen
  /\ received' = [received EXCEPT ![k] = Units(k, r)]
  /\ read_offset' = [read_offset EXCEPT ![m] = [@ EXCEPT !.req = r]]
  /\ source' = [source EXCEPT ![k] =
       [@ EXCEPT !.req = IF r = RequestLen THEN NoMessage ELSE m]]
  /\ server' = [server EXCEPT ![k] =
       IF r = RequestLen THEN "received" ELSE "receiving"]

LEMMA RequestCallbackEffect ==
  ASSUME Inv, NEW k \in Call, NEW m \in Message, m = ds_map[k], m # NoMessage,
         NEW n \in Nat,
         server[k] \in {"idle", "queued", "receiving"},
         uploaded[k] = RequestLen,
         RequestCallback(k, m, n),
         NEW r, r = read_offset[m].req + n
  PROVE  RequestEffect(k, m, r)
<1> DEFINE o == read_offset[m].req
<1>1. o \in Nat /\ RequestLen \in Nat
  BY MessageTyped, Http2Assumption
<1>2. data[m].req = Units(k, RequestLen) /\ Len(data[m].req) = RequestLen
  BY <1>1, UnitsFacts DEF Inv, Payloads, PayloadOf
<1>3. received[k] = Units(k, o)
  BY UnitsZero DEF Inv, Requests
<1>4. n <= RequestLen - o
  BY <1>2 DEF RequestCallback
<1>5. r \in Nat /\ r <= RequestLen
  BY <1>1, <1>4
<1>6. Units(k, o) \o SubSeq(Units(k, RequestLen), o + 1, o + n) = Units(k, r)
  <2> HIDE DEF o
  <2>1. o + n = r /\ o + n <= RequestLen
    BY <1>5 DEF o
  <2>2. Units(k, o) \o SubSeq(Units(k, RequestLen), o + 1, o + n) = Units(k, o + n)
    BY <1>1, <2>1, UnitsConcat, Zenon
  <2>3. QED
    BY <2>1, <2>2
<1>7. received' = [received EXCEPT ![k] = Units(k, r)]
  BY <1>2, <1>3, <1>6 DEF RequestCallback
<1>8. read_offset' = [read_offset EXCEPT ![m] = [@ EXCEPT !.req = r]]
  BY DEF RequestCallback
<1>9. source' = [source EXCEPT ![k] =
                  [@ EXCEPT !.req = IF r = RequestLen THEN NoMessage ELSE m]]
  BY <1>2 DEF RequestCallback
<1>10. server' = [server EXCEPT ![k] =
                  IF r = RequestLen THEN "received" ELSE "receiving"]
  BY <1>2 DEF RequestCallback
<1>11. QED
  BY <1>5, <1>7, <1>8, <1>9, <1>10 DEF RequestEffect

\* forward_request and write_http, when a request is submitted and when its
\* window opens again.
LEMMA RequestSentInv ==
  ASSUME Inv, NEW k \in Call, NEW n \in Nat,
         NEW m \in Message, m = ds_map[k], m # NoMessage,
         client[k] \in {"asking", "asked", "cancelled"},
         server[k] \in {"idle", "queued", "receiving"},
         client[k] = "cancelled" => server[k] # "idle",
         uploaded[k] = RequestLen,
         RequestCallback(k, m, n),
         us_map' = [us_map EXCEPT ![k] = m],
         client' = [client EXCEPT ![k] = IF @ = "asking" THEN "asked" ELSE @],
         UNCHANGED <<uploaded, produced, got, ds_map, pool, data, up, aborted>>
  PROVE  Inv'
<1>1. PICK r : r = read_offset[m].req + n
  OBVIOUS
<1> DEFINE after == IF r = RequestLen THEN "received" ELSE "receiving"
<1>2. RequestEffect(k, m, r)
  BY <1>1, RequestCallbackEffect
<1> USE DEF RequestEffect
<1>3. \A l \in Call : l # k => ds_map[l] # m
  BY <1>1 DEF Inv, Ownership
<1>4. m \notin pool
  BY <1>1 DEF Inv, Ownership
<1>5. data[m].req = Units(k, RequestLen) /\ Len(data[m].req) = RequestLen
  <2>1. RequestLen \in Nat
    BY Http2Assumption
  <2>2. QED
    BY <1>1, <2>1, UnitsFacts DEF Inv, Payloads, PayloadOf
<1>6. /\ read_offset' \in [Message -> Pair(Nat)]
      /\ read_offset'[m].req = r
      /\ read_offset'[m].res = read_offset[m].res
      /\ \A x \in Message : x # m => read_offset'[x] = read_offset[x]
  BY <1>1, <1>2 DEF Inv, TypeOK, Pair
<1>7. /\ source' \in [Call -> Pair(Message \cup {NoMessage})]
      /\ source'[k].req = IF r = RequestLen THEN NoMessage ELSE m
      /\ source'[k].res = source[k].res
      /\ \A l \in Call : l # k => source'[l] = source[l]
  BY <1>1, <1>2 DEF Inv, TypeOK, Pair
<1>8. /\ server'[k] = after
      /\ us_map'[k] = m
      /\ client'[k] = IF client[k] = "asking" THEN "asked" ELSE client[k]
      /\ received'[k] = Units(k, r)
      /\ \A l \in Call : l # k => /\ server'[l] = server[l]
                                  /\ us_map'[l] = us_map[l]
                                  /\ client'[l] = client[l]
                                  /\ received'[l] = received[l]
  BY <1>1, <1>2 DEF Inv, TypeOK
<1>9. TypeOK'
  <2>1. server' \in [Call -> ServerState] /\ client' \in [Call -> ClientState]
    BY <1>1, <1>2 DEF Inv, TypeOK, ServerState, ClientState
  <2>2. received' \in [Call -> Seq(Call \X Nat)]
    BY <1>1, <1>2, UnitsFacts DEF Inv, TypeOK
  <2>3. us_map' \in [Call -> Message \cup {NoMessage}]
    BY <1>1 DEF Inv, TypeOK
  <2>4. \A x \in Message : /\ read_offset'[x].req <= Len(data[x].req)
                           /\ read_offset'[x].res <= Len(data[x].res)
    BY <1>1, <1>2, <1>5, <1>6 DEF Inv, TypeOK
  <2>5. QED
    BY <1>1, <1>6, <1>7, <2>1, <2>2, <2>3, <2>4 DEF Inv, TypeOK
<1>10. Ownership'
  BY <1>1, <1>8 DEF Inv, Ownership
<1>11. PoolClear'
  BY <1>1, <1>4, <1>6 DEF Inv, PoolClear, TypeOK
<1>12. Phases'
  BY <1>1, <1>8 DEF Inv, Phases
<1>13. Providers'
  BY <1>1, <1>7, <1>8 DEF Inv, Providers
<1>14. Payloads'
  <2>1. \A l \in Call : l # k /\ ds_map[l] # NoMessage =>
          read_offset'[ds_map[l]] = read_offset[ds_map[l]]
    BY <1>1, <1>3, <1>6, CallTyped
  <2>2. produced[k] = 0
    BY DEF Inv, Payloads, PayloadOf
  <2>3. /\ read_offset'[m].req <= uploaded[k]
        /\ read_offset'[m].res <= produced[k]
        /\ data[m].res = Units(k, produced[k])
        /\ client'[k] # "idle" /\ server'[k] \in {"receiving", "received"}
    BY <1>1, <1>2, <1>6, <1>8 DEF Inv, Payloads, PayloadOf
  <2>4. QED
    BY <1>1, <1>5, <1>8, <2>1, <2>2, <2>3 DEF Inv, Payloads, PayloadOf
<1>15. Requests'
  <2>1. \A l \in Call : l # k /\ ds_map[l] # NoMessage =>
          read_offset'[ds_map[l]] = read_offset[ds_map[l]]
    BY <1>1, <1>3, <1>6, CallTyped
  <2>2. \A l \in Call : server[l] = "receiving" => ds_map[l] # NoMessage
    BY DEF Inv, Phases
  <2>3. QED
    BY <1>1, <1>6, <1>8, <2>1, <2>2 DEF Inv, Requests
<1>16. Responses'
  <2>1. \A l \in Call : l # k /\ ds_map[l] # NoMessage =>
          read_offset'[ds_map[l]] = read_offset[ds_map[l]]
    BY <1>1, <1>3, <1>6, CallTyped
  <2>2. \A l \in Call : client[l] = "asked" => ds_map[l] # NoMessage
    BY DEF Inv, Phases
  <2>3. QED
    BY <1>1, <1>6, <1>8, <2>1, <2>2 DEF Inv, Responses
<1>17. LookupsSucceed'
  BY DEF Inv, LookupsSucceed
<1>18. QED
  BY <1>1, <1>9, <1>10, <1>11, <1>12, <1>13, <1>14, <1>15, <1>16, <1>17 DEF Inv

LEMMA ForwardRequestInv ==
  ASSUME Inv, NEW k \in Call, NEW n \in Nat,
         ds_map[k] # NoMessage,
         client[k] \in {"asking", "asked", "cancelled"},
         server[k] \in {"idle", "queued"},
         client[k] = "cancelled" => server[k] # "idle",
         uploaded[k] = RequestLen,
         ForwardRequest(k, n)
  PROVE  Inv'
<1>1. CASE TypeOf(k) \notin up
  <2>1. Fatal("no connection")
    BY <1>1 DEF ForwardRequest
  <2>2. QED
    BY <2>1, FatalInv DEF Reason
<1>2. CASE TypeOf(k) \in up
  <2>1. PICK m \in Message : m = ds_map[k]
    BY CallTyped
  <2>2. /\ us_map' = [us_map EXCEPT ![k] = m]
        /\ client' = [client EXCEPT ![k] = IF @ = "asking" THEN "asked" ELSE @]
        /\ UNCHANGED <<uploaded, produced, got, ds_map, pool, data, up, aborted>>
    BY <1>2, <2>1 DEF ForwardRequest
  <2>3. RequestCallback(k, m, n)
    BY <1>2, <2>1 DEF ForwardRequest
  <2>4. QED
    BY <2>1, <2>2, <2>3, RequestSentInv
<1>3. QED
  BY <1>1, <1>2

LEMMA RequestEndInv ==
  ASSUME Inv, NEW k \in Call, NEW n \in 0 .. RequestLen, RequestEnd(k, n)
  PROVE  Inv'
<1>1. client[k] = "asking" /\ uploaded[k] = RequestLen
  BY DEF RequestEnd
<1>2. ds_map[k] # NoMessage /\ server[k] = "idle"
  BY <1>1 DEF Inv, Phases
<1>3. n \in Nat
  BY Http2Assumption
<1>4. CASE k \in Ingress
  <2>1. ForwardRequest(k, n)
    BY <1>2, <1>4 DEF RequestEnd
  <2>2. QED
    BY <1>1, <1>2, <1>3, <2>1, ForwardRequestInv
<1>5. CASE k \notin Ingress
  <2>1. /\ client' = [client EXCEPT ![k] = "asked"]
        /\ server' = [server EXCEPT ![k] = "queued"]
        /\ UNCHANGED <<uploaded, produced, received, got, pool, data, read_offset,
                       ds_map, us_map, source, up, aborted>>
    BY <1>2, <1>5 DEF RequestEnd, messageVars, mapVars
  <2>2. TypeOK'
    BY <2>1 DEF Inv, TypeOK, ClientState, ServerState
  <2>3. Ownership' /\ PoolClear' /\ LookupsSucceed'
    BY <2>1 DEF Inv, Ownership, PoolClear, LookupsSucceed
  <2>4. Phases' /\ Providers'
    BY <1>1, <1>2, <2>1 DEF Inv, TypeOK, Phases, Providers
  <2>5. Payloads' /\ Requests' /\ Responses'
    BY <1>1, <1>2, <2>1 DEF Inv, TypeOK, Payloads, PayloadOf, Requests, Responses
  <2>6. QED
    BY <2>2, <2>3, <2>4, <2>5 DEF Inv
<1>6. QED
  BY <1>4, <1>5

LEMMA RecvCreditGrantInv ==
  ASSUME Inv, NEW k \in Call, NEW n \in 0 .. RequestLen, RecvCreditGrant(k, n)
  PROVE  Inv'
<1>1. server[k] = "queued" /\ ForwardRequest(k, n)
  BY DEF RecvCreditGrant
<1>2. /\ ds_map[k] # NoMessage
      /\ client[k] \in {"asked", "cancelled"}
      /\ uploaded[k] = RequestLen
  BY <1>1 DEF Inv, Phases, Payloads, PayloadOf
<1>3. n \in Nat
  BY Http2Assumption
<1>4. QED
  BY <1>1, <1>2, <1>3, ForwardRequestInv

LEMMA ResumeRequestInv ==
  ASSUME Inv, NEW k \in Call, NEW n \in 0 .. RequestLen, ResumeRequest(k, n)
  PROVE  Inv'
<1>1. source[k].req # NoMessage
  BY DEF ResumeRequest
<1>2. server[k] = "receiving" /\ source[k].req = us_map[k]
  BY <1>1 DEF Inv, Providers
<1>3. /\ us_map[k] = ds_map[k] /\ ds_map[k] # NoMessage
      /\ client[k] \in {"asked", "cancelled"}
      /\ uploaded[k] = RequestLen
  BY <1>2 DEF Inv, Phases, Ownership, Payloads, PayloadOf
<1>4. PICK m \in Message : m = ds_map[k]
  BY <1>3, CallTyped
<1>5. ~RequestLookupFails(m, n, us_map[k])
  BY <1>3 DEF RequestLookupFails
<1>6. UNCHANGED <<client, uploaded, produced, got, pool, data, ds_map, us_map, up,
                  aborted>>
  BY <1>2, <1>3, <1>4, <1>5 DEF ResumeRequest, mapVars
<1>7. RequestCallback(k, m, n)
  BY <1>2, <1>3, <1>4, <1>5 DEF ResumeRequest
<1>8. us_map' = [us_map EXCEPT ![k] = m]
  BY <1>3, <1>4, <1>6 DEF Inv, TypeOK
<1>9. client' = [client EXCEPT ![k] = IF @ = "asking" THEN "asked" ELSE @]
  BY <1>3, <1>6 DEF Inv, TypeOK
<1>10. n \in Nat
  BY Http2Assumption
<1>11. QED
  BY <1>2, <1>3, <1>4, <1>6, <1>7, <1>8, <1>9, <1>10, RequestSentInv

LEMMA CancelCallInv ==
  ASSUME Inv, NEW k \in Call, CancelCall(k)
  PROVE  Inv'
<1>1. /\ client[k] \in {"asking", "asked"}
      /\ client' = [client EXCEPT ![k] = "cancelled"]
      /\ source' = [source EXCEPT ![k] = [@ EXCEPT !.res = NoMessage]]
      /\ UNCHANGED <<server, uploaded, produced, received, got, pool, data,
                     read_offset, ds_map, us_map, up, aborted>>
  BY DEF CancelCall, messageVars, mapVars
<1>2. /\ source' \in [Call -> Pair(Message \cup {NoMessage})]
      /\ source'[k].req = source[k].req
      /\ source'[k].res = NoMessage
      /\ \A l \in Call : l # k => source'[l] = source[l]
  BY <1>1 DEF Inv, TypeOK, Pair
<1>3. TypeOK'
  BY <1>1, <1>2 DEF Inv, TypeOK, ClientState
<1>4. Ownership' /\ PoolClear' /\ LookupsSucceed'
  BY <1>1 DEF Inv, Ownership, PoolClear, LookupsSucceed
<1>5. Phases'
  BY <1>1 DEF Inv, TypeOK, Phases
<1>6. Providers'
  BY <1>1, <1>2 DEF Inv, TypeOK, Providers
<1>7. Payloads' /\ Requests' /\ Responses'
  BY <1>1 DEF Inv, TypeOK, Payloads, PayloadOf, Requests, Responses
<1>8. QED
  BY <1>3, <1>4, <1>5, <1>6, <1>7 DEF Inv

LEMMA RecvSettingsInv ==
  ASSUME Inv, NEW t \in Type, RecvSettings(t)
  PROVE  Inv'
<1> USE DEF RecvSettings, peerVars, messageVars, mapVars
<1>1. TypeOK'
  BY DEF Inv, TypeOK
<1>2. Ownership' /\ PoolClear' /\ Phases' /\ LookupsSucceed'
  BY DEF Inv, Ownership, PoolClear, Phases, LookupsSucceed
<1>3. Providers' /\ Payloads' /\ Requests' /\ Responses'
  BY DEF Inv, Providers, Payloads, PayloadOf, Requests, Responses
<1>4. QED
  BY <1>1, <1>2, <1>3 DEF Inv

LEMMA ResponseHeadersInv ==
  ASSUME AnswersAfterRequest, Inv, NEW k \in Call, ResponseHeaders(k)
  PROVE  Inv'
<1>1. server[k] = "received"
  BY DEF ResponseHeaders, MayAnswer, AnswersAfterRequest
<1>2. us_map[k] # NoMessage
  BY <1>1 DEF Inv, Phases
<1>3. /\ server' = [server EXCEPT ![k] = "answering"]
      /\ UNCHANGED <<client, uploaded, produced, received, got, pool, data,
                     read_offset, ds_map, us_map, source, up, aborted>>
  BY <1>2 DEF ResponseHeaders, messageVars, mapVars
<1>4. TypeOK'
  BY <1>3 DEF Inv, TypeOK, ServerState
<1>5. Ownership' /\ PoolClear' /\ LookupsSucceed'
  BY <1>3 DEF Inv, Ownership, PoolClear, LookupsSucceed
<1>6. Phases' /\ Providers'
  BY <1>1, <1>3 DEF Inv, TypeOK, Phases, Providers
<1>7. Payloads' /\ Requests' /\ Responses'
  BY <1>1, <1>3 DEF Inv, TypeOK, Payloads, PayloadOf, Requests, Responses
<1>8. QED
  BY <1>4, <1>5, <1>6, <1>7 DEF Inv

LEMMA ResponseDataInv ==
  ASSUME Inv, NEW k \in Call, ResponseData(k)
  PROVE  Inv'
<1>1. server[k] = "answering" /\ produced[k] < ResponseLen
  BY DEF ResponseData
<1>2. /\ us_map[k] = ds_map[k] /\ ds_map[k] # NoMessage
      /\ client[k] \in {"asked", "cancelled"}
  BY <1>1 DEF Inv, Phases, Ownership
<1>3. PICK m \in Message : m = ds_map[k]
  BY <1>2, CallTyped
<1>4. /\ data' = [data EXCEPT ![m].res = Append(@, <<k, produced[k] + 1>>)]
      /\ produced' = [produced EXCEPT ![k] = @ + 1]
      /\ UNCHANGED <<client, server, uploaded, received, got, pool, read_offset,
                     ds_map, us_map, source, up, aborted>>
  BY <1>2, <1>3 DEF ResponseData, mapVars
<1>5. produced[k] \in Nat /\ data[m] \in Pair(Seq(Call \X Nat))
  BY CallTyped, MessageTyped
<1>6. data[m].res = Units(k, produced[k])
  BY <1>2, <1>3 DEF Inv, Payloads, PayloadOf
<1>7. Append(data[m].res, <<k, produced[k] + 1>>) = Units(k, produced[k] + 1)
  BY <1>5, <1>6, UnitsAppend
<1>8. /\ data' = [data EXCEPT ![m] = [@ EXCEPT !.res = Units(k, produced[k] + 1)]]
      /\ data'[m].res = Units(k, produced[k] + 1)
      /\ data'[m].req = data[m].req
      /\ \A x \in Message : x # m => data'[x] = data[x]
  BY <1>4, <1>5, <1>7 DEF Inv, TypeOK, Pair
<1>9. /\ Units(k, produced[k] + 1) \in Seq(Call \X Nat)
      /\ Len(Units(k, produced[k] + 1)) = produced[k] + 1
      /\ Len(Units(k, produced[k])) = produced[k]
  <2>1. produced[k] + 1 \in Nat
    BY <1>5
  <2>2. QED
    BY <1>5, <2>1, UnitsFacts
<1>10. /\ produced'[k] = produced[k] + 1
       /\ \A l \in Call : l # k => produced'[l] = produced[l]
  BY <1>4 DEF Inv, TypeOK
<1>11. TypeOK'
  <2>1. data' \in [Message -> Pair(Seq(Call \X Nat))]
    BY <1>5, <1>8, <1>9 DEF Inv, TypeOK, Pair
  <2>2. produced' \in [Call -> 0 .. ResponseLen]
    BY <1>1, <1>4, <1>5, Http2Assumption DEF Inv, TypeOK
  <2>3. \A x \in Message : /\ read_offset[x].req <= Len(data'[x].req)
                           /\ read_offset[x].res <= Len(data'[x].res)
    <3>1. TAKE x \in Message
    <3>2. CASE x # m
      BY <1>8, <3>2 DEF Inv, TypeOK
    <3>3. CASE x = m
      <4>1. read_offset[m].res \in Nat /\ read_offset[m].res <= produced[k]
        BY <1>6, <1>9 DEF Inv, TypeOK, Pair
      <4>2. read_offset[m].req <= Len(data[m].req)
        BY DEF Inv, TypeOK
      <4>3. QED
        BY <1>5, <1>8, <1>9, <3>3, <4>1, <4>2
    <3>4. QED
      BY <3>2, <3>3
  <2>4. QED
    BY <1>4, <2>1, <2>2, <2>3 DEF Inv, TypeOK
<1>12. Ownership'
  BY <1>4 DEF Inv, Ownership
<1>13. PoolClear'
  <2>1. m \notin pool
    BY <1>3 DEF Inv, Ownership
  <2>2. QED
    BY <1>4, <1>8, <2>1 DEF Inv, PoolClear, TypeOK
<1>14. Phases' /\ Providers'
  BY <1>4 DEF Inv, Phases, Providers
<1>15. Payloads'
  <2>1. \A l \in Call : l # k => ds_map[l] # m
    BY <1>2, <1>3 DEF Inv, Ownership
  <2>2. read_offset[m].res \in Nat /\ read_offset[m].res <= produced[k]
    BY <1>2, <1>3, MessageTyped DEF Inv, Payloads, PayloadOf
  <2>3. \A l \in Call : ds_map[l] # NoMessage => ds_map[l] \in Message
    BY DEF Inv, TypeOK
  <2>4. QED
    BY <1>1, <1>3, <1>4, <1>5, <1>8, <1>10, <2>1, <2>2, <2>3 DEF Inv, Payloads, PayloadOf
<1>16. Requests' /\ Responses'
  BY <1>4 DEF Inv, Requests, Responses
<1>17. LookupsSucceed'
  BY <1>4 DEF Inv, LookupsSucceed
<1>18. QED
  BY <1>11, <1>12, <1>13, <1>14, <1>15, <1>16, <1>17 DEF Inv

\* remove_rpc gives the message of a call back, clear, and leaves those of the
\* other calls alone.
RemoveEffect(k) ==
  /\ Ownership' /\ PoolClear'
  /\ pool' \subseteq Message
  /\ ds_map' \in [Call -> Message \cup {NoMessage}]
  /\ us_map' \in [Call -> Message \cup {NoMessage}]
  /\ data' \in [Message -> Pair(Seq(Call \X Nat))]
  /\ read_offset' \in [Message -> Pair(Nat)]
  /\ \A m \in Message : /\ read_offset'[m].req <= Len(data'[m].req)
                        /\ read_offset'[m].res <= Len(data'[m].res)
  /\ ds_map'[k] = NoMessage /\ us_map'[k] = NoMessage
  /\ \A l \in Call : l # k =>
       /\ ds_map'[l] = ds_map[l] /\ us_map'[l] = us_map[l]
       /\ ds_map[l] # NoMessage =>
            /\ data'[ds_map[l]] = data[ds_map[l]]
            /\ read_offset'[ds_map[l]] = read_offset[ds_map[l]]

LEMMA RemoveRpcEffect ==
  ASSUME Inv, NEW k \in Call, NEW m \in Message, m = ds_map[k], m # NoMessage,
         RemoveRpc(k, m)
  PROVE  RemoveEffect(k)
<1>1. /\ ds_map' = [ds_map EXCEPT ![k] = NoMessage]
      /\ us_map' = [us_map EXCEPT ![k] = NoMessage]
      /\ pool' = pool \cup {m}
      /\ data' = [data EXCEPT ![m] = Empty]
      /\ read_offset' = [read_offset EXCEPT ![m] = Start]
  BY DEF RemoveRpc, FreeRpc
<1>2. <<>> \in Seq(Call \X Nat) /\ Len(<<>>) = 0
  BY EmptySeq
<1>3. /\ pool' \subseteq Message
      /\ ds_map' \in [Call -> Message \cup {NoMessage}]
      /\ us_map' \in [Call -> Message \cup {NoMessage}]
  BY <1>1 DEF Inv, TypeOK
<1>4. /\ data' \in [Message -> Pair(Seq(Call \X Nat))]
      /\ read_offset' \in [Message -> Pair(Nat)]
  BY <1>1, <1>2 DEF Inv, TypeOK, Pair, Empty, Start
<1>5. /\ data'[m] = Empty /\ read_offset'[m] = Start
      /\ \A x \in Message : x # m => /\ data'[x] = data[x]
                                     /\ read_offset'[x] = read_offset[x]
  BY <1>1 DEF Inv, TypeOK
<1>6. \A x \in Message : /\ read_offset'[x].req <= Len(data'[x].req)
                         /\ read_offset'[x].res <= Len(data'[x].res)
  <2>1. TAKE x \in Message
  <2>2. CASE x = m
    BY <1>2, <1>5, <2>2 DEF Empty, Start
  <2>3. CASE x # m
    BY <1>5, <2>3 DEF Inv, TypeOK
  <2>4. QED
    BY <2>2, <2>3
<1>7. /\ ds_map'[k] = NoMessage /\ us_map'[k] = NoMessage
      /\ \A l \in Call : l # k => ds_map'[l] = ds_map[l] /\ us_map'[l] = us_map[l]
  BY <1>1 DEF Inv, TypeOK
<1>8. \A l \in Call : l # k => ds_map[l] # m
  BY DEF Inv, Ownership
<1>9. \A l \in Call : l # k /\ ds_map[l] # NoMessage =>
        /\ data'[ds_map[l]] = data[ds_map[l]]
        /\ read_offset'[ds_map[l]] = read_offset[ds_map[l]]
  BY <1>5, <1>8, CallTyped
<1>10. Ownership'
  <2>1. \A l \in Call : ds_map'[l] \notin pool'
    BY <1>1, <1>7, <1>8, Http2Assumption DEF Inv, Ownership, TypeOK
  <2>2. \A x \in Message : x \in pool' \/ \E l \in Call : ds_map'[l] = x
    <3>1. TAKE x \in Message
    <3>2. CASE x = m
      BY <1>1, <3>2
    <3>3. CASE x # m
      <4>1. x \in pool \/ \E l \in Call : l # k /\ ds_map[l] = x
        BY <3>3 DEF Inv, Ownership
      <4>2. QED
        BY <1>1, <1>7, <4>1
    <3>4. QED
      BY <3>2, <3>3
  <2>3. QED
    BY <1>7, <2>1, <2>2 DEF Inv, Ownership
<1>11. PoolClear'
  BY <1>1, <1>5 DEF Inv, PoolClear, TypeOK
<1>12. QED
  BY <1>3, <1>4, <1>6, <1>7, <1>9, <1>10, <1>11 DEF RemoveEffect

\* submit_error_response, remove_rpc: the error of the service is passed on.
LEMMA ForwardErrorInv ==
  ASSUME Inv, NEW k \in Call, NEW m \in Message, m = ds_map[k], m # NoMessage,
         NEW status \in {"headers", "trailers"},
         server[k] \in {"received", "answering"}, produced[k] = 0,
         ForwardError(k, m, status),
         server' = [server EXCEPT ![k] = "error"],
         UNCHANGED <<uploaded, produced, received, up, aborted>>
  PROVE  Inv'
<1>1. PICK c \in {"cancelled", "error", "bare"} :
        /\ client' = [client EXCEPT ![k] = c]
        /\ c = "cancelled" <=> client[k] = "cancelled"
  <2>1. CASE client[k] = "cancelled"
    <3>1. client' = [client EXCEPT ![k] = "cancelled"]
      BY <2>1 DEF ForwardError
    <3>2. QED
      BY <2>1, <3>1
  <2>2. CASE client[k] # "cancelled" /\ status = "headers"
    <3>1. client' = [client EXCEPT ![k] = "error"]
      BY <2>2 DEF ForwardError
    <3>2. QED
      BY <2>2, <3>1
  <2>3. CASE client[k] # "cancelled" /\ status # "headers"
    <3>1. client' = [client EXCEPT ![k] = "bare"]
      BY <2>3 DEF ForwardError
    <3>2. QED
      BY <2>3, <3>1
  <2>4. QED
    BY <2>1, <2>2, <2>3
<1>2. RemoveEffect(k)
  <2>1. RemoveRpc(k, m)
    BY DEF ForwardError
  <2>2. QED
    BY <2>1, RemoveRpcEffect
<1>3. UNCHANGED <<got, source>>
  BY DEF ForwardError
<1>4. client[k] \in {"asked", "cancelled"}
  BY DEF Inv, Phases
<1>5. source[k].req = NoMessage /\ source[k].res = NoMessage
  BY DEF Inv, Providers
<1>6. /\ server'[k] = "error" /\ client'[k] = c
      /\ \A l \in Call : l # k => server'[l] = server[l] /\ client'[l] = client[l]
  BY <1>1 DEF Inv, TypeOK
<1>7. TypeOK'
  <2>1. server' \in [Call -> ServerState] /\ client' \in [Call -> ClientState]
    BY <1>1 DEF Inv, TypeOK, ServerState, ClientState
  <2>2. QED
    BY <1>2, <1>3, <2>1 DEF Inv, TypeOK, RemoveEffect
<1>8. Ownership' /\ PoolClear'
  BY <1>2 DEF RemoveEffect
<1>9. Phases'
  BY <1>2, <1>6 DEF Inv, Phases, RemoveEffect
<1>10. Providers'
  BY <1>2, <1>3, <1>5, <1>6 DEF Inv, Providers, RemoveEffect
<1>11. Payloads'
  <2>1. uploaded[k] = RequestLen
    BY DEF Inv, Payloads, PayloadOf
  <2>2. QED
    BY <1>2, <1>6, <2>1 DEF Inv, Payloads, PayloadOf, RemoveEffect
<1>12. Requests'
  <2>1. received[k] = Units(k, RequestLen)
    BY DEF Inv, Requests
  <2>2. \A l \in Call : server[l] = "receiving" => ds_map[l] # NoMessage
    BY DEF Inv, Phases
  <2>3. QED
    BY <1>2, <1>6, <2>1, <2>2 DEF Inv, Requests, RemoveEffect
<1>13. Responses'
  <2>1. got[k] = <<>>
    BY DEF Inv, Responses
  <2>2. \A l \in Call : client[l] = "asked" => ds_map[l] # NoMessage
    BY DEF Inv, Phases
  <2>3. QED
    BY <1>2, <1>3, <1>6, <2>1, <2>2 DEF Inv, Responses, RemoveEffect
<1>14. LookupsSucceed'
  BY DEF Inv, LookupsSucceed
<1>15. QED
  BY <1>7, <1>8, <1>9, <1>10, <1>11, <1>12, <1>13, <1>14 DEF Inv

\* What a call of the data provider of a response does: r units are sent.
ResponseEffect(k, m, r) ==
  /\ r \in Nat /\ r <= ResponseLen
  /\ got' = [got EXCEPT ![k] = Units(k, r)]
  /\ source' = [source EXCEPT ![k] =
       [@ EXCEPT !.res = IF r = ResponseLen THEN NoMessage ELSE m]]
  /\ client' = [client EXCEPT ![k] = IF r = ResponseLen THEN "ok" ELSE @]
  /\ IF r = ResponseLen THEN RemoveRpc(k, m)
     ELSE /\ read_offset' = [read_offset EXCEPT ![m] = [@ EXCEPT !.res = r]]
          /\ UNCHANGED <<ds_map, us_map, pool, data>>

LEMMA ResponseCallbackEffect ==
  ASSUME Inv, NEW k \in Call, NEW m \in Message, m = ds_map[k], m # NoMessage,
         NEW n \in Nat,
         client[k] = "asked", server[k] \in {"answering", "ok"},
         produced[k] = ResponseLen,
         ResponseCallback(k, m, n),
         NEW r, r = read_offset[m].res + n
  PROVE  ResponseEffect(k, m, r)
<1> DEFINE o == read_offset[m].res
<1>1. o \in Nat /\ ResponseLen \in Nat
  BY MessageTyped, Http2Assumption
<1>2. data[m].res = Units(k, ResponseLen) /\ Len(data[m].res) = ResponseLen
  BY <1>1, UnitsFacts DEF Inv, Payloads, PayloadOf
<1>3. got[k] = Units(k, o)
  BY UnitsZero DEF Inv, Responses
<1>4. n <= ResponseLen - o
  BY <1>2 DEF ResponseCallback
<1>5. r \in Nat /\ r <= ResponseLen
  BY <1>1, <1>4
<1>6. Units(k, o) \o SubSeq(Units(k, ResponseLen), o + 1, o + n) = Units(k, r)
  <2> HIDE DEF o
  <2>1. o + n = r /\ o + n <= ResponseLen
    BY <1>5 DEF o
  <2>2. Units(k, o) \o SubSeq(Units(k, ResponseLen), o + 1, o + n) = Units(k, o + n)
    BY <1>1, <2>1, UnitsConcat, Zenon
  <2>3. QED
    BY <2>1, <2>2
<1>7. got' = [got EXCEPT ![k] = Units(k, r)]
  BY <1>2, <1>3, <1>6 DEF ResponseCallback
<1>8. source' = [source EXCEPT ![k] =
                  [@ EXCEPT !.res = IF r = ResponseLen THEN NoMessage ELSE m]]
  BY <1>2 DEF ResponseCallback
<1>9. client' = [client EXCEPT ![k] = IF r = ResponseLen THEN "ok" ELSE @]
  BY <1>2 DEF ResponseCallback
<1>10. IF r = ResponseLen THEN RemoveRpc(k, m)
       ELSE /\ read_offset' = [read_offset EXCEPT ![m] = [@ EXCEPT !.res = r]]
            /\ UNCHANGED <<ds_map, us_map, pool, data>>
  BY <1>2 DEF ResponseCallback, mapVars
<1>11. QED
  BY <1>5, <1>7, <1>8, <1>9, <1>10 DEF ResponseEffect

\* submit_response and write_http, when a response is submitted and when its
\* window opens again.
LEMMA ResponseSentInv ==
  ASSUME Inv, NEW k \in Call, NEW n \in Nat,
         NEW m \in Message, m = ds_map[k], m # NoMessage,
         client[k] = "asked", server[k] \in {"answering", "ok"},
         produced[k] = ResponseLen,
         ResponseCallback(k, m, n),
         server' = [server EXCEPT ![k] = "ok"],
         UNCHANGED <<uploaded, produced, received, up, aborted>>
  PROVE  Inv'
<1>1. PICK r : r = read_offset[m].res + n
  OBVIOUS
<1>0. ResponseEffect(k, m, r)
  BY <1>1, ResponseCallbackEffect
<1>2. /\ r \in Nat /\ r <= ResponseLen
      /\ got' = [got EXCEPT ![k] = Units(k, r)]
      /\ source' = [source EXCEPT ![k] =
           [@ EXCEPT !.res = IF r = ResponseLen THEN NoMessage ELSE m]]
      /\ client' = [client EXCEPT ![k] = IF r = ResponseLen THEN "ok" ELSE @]
  BY <1>0 DEF ResponseEffect
<1>3. /\ source' \in [Call -> Pair(Message \cup {NoMessage})]
      /\ source'[k].res = IF r = ResponseLen THEN NoMessage ELSE m
      /\ source'[k].req = source[k].req
      /\ \A l \in Call : l # k => source'[l] = source[l]
  BY <1>2 DEF Inv, TypeOK, Pair
<1>4. /\ server'[k] = "ok"
      /\ client'[k] = IF r = ResponseLen THEN "ok" ELSE "asked"
      /\ got'[k] = Units(k, r)
      /\ \A l \in Call : l # k => /\ server'[l] = server[l]
                                  /\ client'[l] = client[l]
                                  /\ got'[l] = got[l]
  BY <1>2 DEF Inv, TypeOK
<1>5. /\ server' \in [Call -> ServerState] /\ client' \in [Call -> ClientState]
      /\ got' \in [Call -> Seq(Call \X Nat)]
  <2>1. Units(k, r) \in Seq(Call \X Nat)
    BY <1>2, UnitsFacts
  <2>2. QED
    BY <1>2, <2>1 DEF Inv, TypeOK, ServerState, ClientState
<1>6. source[k].req = NoMessage
  BY DEF Inv, Providers
<1>7. uploaded[k] = RequestLen /\ received[k] = Units(k, RequestLen)
  BY DEF Inv, Payloads, PayloadOf, Requests
<1>8. \A l \in Call : server[l] = "receiving" \/ client[l] = "asked" =>
        ds_map[l] # NoMessage
  BY DEF Inv, Phases
<1>9. LookupsSucceed'
  BY DEF Inv, LookupsSucceed
<1>10. CASE r = ResponseLen
  <2>1. RemoveEffect(k)
    <3>1. RemoveRpc(k, m)
      BY <1>0, <1>10 DEF ResponseEffect
    <3>2. QED
      BY <3>1, RemoveRpcEffect
  <2>2. TypeOK'
    BY <1>3, <1>5, <2>1 DEF Inv, TypeOK, RemoveEffect
  <2>3. Ownership' /\ PoolClear'
    BY <2>1 DEF RemoveEffect
  <2>4. Phases'
    BY <1>4, <1>10, <2>1 DEF Inv, Phases, RemoveEffect
  <2>5. Providers'
    BY <1>3, <1>4, <1>6, <1>10, <2>1 DEF Inv, Providers, RemoveEffect
  <2>6. Payloads'
    BY <1>4, <1>7, <1>10, <2>1 DEF Inv, Payloads, PayloadOf, RemoveEffect
  <2>7. Requests'
    BY <1>4, <1>7, <1>8, <2>1 DEF Inv, Requests, RemoveEffect
  <2>8. Responses'
    BY <1>4, <1>8, <1>10, <2>1 DEF Inv, Responses, RemoveEffect
  <2>9. QED
    BY <1>9, <2>2, <2>3, <2>4, <2>5, <2>6, <2>7, <2>8 DEF Inv
<1>11. CASE r # ResponseLen
  <2>1. /\ read_offset' = [read_offset EXCEPT ![m] = [@ EXCEPT !.res = r]]
        /\ UNCHANGED <<ds_map, us_map, pool, data>>
    BY <1>0, <1>11 DEF ResponseEffect
  <2>2. /\ read_offset' \in [Message -> Pair(Nat)]
        /\ read_offset'[m].res = r
        /\ read_offset'[m].req = read_offset[m].req
        /\ \A x \in Message : x # m => read_offset'[x] = read_offset[x]
    <3>1. /\ read_offset \in [Message -> Pair(Nat)]
          /\ read_offset[m] \in Pair(Nat) /\ r \in Nat
      BY <1>2 DEF Inv, TypeOK
    <3>2. QED
      BY <2>1, <3>1 DEF Pair
  <2>3. \A l \in Call : l # k => ds_map[l] # m
    BY DEF Inv, Ownership
  <2>4. \A l \in Call : l # k /\ ds_map[l] # NoMessage =>
          read_offset'[ds_map[l]] = read_offset[ds_map[l]]
    BY <2>2, <2>3, CallTyped
  <2>5. TypeOK'
    <3>1. data[m].res = Units(k, ResponseLen) /\ Len(data[m].res) = ResponseLen
      <4>1. ResponseLen \in Nat
        BY Http2Assumption
      <4>2. QED
        BY <4>1, UnitsFacts DEF Inv, Payloads, PayloadOf
    <3>2. \A x \in Message : /\ read_offset'[x].req <= Len(data[x].req)
                             /\ read_offset'[x].res <= Len(data[x].res)
      BY <1>2, <2>2, <3>1 DEF Inv, TypeOK
    <3>3. QED
      BY <1>3, <1>5, <2>1, <2>2, <3>2 DEF Inv, TypeOK
  <2>6. Ownership'
    BY <2>1 DEF Inv, Ownership
  <2>7. PoolClear'
    <3>1. m \notin pool
      BY DEF Inv, Ownership
    <3>2. QED
      BY <2>1, <2>2, <3>1 DEF Inv, PoolClear, TypeOK
  <2>8. Phases'
    BY <1>4, <1>11, <2>1 DEF Inv, Phases
  <2>9. Providers'
    BY <1>3, <1>4, <1>6, <1>11, <2>1 DEF Inv, Providers
  <2>10. Payloads'
    <3>1. /\ read_offset'[m].req <= uploaded[k]
          /\ read_offset'[m].res <= produced[k]
          /\ data[m].req = Units(k, uploaded[k])
          /\ data[m].res = Units(k, produced[k])
      BY <1>2, <2>2 DEF Inv, Payloads, PayloadOf
    <3>2. client'[k] = "asked" /\ server'[k] = "ok"
      BY <1>4, <1>11
    <3>3. ASSUME NEW l \in Call, l # k
          PROVE  /\ client'[l] = client[l] /\ server'[l] = server[l]
                 /\ ds_map[l] # NoMessage =>
                      read_offset'[ds_map[l]] = read_offset[ds_map[l]]
      BY <1>4, <2>4, <3>3
    <3>4. QED
      <4>1. PayloadOf(k)'
        BY <1>7, <2>1, <3>1, <3>2 DEF PayloadOf
      <4>2. ASSUME NEW l \in Call, l # k
            PROVE  PayloadOf(l)'
        <5>1. PayloadOf(l)
          BY DEF Inv, Payloads
        <5>2. QED
          BY <2>1, <3>3, <4>2, <5>1 DEF PayloadOf
      <4>3. QED
        BY <4>1, <4>2 DEF Payloads
  <2>11. Requests'
    BY <1>4, <1>7, <1>8, <2>1, <2>2, <2>4 DEF Inv, Requests
  <2>12. Responses'
    <3>1. client'[k] = "asked" /\ got'[k] = Units(k, read_offset'[m].res)
      BY <1>4, <1>11, <2>2
    <3>2. QED
      BY <1>4, <1>8, <2>1, <2>3, <2>4, <3>1 DEF Inv, Responses
  <2>13. QED
    BY <1>9, <2>5, <2>6, <2>7, <2>8, <2>9, <2>10, <2>11, <2>12 DEF Inv
<1>12. QED
  BY <1>10, <1>11

LEMMA ResumeResponseInv ==
  ASSUME Inv, NEW k \in Call, NEW n \in 1 .. ResponseLen, ResumeResponse(k, n)
  PROVE  Inv'
<1>1. source[k].res # NoMessage
  BY DEF ResumeResponse
<1>2. /\ client[k] = "asked" /\ server[k] = "ok"
      /\ source[k].res = ds_map[k] /\ ds_map[k] # NoMessage
  BY <1>1 DEF Inv, Providers
<1>3. produced[k] = ResponseLen
  BY <1>2 DEF Inv, Payloads, PayloadOf
<1>4. PICK m \in Message : m = ds_map[k]
  BY <1>2, CallTyped
<1>5. ResponseCallback(k, m, n)
  BY <1>2, <1>4 DEF ResumeResponse
<1>6. UNCHANGED <<server, uploaded, produced, received, up, aborted>>
  BY <1>2, <1>4 DEF ResumeResponse
<1>7. server' = [server EXCEPT ![k] = "ok"]
  BY <1>2, <1>6 DEF Inv, TypeOK
<1>8. n \in Nat
  BY Http2Assumption
<1>9. QED
  BY <1>2, <1>3, <1>4, <1>5, <1>6, <1>7, <1>8, ResponseSentInv

LEMMA ResponseTrailersInv ==
  ASSUME Inv, NEW k \in Call, NEW n \in 0 .. ResponseLen, ResponseTrailers(k, n)
  PROVE  Inv'
<1>1. /\ server[k] = "answering"
      /\ produced[k] = ResponseLen \/ produced[k] = 0
  BY DEF ResponseTrailers
<1>2. /\ us_map[k] = ds_map[k] /\ ds_map[k] # NoMessage
      /\ client[k] \in {"asked", "cancelled"}
  BY <1>1 DEF Inv, Phases, Ownership
<1>3. PICK m \in Message : m = ds_map[k]
  BY <1>2, CallTyped
<1>4. UNCHANGED <<uploaded, produced, received, up, aborted>>
  BY <1>2, <1>3 DEF ResponseTrailers
<1>5. /\ data[m].res = Units(k, produced[k])
      /\ data[m].res = <<>> <=> produced[k] = 0
  BY <1>2, <1>3, CallTyped, UnitsZero, UnitsInjective DEF Inv, Payloads, PayloadOf
<1>6. CASE produced[k] = 0
  <2>1. PICK status \in {"headers", "trailers"} : ForwardError(k, m, status)
    BY <1>2, <1>3, <1>5, <1>6 DEF ResponseTrailers
  <2>2. server' = [server EXCEPT ![k] = "error"]
    BY <1>2, <1>3, <1>6 DEF ResponseTrailers
  <2>3. server[k] \in {"received", "answering"} /\ m # NoMessage
    BY <1>1, <1>2, <1>3
  <2>4. QED
    BY <1>3, <1>4, <1>6, <2>1, <2>2, <2>3, ForwardErrorInv
<1>7. CASE produced[k] # 0
  <2>1. ForwardResponse(k, m, n)
    BY <1>2, <1>3, <1>5, <1>7 DEF ResponseTrailers
  <2>2. server' = [server EXCEPT ![k] = "ok"]
    BY <1>2, <1>3, <1>7 DEF ResponseTrailers
  <2>3. CASE client[k] = "asked"
    <3>1. ResponseCallback(k, m, n)
      BY <2>1, <2>3 DEF ForwardResponse
    <3>2. n \in Nat
      BY Http2Assumption
    <3>3. QED
      BY <1>1, <1>2, <1>3, <1>4, <1>7, <2>2, <2>3, <3>1, <3>2, ResponseSentInv
  <2>4. CASE client[k] = "cancelled"
    <3>1. UNCHANGED <<client, got, pool, data, read_offset, ds_map, us_map, source>>
      BY <2>1, <2>4 DEF ForwardResponse, mapVars
    <3>2. TypeOK'
      BY <1>4, <2>2, <3>1 DEF Inv, TypeOK, ServerState
    <3>3. Ownership' /\ PoolClear' /\ LookupsSucceed'
      BY <1>4, <3>1 DEF Inv, Ownership, PoolClear, LookupsSucceed
    <3>4. Phases' /\ Providers'
      BY <1>1, <2>2, <2>4, <3>1 DEF Inv, TypeOK, Phases, Providers
    <3>5. Payloads' /\ Requests' /\ Responses'
      BY <1>1, <1>4, <1>7, <2>2, <2>4, <3>1
      DEF Inv, TypeOK, Payloads, PayloadOf, Requests, Responses
    <3>6. QED
      BY <3>2, <3>3, <3>4, <3>5 DEF Inv
  <2>5. QED
    BY <1>2, <2>3, <2>4
<1>8. QED
  BY <1>6, <1>7

LEMMA TrailersOnlyInv ==
  ASSUME AnswersAfterRequest, Inv, NEW k \in Call, TrailersOnly(k)
  PROVE  Inv'
<1>1. server[k] = "received"
  BY DEF TrailersOnly, MayAnswer, AnswersAfterRequest
<1>2. us_map[k] = ds_map[k] /\ ds_map[k] # NoMessage /\ produced[k] = 0
  BY <1>1 DEF Inv, Phases, Ownership, Payloads, PayloadOf
<1>3. PICK m \in Message : m = ds_map[k]
  BY <1>2, CallTyped
<1>4. PICK status \in {"headers", "trailers"} : ForwardError(k, m, status)
  BY <1>2, <1>3 DEF TrailersOnly
<1>5. /\ server' = [server EXCEPT ![k] = "error"]
      /\ UNCHANGED <<uploaded, produced, received, up, aborted>>
  BY <1>2, <1>3 DEF TrailersOnly
<1>6. server[k] \in {"received", "answering"} /\ m # NoMessage
  BY <1>1, <1>2, <1>3
<1>7. QED
  BY <1>2, <1>3, <1>4, <1>5, <1>6, ForwardErrorInv

LEMMA StutterInv ==
  ASSUME Inv, UNCHANGED http2Vars
  PROVE  Inv'
<1> USE DEF http2Vars, peerVars, messageVars, mapVars
<1>1. TypeOK'
  BY DEF Inv, TypeOK
<1>2. Ownership' /\ PoolClear' /\ Phases' /\ LookupsSucceed'
  BY DEF Inv, Ownership, PoolClear, Phases, LookupsSucceed
<1>3. Providers' /\ Payloads' /\ Requests' /\ Responses'
  BY DEF Inv, Providers, Payloads, PayloadOf, Requests, Responses
<1>4. QED
  BY <1>1, <1>2, <1>3 DEF Inv

LEMMA NextInv ==
  ASSUME AnswersAfterRequest, Inv, [Next]_http2Vars
  PROVE  Inv'
<1>1. CASE UNCHANGED http2Vars
  BY <1>1, StutterInv
<1>2. ASSUME NEW k \in Call, DownstreamEvent(k)
      PROVE  Inv'
  <2>1. CASE BeginRequest(k)
    BY <2>1, BeginRequestInv
  <2>2. CASE RequestData(k)
    BY <2>2, RequestDataInv
  <2>3. CASE CancelCall(k)
    BY <2>3, CancelCallInv
  <2>4. ASSUME NEW n \in 0 .. RequestLen, RequestEnd(k, n)
        PROVE  Inv'
    BY <2>4, RequestEndInv
  <2>5. ASSUME NEW n \in 0 .. RequestLen, RecvCreditGrant(k, n)
        PROVE  Inv'
    BY <2>5, RecvCreditGrantInv
  <2>6. ASSUME NEW n \in 1 .. ResponseLen, ResumeResponse(k, n)
        PROVE  Inv'
    BY <2>6, ResumeResponseInv
  <2>7. QED
    BY <1>2, <2>1, <2>2, <2>3, <2>4, <2>5, <2>6 DEF DownstreamEvent
<1>3. ASSUME NEW k \in Call, UpstreamEvent(k)
      PROVE  Inv'
  <2>1. ASSUME NEW n \in 0 .. RequestLen, ResumeRequest(k, n)
        PROVE  Inv'
    BY <2>1, ResumeRequestInv
  <2>2. CASE ResponseHeaders(k)
    BY <2>2, ResponseHeadersInv
  <2>3. CASE ResponseData(k)
    BY <2>3, ResponseDataInv
  <2>4. ASSUME NEW n \in 0 .. ResponseLen, ResponseTrailers(k, n)
        PROVE  Inv'
    BY <2>4, ResponseTrailersInv
  <2>5. CASE TrailersOnly(k)
    BY <2>5, TrailersOnlyInv
  <2>6. QED
    BY <1>3, <2>1, <2>2, <2>3, <2>4, <2>5 DEF UpstreamEvent
<1>4. ASSUME NEW t \in Type, RecvSettings(t)
      PROVE  Inv'
  BY <1>4, RecvSettingsInv
<1>5. QED
  BY <1>1, <1>2, <1>3, <1>4 DEF Next

-----------------------------------------------------------------------------
(* Theorems *)

\* The invariant holds in every reachable state if the service answers only
\* requests it has received.
THEOREM Invariance ==
  ASSUME AnswersAfterRequest
  PROVE  Spec => []Inv
<1>1. Inv /\ [Next]_http2Vars => Inv'
  BY NextInv
<1>2. QED
  BY InitInv, <1>1, PTL DEF Spec

\* The state of the relay keeps its types, and no read_offset passes the data.
THEOREM TypeCorrect ==
  ASSUME AnswersAfterRequest
  PROVE  Spec => []TypeOK
<1>1. Inv => TypeOK
  BY DEF Inv
<1>2. QED
  BY Invariance, <1>1, PTL

\* nghttp2 never holds a pointer into a message that belongs to another call or
\* to the pool.
THEOREM ProvidersStayLive ==
  ASSUME AnswersAfterRequest
  PROVE  Spec => []ProvidersLive
<1>1. Inv => ProvidersLive
  BY DEF Inv, Providers, ProvidersLive
<1>2. QED
  BY Invariance, <1>1, PTL

\* Every message is in the pool or belongs to one call, and an answered call has
\* returned its message (free_rpc).
THEOREM MessagesAreReturned ==
  ASSUME AnswersAfterRequest
  PROVE  Spec => []MessagesReturned
<1>1. Inv => MessagesReturned
  <2> SUFFICES ASSUME Inv PROVE MessagesReturned
    OBVIOUS
  <2>1. ASSUME NEW m \in Message
        PROVE  Cardinality({k \in Call : ds_map[k] = m}) =
                 (IF m \in pool THEN 0 ELSE 1)
    <3>1. CASE m \in pool
      <4>1. {k \in Call : ds_map[k] = m} = {}
        BY <3>1 DEF Inv, Ownership
      <4>2. QED
        BY <3>1, <4>1, FS_EmptySet
    <3>2. CASE m \notin pool
      <4>1. PICK k \in Call : ds_map[k] = m
        BY <3>2 DEF Inv, Ownership
      <4>2. m # NoMessage
        BY Http2Assumption
      <4>3. {l \in Call : ds_map[l] = m} = {k}
        BY <4>1, <4>2 DEF Inv, Ownership
      <4>4. QED
        BY <3>2, <4>3, FS_Singleton
    <3>3. QED
      BY <3>1, <3>2
  <2>2. \A k \in Call : client[k] \in {"idle", "ok", "error", "bare"} =>
          ds_map[k] = NoMessage /\ us_map[k] = NoMessage
    BY DEF Inv, Phases, Ownership
  <2>3. QED
    BY <2>1, <2>2 DEF MessagesReturned
<1>2. QED
  BY Invariance, <1>1, PTL

\* No callback ever misses the RPC of its stream (get_ds_rpc, get_us_rpc).
THEOREM LookupsNeverFail ==
  ASSUME AnswersAfterRequest
  PROVE  Spec => []LookupsSucceed
<1>1. Inv => LookupsSucceed
  BY DEF Inv
<1>2. QED
  BY Invariance, <1>1, PTL

-----------------------------------------------------------------------------
(* The relay implements Relay *)

\* Clients that have no answer.
Pending == {"idle", "asking", "asked", "cancelled"}

\* In a state of the invariant the abstract state of a call is decided by the
\* states of its client and of its service: no payload is garbled.
Views ==
  \A k \in Call :
    /\ RequestOf(k) = IF server[k] = "idle" THEN "none"
                      ELSE IF server[k] \in {"queued", "receiving"} THEN "asked"
                      ELSE "delivered"
    /\ ReplyOf(k) = IF server[k] \in {"ok", "error"} THEN server[k] ELSE "none"
    /\ SeenOf(k) = IF client[k] \in Pending THEN "none"
                   ELSE IF client[k] = "bare" THEN "garbled" ELSE client[k]

LEMMA InvViews == Inv => Views
<1> SUFFICES ASSUME Inv, NEW k \in Call
             PROVE  /\ RequestOf(k) = IF server[k] = "idle" THEN "none"
                       ELSE IF server[k] \in {"queued", "receiving"} THEN "asked"
                       ELSE "delivered"
                    /\ SeenOf(k) = IF client[k] \in Pending THEN "none"
                       ELSE IF client[k] = "bare" THEN "garbled" ELSE client[k]
  BY DEF Views, ReplyOf
<1>1. server[k] \in ServerState /\ client[k] \in ClientState
  BY DEF Inv, TypeOK
<1>2. server[k] \in {"received", "answering", "ok", "error"} =>
        received[k] = Units(k, RequestLen)
  BY DEF Inv, Requests
<1>3. /\ client[k] = "ok" => got[k] = Units(k, ResponseLen)
      /\ client[k] = "error" => got[k] = <<>>
  BY DEF Inv, Responses
<1>4. QED
  BY <1>1, <1>2, <1>3 DEF RequestOf, SeenOf, ServerState, ClientState, Pending

\* What a step does to the two sides of one call.
Changes(k, s, c) ==
  /\ server' = [server EXCEPT ![k] = s]
  /\ client' = [client EXCEPT ![k] = c]

SameViews(k) ==
  /\ RequestOf(k)' = RequestOf(k)
  /\ ReplyOf(k)' = ReplyOf(k)
  /\ SeenOf(k)' = SeenOf(k)

LEMMA StutterStep ==
  ASSUME \A k \in Call : SameViews(k)
  PROVE  UNCHANGED R!relayVars
  BY DEF R!relayVars, SameViews

LEMMA OthersSame ==
  ASSUME Inv, Views, Views', NEW k \in Call, NEW s, NEW c, Changes(k, s, c)
  PROVE  /\ \A l \in Call : l # k => SameViews(l)
         /\ server'[k] = s /\ client'[k] = c
<1>1. /\ server'[k] = s /\ client'[k] = c
      /\ \A l \in Call : l # k => server'[l] = server[l] /\ client'[l] = client[l]
  BY DEF Changes, Inv, TypeOK
<1>2. ASSUME NEW l \in Call, l # k
      PROVE  SameViews(l)
  BY <1>1, <1>2 DEF Views, SameViews
<1>3. QED
  BY <1>1, <1>2

\* A step that changes the request, the reply and the answer of one call.
LEMMA CallStep ==
  ASSUME NEW k \in Call, \A l \in Call : l # k => SameViews(l),
         \/ SameViews(k)
         \/ /\ RequestOf(k) = "none" /\ RequestOf(k)' \in {"asked", "delivered"}
            /\ ReplyOf(k)' = ReplyOf(k) /\ SeenOf(k)' = SeenOf(k)
         \/ /\ RequestOf(k) = "asked" /\ RequestOf(k)' = "delivered"
            /\ ReplyOf(k)' = ReplyOf(k) /\ SeenOf(k)' = SeenOf(k)
         \/ /\ RequestOf(k) = "delivered" /\ RequestOf(k)' = "delivered"
            /\ ReplyOf(k) = "none" /\ ReplyOf(k)' \in R!Answer
            /\ SeenOf(k)' \in {SeenOf(k), ReplyOf(k)'}
         \/ /\ RequestOf(k)' = RequestOf(k) /\ ReplyOf(k)' = ReplyOf(k)
            /\ ReplyOf(k) # "none"
            /\ SeenOf(k) = "none" /\ SeenOf(k)' = ReplyOf(k)
  PROVE  R!Next \/ UNCHANGED R!relayVars
<1> DEFINE request == [l \in Call |-> RequestOf(l)]
           reply == [l \in Call |-> ReplyOf(l)]
           seen == [l \in Call |-> SeenOf(l)]
<1>1. CASE SameViews(k)
  BY <1>1, StutterStep
<1>2. CASE /\ RequestOf(k) = "none" /\ RequestOf(k)' \in {"asked", "delivered"}
           /\ ReplyOf(k)' = ReplyOf(k) /\ SeenOf(k)' = SeenOf(k)
  <2>1. request' \in {[request EXCEPT ![k] = "asked"],
                      [request EXCEPT ![k] = "delivered"]}
    BY <1>2 DEF SameViews
  <2>2. UNCHANGED <<reply, seen>>
    BY <1>2 DEF SameViews
  <2>3. R!Ask(k)
    BY <1>2, <2>1, <2>2 DEF R!Ask
  <2>4. QED
    BY <2>3 DEF R!Next
<1>3. CASE /\ RequestOf(k) = "asked" /\ RequestOf(k)' = "delivered"
           /\ ReplyOf(k)' = ReplyOf(k) /\ SeenOf(k)' = SeenOf(k)
  <2>1. R!Deliver(k)
    BY <1>3 DEF R!Deliver, SameViews
  <2>2. QED
    BY <2>1 DEF R!Next
<1>4. CASE /\ RequestOf(k) = "delivered" /\ RequestOf(k)' = "delivered"
           /\ ReplyOf(k) = "none" /\ ReplyOf(k)' \in R!Answer
           /\ SeenOf(k)' \in {SeenOf(k), ReplyOf(k)'}
  <2>1. PICK v \in R!Answer : v = ReplyOf(k)'
    BY <1>4
  <2>2. reply' = [reply EXCEPT ![k] = v] /\ UNCHANGED request
    BY <1>4, <2>1 DEF SameViews
  <2>3. seen' \in {seen, [seen EXCEPT ![k] = v]}
    BY <1>4, <2>1 DEF SameViews
  <2>4. R!Reply(k, v)
    BY <1>4, <2>2, <2>3 DEF R!Reply
  <2>5. QED
    BY <2>4 DEF R!Next
<1>5. CASE /\ RequestOf(k)' = RequestOf(k) /\ ReplyOf(k)' = ReplyOf(k)
           /\ ReplyOf(k) # "none"
           /\ SeenOf(k) = "none" /\ SeenOf(k)' = ReplyOf(k)
  <2>1. R!Return(k)
    BY <1>5 DEF R!Return, SameViews
  <2>2. QED
    BY <2>1 DEF R!Next
<1>6. QED
  BY <1>1, <1>2, <1>3, <1>4, <1>5

\* The steps of the two sides of a call that implement a step of Relay.
Simulated(s, c, s1, c1) ==
  \/ s1 = s /\ c \in Pending /\ c1 \in Pending
  \/ /\ s = "idle" /\ s1 \in {"queued", "receiving", "received"}
     /\ c \in Pending /\ c1 \in Pending
  \/ /\ s \in {"queued", "receiving"} /\ s1 \in {"receiving", "received"}
     /\ c \in Pending /\ c1 \in Pending
  \/ s = "received" /\ s1 = "answering" /\ c \in Pending /\ c1 \in Pending
  \/ /\ s \in {"received", "answering"} /\ s1 \in {"ok", "error"}
     /\ c \in Pending /\ (c1 \in Pending \/ c1 = s1)
  \/ s = "ok" /\ s1 = "ok" /\ c \in Pending /\ c1 = "ok"

LEMMA Simulation ==
  ASSUME Inv, Inv', NEW k \in Call, NEW s, NEW c, Changes(k, s, c),
         Simulated(server[k], client[k], s, c)
  PROVE  R!Next \/ UNCHANGED R!relayVars
<1>1. Views /\ Views'
  <2>1. Inv' => Views'
    BY InvViews, PTL
  <2>2. QED
    BY <2>1, InvViews
<1>2. /\ \A l \in Call : l # k => SameViews(l)
      /\ server'[k] = s /\ client'[k] = c
  BY <1>1, OthersSame
<1>3. /\ RequestOf(k) = IF server[k] = "idle" THEN "none"
                        ELSE IF server[k] \in {"queued", "receiving"} THEN "asked"
                        ELSE "delivered"
      /\ ReplyOf(k) = IF server[k] \in {"ok", "error"} THEN server[k] ELSE "none"
      /\ SeenOf(k) = IF client[k] \in Pending THEN "none"
                     ELSE IF client[k] = "bare" THEN "garbled" ELSE client[k]
  BY <1>1 DEF Views
<1>4. /\ RequestOf(k)' = IF s = "idle" THEN "none"
                         ELSE IF s \in {"queued", "receiving"} THEN "asked"
                         ELSE "delivered"
      /\ ReplyOf(k)' = IF s \in {"ok", "error"} THEN s ELSE "none"
      /\ SeenOf(k)' = IF c \in Pending THEN "none"
                      ELSE IF c = "bare" THEN "garbled" ELSE c
  BY <1>1, <1>2 DEF Views
<1>5. \/ SameViews(k)
      \/ /\ RequestOf(k) = "none" /\ RequestOf(k)' \in {"asked", "delivered"}
         /\ ReplyOf(k)' = ReplyOf(k) /\ SeenOf(k)' = SeenOf(k)
      \/ /\ RequestOf(k) = "asked" /\ RequestOf(k)' = "delivered"
         /\ ReplyOf(k)' = ReplyOf(k) /\ SeenOf(k)' = SeenOf(k)
      \/ /\ RequestOf(k) = "delivered" /\ RequestOf(k)' = "delivered"
         /\ ReplyOf(k) = "none" /\ ReplyOf(k)' \in R!Answer
         /\ SeenOf(k)' \in {SeenOf(k), ReplyOf(k)'}
      \/ /\ RequestOf(k)' = RequestOf(k) /\ ReplyOf(k)' = ReplyOf(k)
         /\ ReplyOf(k) # "none"
         /\ SeenOf(k) = "none" /\ SeenOf(k)' = ReplyOf(k)
  BY <1>3, <1>4 DEF Simulated, SameViews, R!Answer, Pending
<1>6. QED
  BY <1>2, <1>5, CallStep
\* A step of the two sides of call k that implements a step of Relay, and a step
\* of neither side of any call.
CallSimulated(k) ==
  \E s \in ServerState, c \in ClientState :
    Changes(k, s, c) /\ Simulated(server[k], client[k], s, c)
BothUnchanged == UNCHANGED <<server, client>>

LEMMA CallSimulation ==
  ASSUME Inv, Inv', NEW k \in Call, CallSimulated(k)
  PROVE  R!Next \/ UNCHANGED R!relayVars
<1>1. PICK s \in ServerState, c \in ClientState :
        Changes(k, s, c) /\ Simulated(server[k], client[k], s, c)
  BY DEF CallSimulated
<1>2. QED
  BY <1>1, Simulation

LEMMA UnchangedSimulation ==
  ASSUME Inv, Inv', BothUnchanged
  PROVE  R!Next \/ UNCHANGED R!relayVars
<1>1. Views /\ Views'
  <2>1. Inv' => Views'
    BY InvViews, PTL
  <2>2. QED
    BY <2>1, InvViews
<1>2. ASSUME NEW k \in Call
      PROVE  SameViews(k)
  BY <1>1 DEF Views, SameViews, BothUnchanged
<1>3. QED
  BY <1>2, StutterStep

LEMMA BeginRequestSim ==
  ASSUME Inv, NEW k \in Call, BeginRequest(k)
  PROVE  BothUnchanged \/ CallSimulated(k)
<1>1. CASE pool = {}
  BY <1>1 DEF BeginRequest, Fatal, peerVars, BothUnchanged
<1>2. CASE pool # {}
  <2>1. /\ client' = [client EXCEPT ![k] = "asking"] /\ server' = server
        /\ client[k] = "idle"
    BY <1>2 DEF BeginRequest
  <2>2. server' = [server EXCEPT ![k] = server[k]] /\ server[k] \in ServerState
    BY <2>1 DEF Inv, TypeOK
  <2>3. QED
    BY <2>1, <2>2 DEF CallSimulated, Changes, Simulated, Pending, ClientState
<1>3. QED
  BY <1>1, <1>2

LEMMA RequestSentSim ==
  ASSUME Inv, NEW k \in Call, NEW m \in Message, m = ds_map[k], m # NoMessage,
         NEW n \in Nat, server[k] \in {"idle", "queued", "receiving"},
         client[k] \in {"asking", "asked", "cancelled"},
         uploaded[k] = RequestLen, RequestCallback(k, m, n),
         client' = [client EXCEPT ![k] = IF @ = "asking" THEN "asked" ELSE @]
  PROVE  CallSimulated(k)
<1>1. PICK s \in {"receiving", "received"} : server' = [server EXCEPT ![k] = s]
  BY DEF RequestCallback
<1>2. PICK c \in {"asked", "cancelled"} : client' = [client EXCEPT ![k] = c]
  BY DEF Inv, TypeOK
<1>3. Changes(k, s, c)
  BY <1>1, <1>2 DEF Changes
<1>4. Simulated(server[k], client[k], s, c)
  BY <1>1, <1>2 DEF Simulated, Pending
<1>5. QED
  BY <1>3, <1>4 DEF CallSimulated, ServerState, ClientState

LEMMA ForwardRequestSim ==
  ASSUME Inv, NEW k \in Call, NEW n \in Nat, ds_map[k] # NoMessage,
         server[k] \in {"idle", "queued"},
         client[k] \in {"asking", "asked", "cancelled"},
         uploaded[k] = RequestLen, ForwardRequest(k, n)
  PROVE  BothUnchanged \/ CallSimulated(k)
<1>1. CASE TypeOf(k) \notin up
  BY <1>1 DEF ForwardRequest, Fatal, peerVars, BothUnchanged
<1>2. CASE TypeOf(k) \in up
  <2>1. PICK m \in Message : m = ds_map[k]
    BY CallTyped
  <2>2. client' = [client EXCEPT ![k] = IF @ = "asking" THEN "asked" ELSE @]
    BY <1>2 DEF ForwardRequest
  <2>3. RequestCallback(k, m, n)
    BY <1>2, <2>1 DEF ForwardRequest
  <2>4. QED
    BY <2>1, <2>2, <2>3, RequestSentSim
<1>3. QED
  BY <1>1, <1>2

LEMMA RequestEndSim ==
  ASSUME Inv, NEW k \in Call, NEW n \in 0 .. RequestLen, RequestEnd(k, n)
  PROVE  BothUnchanged \/ CallSimulated(k)
<1>1. client[k] = "asking" /\ uploaded[k] = RequestLen
  BY DEF RequestEnd
<1>2. ds_map[k] # NoMessage /\ server[k] = "idle"
  BY <1>1 DEF Inv, Phases
<1>3. n \in Nat
  BY Http2Assumption
<1>4. CASE k \in Ingress
  <2>1. ForwardRequest(k, n)
    BY <1>2, <1>4 DEF RequestEnd
  <2>2. QED
    BY <1>1, <1>2, <1>3, <2>1, ForwardRequestSim
<1>5. CASE k \notin Ingress
  <2>1. Changes(k, "queued", "asked")
    BY <1>2, <1>5 DEF RequestEnd, Changes
  <2>2. Simulated(server[k], client[k], "queued", "asked")
    BY <1>1, <1>2 DEF Simulated, Pending
  <2>3. QED
    BY <2>1, <2>2 DEF CallSimulated, ServerState, ClientState
<1>6. QED
  BY <1>4, <1>5

LEMMA RecvCreditGrantSim ==
  ASSUME Inv, NEW k \in Call, NEW n \in 0 .. RequestLen, RecvCreditGrant(k, n)
  PROVE  BothUnchanged \/ CallSimulated(k)
<1>1. server[k] = "queued" /\ ForwardRequest(k, n)
  BY DEF RecvCreditGrant
<1>2. /\ ds_map[k] # NoMessage
      /\ client[k] \in {"asked", "cancelled"}
      /\ uploaded[k] = RequestLen
  BY <1>1 DEF Inv, Phases, Payloads, PayloadOf
<1>3. n \in Nat
  BY Http2Assumption
<1>4. QED
  BY <1>1, <1>2, <1>3, ForwardRequestSim

LEMMA ResumeRequestSim ==
  ASSUME Inv, NEW k \in Call, NEW n \in 0 .. RequestLen, ResumeRequest(k, n)
  PROVE  CallSimulated(k)
<1>1. source[k].req # NoMessage
  BY DEF ResumeRequest
<1>2. server[k] = "receiving" /\ source[k].req = us_map[k]
  BY <1>1 DEF Inv, Providers
<1>3. /\ us_map[k] = ds_map[k] /\ ds_map[k] # NoMessage
      /\ client[k] \in {"asked", "cancelled"}
      /\ uploaded[k] = RequestLen
  BY <1>2 DEF Inv, Phases, Ownership, Payloads, PayloadOf
<1>4. PICK m \in Message : m = ds_map[k]
  BY <1>3, CallTyped
<1>5. ~RequestLookupFails(m, n, us_map[k])
  BY <1>3 DEF RequestLookupFails
<1>6. RequestCallback(k, m, n) /\ client' = client
  BY <1>2, <1>3, <1>4, <1>5 DEF ResumeRequest
<1>7. client' = [client EXCEPT ![k] = IF @ = "asking" THEN "asked" ELSE @]
  BY <1>3, <1>6 DEF Inv, TypeOK
<1>8. n \in Nat
  BY Http2Assumption
<1>9. QED
  BY <1>2, <1>3, <1>4, <1>6, <1>7, <1>8, RequestSentSim

LEMMA CancelCallSim ==
  ASSUME Inv, NEW k \in Call, CancelCall(k)
  PROVE  CallSimulated(k)
<1>1. /\ client[k] \in {"asking", "asked"}
      /\ client' = [client EXCEPT ![k] = "cancelled"] /\ server' = server
  BY DEF CancelCall
<1>2. server' = [server EXCEPT ![k] = server[k]] /\ server[k] \in ServerState
  BY <1>1 DEF Inv, TypeOK
<1>3. QED
  BY <1>1, <1>2 DEF CallSimulated, Changes, Simulated, Pending, ClientState

LEMMA ResponseHeadersSim ==
  ASSUME AnswersAfterRequest, Inv, NEW k \in Call, ResponseHeaders(k)
  PROVE  CallSimulated(k)
<1>1. server[k] = "received"
  BY DEF ResponseHeaders, MayAnswer, AnswersAfterRequest
<1>2. us_map[k] # NoMessage /\ client[k] \in {"asked", "cancelled"}
  BY <1>1 DEF Inv, Phases
<1>3. server' = [server EXCEPT ![k] = "answering"] /\ client' = client
  BY <1>2 DEF ResponseHeaders
<1>4. client' = [client EXCEPT ![k] = client[k]]
  BY <1>3 DEF Inv, TypeOK
<1>5. Changes(k, "answering", client[k])
  BY <1>3, <1>4 DEF Changes
<1>6. Simulated(server[k], client[k], "answering", client[k])
  BY <1>1, <1>2 DEF Simulated, Pending
<1>7. QED
  BY <1>2, <1>5, <1>6 DEF CallSimulated, ServerState, ClientState

LEMMA ResponseSentSim ==
  ASSUME Inv, NEW k \in Call, NEW m \in Message, NEW n \in Nat,
         client[k] = "asked", server[k] \in {"answering", "ok"},
         ResponseCallback(k, m, n),
         server' = [server EXCEPT ![k] = "ok"]
  PROVE  CallSimulated(k)
<1>1. PICK c \in {"ok", "asked"} : client' = [client EXCEPT ![k] = c]
  BY DEF ResponseCallback, Inv, TypeOK
<1>2. Changes(k, "ok", c)
  BY <1>1 DEF Changes
<1>3. Simulated(server[k], client[k], "ok", c)
  BY <1>1 DEF Simulated, Pending
<1>4. QED
  BY <1>2, <1>3 DEF CallSimulated, ServerState, ClientState

LEMMA ResumeResponseSim ==
  ASSUME Inv, NEW k \in Call, NEW n \in 1 .. ResponseLen, ResumeResponse(k, n)
  PROVE  CallSimulated(k)
<1>1. source[k].res # NoMessage
  BY DEF ResumeResponse
<1>2. /\ client[k] = "asked" /\ server[k] = "ok"
      /\ source[k].res = ds_map[k] /\ ds_map[k] # NoMessage
  BY <1>1 DEF Inv, Providers
<1>3. PICK m \in Message : m = ds_map[k]
  BY <1>2, CallTyped
<1>4. ResponseCallback(k, m, n) /\ server' = server
  BY <1>2, <1>3 DEF ResumeResponse
<1>5. server' = [server EXCEPT ![k] = "ok"]
  BY <1>2, <1>4 DEF Inv, TypeOK
<1>6. n \in Nat
  BY Http2Assumption
<1>7. QED
  BY <1>2, <1>4, <1>5, <1>6, ResponseSentSim

LEMMA ResponseTrailersSim ==
  ASSUME ErrorsInOneFrame, Inv, NEW k \in Call, NEW n \in 0 .. ResponseLen,
         ResponseTrailers(k, n)
  PROVE  CallSimulated(k)
<1>1. server[k] = "answering" /\ produced[k] = ResponseLen /\ produced[k] # 0
  BY Http2Assumption DEF ResponseTrailers, ErrorsInOneFrame
<1>2. /\ us_map[k] = ds_map[k] /\ ds_map[k] # NoMessage
      /\ client[k] \in {"asked", "cancelled"}
  BY <1>1 DEF Inv, Phases, Ownership
<1>3. PICK m \in Message : m = ds_map[k]
  BY <1>2, CallTyped
<1>4. data[m].res # <<>>
  BY <1>1, <1>2, <1>3, CallTyped, UnitsZero, UnitsInjective
  DEF Inv, Payloads, PayloadOf
<1>5. ForwardResponse(k, m, n) /\ server' = [server EXCEPT ![k] = "ok"]
  BY <1>1, <1>2, <1>3, <1>4 DEF ResponseTrailers
<1>6. CASE client[k] = "asked"
  <2>1. ResponseCallback(k, m, n)
    BY <1>5, <1>6 DEF ForwardResponse
  <2>2. n \in Nat
    BY Http2Assumption
  <2>3. QED
    BY <1>1, <1>5, <1>6, <2>1, <2>2, ResponseSentSim
<1>7. CASE client[k] = "cancelled"
  <2>1. client' = [client EXCEPT ![k] = "cancelled"]
    BY <1>5, <1>7 DEF ForwardResponse, Inv, TypeOK
  <2>2. Changes(k, "ok", "cancelled")
    BY <1>5, <2>1 DEF Changes
  <2>3. Simulated(server[k], client[k], "ok", "cancelled")
    BY <1>1, <1>7 DEF Simulated, Pending
  <2>4. QED
    BY <2>2, <2>3 DEF CallSimulated, ServerState, ClientState
<1>8. QED
  BY <1>2, <1>6, <1>7

LEMMA TrailersOnlySim ==
  ASSUME AnswersAfterRequest, Inv, NEW k \in Call, TrailersOnly(k)
  PROVE  CallSimulated(k)
<1>1. server[k] = "received"
  BY DEF TrailersOnly, MayAnswer, AnswersAfterRequest
<1>2. us_map[k] # NoMessage /\ client[k] \in {"asked", "cancelled"}
  BY <1>1 DEF Inv, Phases
<1>3. /\ server' = [server EXCEPT ![k] = "error"]
      /\ client' = [client EXCEPT ![k] =
                      IF @ = "cancelled" THEN @ ELSE "error"]
  BY <1>2 DEF TrailersOnly, ForwardError
<1>4. PICK c \in {"cancelled", "error"} : client' = [client EXCEPT ![k] = c]
  BY <1>3
<1>5. Changes(k, "error", c)
  BY <1>3, <1>4 DEF Changes
<1>6. Simulated(server[k], client[k], "error", c)
  BY <1>1, <1>2, <1>4 DEF Simulated, Pending
<1>7. QED
  BY <1>4, <1>5, <1>6 DEF CallSimulated, ServerState, ClientState

\* Every step of the relay is a step of Relay or none.
LEMMA StepSimulation ==
  ASSUME AnswersAfterRequest, ErrorsInOneFrame, Inv, Inv', [Next]_http2Vars
  PROVE  R!Next \/ UNCHANGED R!relayVars
<1>1. CASE UNCHANGED http2Vars
  BY <1>1, UnchangedSimulation DEF http2Vars, peerVars, BothUnchanged
<1>2. ASSUME NEW k \in Call, DownstreamEvent(k)
      PROVE  BothUnchanged \/ CallSimulated(k)
  <2>1. CASE BeginRequest(k)
    BY <2>1, BeginRequestSim
  <2>2. CASE RequestData(k)
    BY <2>2 DEF RequestData, Fatal, peerVars, BothUnchanged
  <2>3. CASE CancelCall(k)
    BY <2>3, CancelCallSim
  <2>4. ASSUME NEW n \in 0 .. RequestLen, RequestEnd(k, n)
        PROVE  BothUnchanged \/ CallSimulated(k)
    BY <2>4, RequestEndSim
  <2>5. ASSUME NEW n \in 0 .. RequestLen, RecvCreditGrant(k, n)
        PROVE  BothUnchanged \/ CallSimulated(k)
    BY <2>5, RecvCreditGrantSim
  <2>6. ASSUME NEW n \in 1 .. ResponseLen, ResumeResponse(k, n)
        PROVE  CallSimulated(k)
    BY <2>6, ResumeResponseSim
  <2>7. QED
    BY <1>2, <2>1, <2>2, <2>3, <2>4, <2>5, <2>6 DEF DownstreamEvent
<1>3. ASSUME NEW k \in Call, UpstreamEvent(k)
      PROVE  BothUnchanged \/ CallSimulated(k)
  <2>1. ASSUME NEW n \in 0 .. RequestLen, ResumeRequest(k, n)
        PROVE  CallSimulated(k)
    BY <2>1, ResumeRequestSim
  <2>2. CASE ResponseHeaders(k)
    BY <2>2, ResponseHeadersSim
  <2>3. CASE ResponseData(k)
    BY <2>3 DEF ResponseData, Fatal, peerVars, BothUnchanged
  <2>4. ASSUME NEW n \in 0 .. ResponseLen, ResponseTrailers(k, n)
        PROVE  CallSimulated(k)
    BY <2>4, ResponseTrailersSim
  <2>5. CASE TrailersOnly(k)
    BY <2>5, TrailersOnlySim
  <2>6. QED
    BY <1>3, <2>1, <2>2, <2>3, <2>4, <2>5 DEF UpstreamEvent
<1>4. ASSUME NEW t \in Type, RecvSettings(t)
      PROVE  BothUnchanged
  BY <1>4 DEF RecvSettings, peerVars, BothUnchanged
<1>5. UNCHANGED http2Vars \/ BothUnchanged \/ \E k \in Call : CallSimulated(k)
  BY <1>2, <1>3, <1>4 DEF Next
<1>6. QED
  BY <1>1, <1>5, CallSimulation, UnchangedSimulation

\* The relay implements Relay (each request is delivered once and whole, each
\* client gets the answer to its own call) if the service answers only requests
\* it has received and sends an error as one HEADERS frame.
THEOREM ImplementsRelay ==
  ASSUME AnswersAfterRequest, ErrorsInOneFrame
  PROVE  Spec => RelaySpec
<1>1. Init => R!Init
  BY DEF Init, R!Init, RequestOf, ReplyOf, SeenOf
<1>2. Inv /\ Inv' /\ [Next]_http2Vars => [R!Next]_(R!relayVars)
  BY StepSimulation
<1>3. QED
  BY Invariance, <1>1, <1>2, PTL DEF Spec, RelaySpec, R!Spec
=============================================================================
