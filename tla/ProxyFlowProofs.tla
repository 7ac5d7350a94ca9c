--------------------------- MODULE ProxyFlowProofs ---------------------------
(***************************************************************************)
(* Proofs about ProxyFlow and SSERelay, for bodies, limits, streams and    *)
(* channels of any size.                                                   *)
(*                                                                         *)
(* The invariant has two halves that touch in one place: the goroutine of  *)
(* a streaming response works only while its exchange streams.             *)
(***************************************************************************)
EXTENDS ProxyFlow, TLAPS

-----------------------------------------------------------------------------
(***************************************************************************)
(* The inductive invariant: the streaming response                         *)
(***************************************************************************)
\* Every data line forwarded is with the assembler, in sseDataBuf, or skipped;
\* the copy has what has been forwarded, up to its limit.
LinesCounted ==
    /\ buf = Capped(forwarded)
    /\ fed + pend + skipped = IF isLLM THEN data ELSE 0

\* The fields of the record follow the lines, one after the other, and nothing
\* is forwarded between the two and the update of the row.
FieldsFollow ==
    /\ pc \in {"setDur", "endDur", "update", "endUpdate"} => size = forwarded
    /\ pc = "save" => row = None
    /\ pc \in {"save", "unrecorded"} \/ row # None

\* What is at the end in the row and in the exchange, when the database worked.
EndIsComplete ==
    /\ pc \in {"endLLM", "endPush", "done"} /\ clean =>
         row = [body |-> Capped(forwarded), size |-> forwarded]
    /\ pc \in {"endPush", "done"} /\ isLLM =>
         pend = 0 /\ (clean => exchange = fed)

\* The browsers are behind what the hub has read, and the hub behind the record.
PushesBehind ==
    /\ pushed.size <= size /\ pushed.dur <= dur
    /\ hub = "size" => pushed.dur <= hubDur /\ hubDur <= dur

RelayIInv ==
    /\ RelayTypeOK
    /\ RowFollowsClient
    /\ LinesCounted
    /\ FieldsFollow
    /\ EndIsComplete
    /\ PushesBehind

-----------------------------------------------------------------------------
(***************************************************************************)
(* The inductive invariant: the exchange                                   *)
(***************************************************************************)
FlowTypeOK ==
    /\ step \in Steps
    /\ asked \in 0 .. MaxBody /\ given \in 0 .. MaxBody
    /\ req \in Messages(ReqVersions) \cup {None}
    /\ res \in Messages(ResVersions) \cup {None}
    /\ rec \in Records \cup {None} /\ kept \in Records \cup {None}
    /\ wire \in Messages(ReqVersions) \cup {None}
    /\ reply \in Messages(ResVersions) \cup {None}
    /\ llm \in [req : ReqVersions, res : ResVersions] \cup {None}
    /\ queued \in BOOLEAN /\ failed \in BOOLEAN /\ late \in BOOLEAN
    /\ main \in {"serving", "draining", "drained", "closed"}

\* The record has the request goproxy holds, and that is the one the client has
\* sent until a user changes it.
RequestRecorded ==
    /\ step # "new" =>
         /\ req # None /\ rec # None
         /\ rec.req = [ver |-> req.ver, len |-> Stored(req.len)]
         /\ req.ver = "sent" => req.len = asked
    /\ step = "request" => req.ver = "sent"

\* The server gets the request goproxy holds, or the answer is the gate's.
ServerAsked ==
    /\ wire # None => wire = req
    /\ step \in {"new", "request", "upstream"} => wire = None
    /\ step \in Steps \ {"new", "request", "upstream", "failed"} /\ wire = None =>
         req.ver = "sent" /\ res.ver \in {"refused", "edited"}

\* From OnResponse on the record has the response, except for one the gate
\* refuses afterwards.
ResponseRecorded ==
    /\ step \in Steps \ {"new", "request", "upstream", "failed"} =>
         res # None /\ (res.ver = "upstream" => res.len = given)
    /\ step \in {"response", "record", "llm", "answer", "answered"} =>
         /\ rec.res # None
         /\ step = "response" \/ res.ver # "refused" =>
              rec.res = [ver |-> res.ver, len |-> Stored(res.len)]
         /\ wire = None => rec.res.ver \in {"refused", "edited"}
    /\ reply # None => reply = res /\ step = "answered"

\* A row is the record, which does not change any more; an answered exchange has
\* one, waits for one, or has met a failure.
RowIsRecord ==
    /\ kept # None => kept = rec /\ step \in {"llm", "answer", "answered"}
    /\ step = "llm" => kept # None
    /\ llm # None => kept # None /\ llm.res = rec.res.ver /\ step \in {"answer", "answered"}
    /\ queued => step \in {"answer", "answered"}
    /\ step \in {"answer", "answered"} => failed \/ queued \/ kept # None

\* Once the batch writer is stopped nothing is queued, and what has not settled
\* is late.
ShutdownInOrder ==
    main \in {"drained", "closed"} => ~queued /\ (late \/ Settled)

\* Where the two halves touch.
RelayInStream == pc # "save" => step = "stream"

FlowIInv ==
    /\ FlowTypeOK
    /\ RequestRecorded
    /\ ServerAsked
    /\ ResponseRecorded
    /\ RowIsRecord
    /\ ShutdownInOrder
    /\ RelayInStream

IInv == RelayIInv /\ FlowIInv

-----------------------------------------------------------------------------
(***************************************************************************)
(* The streaming response: every step of it preserves its half             *)
(***************************************************************************)
\* captureBuf: what is cut at its limit is within it, now and one line later.
LEMMA CappedBound ==
    ASSUME NEW n \in Nat
    PROVE  /\ Capped(n) \in 0 .. BufLines /\ Capped(n) <= n
           /\ Capped(Capped(n) + 1) = Capped(n + 1)
BY RelayAssumption DEF Capped

\* None of the three counters of data lines exceeds the number of data lines.
LEMMA PartsBound ==
    ASSUME NEW a \in Nat, NEW b \in Nat, NEW c \in Nat, NEW n \in Nat, NEW B,
           a + b + c = IF B THEN n ELSE 0
    PROVE  a <= n /\ b <= n /\ c <= n
OBVIOUS

\* The 0, the new record and an empty stream.
LEMMA RelayInitOK == RelayInit => RelayIInv
BY RelayAssumption, SMTT(30)
   DEF RelayInit, RelayIInv, RelayTypeOK, RowFollowsClient, LinesCounted, FieldsFollow,
       EndIsComplete, PushesBehind, Capped, Ended

\* All of it is about the stream's own variables.
LEMMA RelayStutter == RelayIInv /\ UNCHANGED relayVars => RelayIInv'
BY SMTT(30) DEF RelayIInv, RelayTypeOK, RowFollowsClient, LinesCounted, FieldsFollow,
       EndIsComplete, PushesBehind, Capped, relayVars, stream, copy, fields, stored, hubSt

\* handleSSEResponse before its goroutine, and the steps that only move on.
LEMMA RelayMovesOK ==
    ASSUME RelayIInv, Save \/ Announce \/ Push \/ ScanEnds \/ StreamOver \/ Hangup
    PROVE  RelayIInv'
<1> USE RelayAssumption
        DEF RelayIInv, RelayTypeOK, RowFollowsClient, LinesCounted, FieldsFollow,
            EndIsComplete, PushesBehind, Capped, Ended,
            stream, copy, fields, stored, hubSt
<1>1. CASE Save
  <2>1. \A m, n \in Nat : [body |-> m, size |-> n] # None
    OBVIOUS
  <2> QED
    BY <1>1, <2>1, SMTT(30) DEF Save
<1>2. CASE Announce
  BY <1>2, SMTT(30) DEF Announce, OnCapture
<1>3. CASE Push
  BY <1>3, SMTT(30) DEF Push, OnCapture
<1>4. CASE ScanEnds
  BY <1>4, SMTT(30) DEF ScanEnds
<1>5. CASE StreamOver
  BY <1>5, SMTT(30) DEF StreamOver
<1>6. CASE Hangup
  BY <1>6, SMTT(30) DEF Hangup
<1> QED
  BY <1>1, <1>2, <1>3, <1>4, <1>5, <1>6

\* A line is counted where it goes: to the assembler, to sseDataBuf, or nowhere.
LEMMA WriteOK ==
    ASSUME RelayIInv, Write
    PROVE  RelayIInv'
<1> USE RelayAssumption
        DEF RelayIInv, RelayTypeOK, RowFollowsClient, LinesCounted, FieldsFollow,
            EndIsComplete, PushesBehind, Ended, stream, copy, fields, stored, hubSt
<1>1. CASE client # "reading"
  BY <1>1, SMTT(30) DEF Write
<1>2. CASE client = "reading"
  <2>1. PICK line \in {"data", "blank"} :
           data' = (IF line = "data" THEN data + 1 ELSE data) /\ Accumulate(line)
    BY <1>2 DEF Write
  <2>2. /\ forwarded' = forwarded + 1 /\ forwarded < MaxLines
        /\ buf' = Capped(buf + 1) /\ pc = "scan" /\ pc' \in {"scan", "setSize"}
        /\ UNCHANGED <<client, isLLM, size, dur, row, exchange, clean, updates, hub, hubDur, pushed>>
    BY <1>2 DEF Write
  <2>3. buf' = Capped(forwarded') /\ buf' \in 0 .. BufLines
    BY <2>2, CappedBound
  <2>4. /\ fed' \in Nat /\ pend' \in Nat /\ skipped' \in Nat /\ data' \in Nat /\ data' <= forwarded'
        /\ fed' + pend' + skipped' = IF isLLM' THEN data' ELSE 0
    BY <2>1, <2>2, SMTT(30) DEF Accumulate
  <2>5. fed' <= data' /\ pend' <= data' /\ skipped' <= data'
    <3> HIDE DEF RelayIInv
    <3> QED
      BY <2>4, PartsBound
  <2>6. RelayTypeOK'
    <3> HIDE DEF RowFollowsClient, FieldsFollow, EndIsComplete, PushesBehind, LinesCounted
    <3> QED
      BY <2>2, <2>3, <2>4, <2>5, SMTT(30)
  <2>7. LinesCounted'
    BY <2>3, <2>4
  <2>8. RowFollowsClient' /\ FieldsFollow' /\ EndIsComplete' /\ PushesBehind'
    BY <2>2, SMTT(30) DEF Capped
  <2> QED
    BY <2>6, <2>7, <2>8
<1> QED
  BY <1>1, <1>2

\* The fields, the row and the exchange are brought up to date.
LEMMA RelayUpdatesOK ==
    ASSUME RelayIInv, SetSize \/ SetDur \/ Update \/ SaveExchange
    PROVE  RelayIInv'
<1> USE RelayAssumption
        DEF RelayIInv, RelayTypeOK, RowFollowsClient, LinesCounted, FieldsFollow,
            EndIsComplete, PushesBehind, Ended, stream, copy, fields, stored, hubSt
<1>1. CASE SetSize
  BY <1>1, SMTT(30) DEF SetSize
<1>2. CASE SetDur
  BY <1>2, SMTT(30) DEF SetDur
<1>3. CASE Update
  <2>1. \A m, n \in Nat : [body |-> m, size |-> n] # None
    OBVIOUS
  <2>2. \/ row' = [body |-> buf, size |-> size] /\ clean' = clean
        \/ row' = row /\ clean' = FALSE
    BY <1>3 DEF Update
  <2>3. /\ pc \in {"update", "endUpdate"}
        /\ pc' = IF pc = "update" THEN "push" ELSE "endLLM"
        /\ UNCHANGED <<stream, copy, fields, exchange, updates, hubSt>>
    BY <1>3 DEF Update
  <2>4. /\ size \in Nat /\ buf \in Nat /\ size = forwarded /\ buf = Capped(size)
        /\ size <= forwarded /\ forwarded <= MaxLines /\ buf <= BufLines
    BY <2>3
  <2>5. RelayTypeOK'
    <3>1. row' \in [body : 0 .. BufLines, size : 0 .. MaxLines] \cup {None}
      BY <2>2, <2>4
    <3>2. clean' \in BOOLEAN
      BY <2>2
    <3> QED
      BY <2>3, <2>4, <3>1, <3>2
  <2>6. RowFollowsClient' /\ LinesCounted'
    BY <2>2, <2>3, <2>4, SMTT(30) DEF Capped
  <2>7. FieldsFollow' /\ PushesBehind'
    BY <2>1, <2>2, <2>3, <2>4, SMTT(30)
  <2>8. EndIsComplete'
    BY <2>2, <2>3, <2>4, SMTT(30) DEF Capped
  <2> QED
    BY <2>5, <2>6, <2>7, <2>8
<1>4. CASE SaveExchange
  <2>1. /\ pc = "endLLM" /\ pc' = "endPush"
        /\ UNCHANGED <<stream, forwarded, buf, data, skipped, fields, row, updates, hubSt>>
    BY <1>4 DEF SaveExchange
  <2>2. /\ fed' \in Nat /\ pend' \in Nat /\ fed' + pend' = fed + pend
        /\ isLLM => pend' = 0
    BY <1>4 DEF SaveExchange
  <2>3. fed' + pend' + skipped = IF isLLM THEN data ELSE 0
    BY <2>2
  <2> skipped \in Nat /\ data \in Nat /\ forwarded <= MaxLines /\ data <= forwarded
    OBVIOUS
  <2>4. fed' <= data /\ pend' <= data
    <3> HIDE DEF RelayIInv
    <3> QED
      BY <2>2, <2>3, PartsBound
  <2>5. \/ ~isLLM /\ exchange' = exchange /\ clean' = clean
        \/ isLLM /\ exchange' = fed' /\ clean' = clean
        \/ isLLM /\ exchange' = exchange /\ clean' = FALSE
    BY <1>4 DEF SaveExchange
  <2>6. RelayTypeOK'
    <3>1. exchange' \in 0 .. MaxLines \cup {None} /\ clean' \in BOOLEAN
      <4>1. fed' \in 0 .. MaxLines
        BY <2>2, <2>4
      <4> QED
        BY <2>5, <4>1
    <3> QED
      BY <2>1, <2>2, <2>4, <3>1
  <2>7. RowFollowsClient' /\ FieldsFollow' /\ PushesBehind'
    BY <2>1 DEF Capped
  <2>8. LinesCounted'
    BY <2>1, <2>3 DEF Capped
  <2>9. EndIsComplete'
    BY <2>1, <2>2, <2>5 DEF Capped
  <2> QED
    BY <2>6, <2>7, <2>8, <2>9
<1> QED
  BY <1>1, <1>2, <1>3, <1>4

\* What the hub reads of the record is not older than what it sent last.
LEMMA HubOK ==
    ASSUME RelayIInv, HubReads \/ HubSends
    PROVE  RelayIInv'
<1> USE DEF RelayIInv, stream, copy, fields, stored, hubSt
<1>1. RowFollowsClient' /\ LinesCounted' /\ FieldsFollow' /\ EndIsComplete'
  BY DEF HubReads, HubSends, RowFollowsClient, LinesCounted, FieldsFollow, EndIsComplete, Capped
<1>2. RelayTypeOK' /\ PushesBehind'
  <2>1. CASE HubReads
    BY <2>1, RelayAssumption, SMTT(30) DEF HubReads, RelayTypeOK, PushesBehind, Ended
  <2>2. CASE HubSends
    BY <2>2, RelayAssumption, SMTT(30) DEF HubSends, RelayTypeOK, PushesBehind, Ended
  <2> QED
    BY <2>1, <2>2
<1> QED
  BY <1>1, <1>2

\* The goroutine, the server, the client and the hub.
LEMMA RelayStepOK ==
    ASSUME RelayIInv, Relay \/ StreamOver \/ Hangup \/ HubReads \/ HubSends
    PROVE  RelayIInv'
BY RelayMovesOK, WriteOK, RelayUpdatesOK, HubOK DEF Relay

-----------------------------------------------------------------------------
(***************************************************************************)
(* The exchange: every step of it preserves its half                       *)
(***************************************************************************)
\* The program with no exchange yet.
LEMMA FlowInitOK == Init => IInv
<1> SUFFICES ASSUME Init PROVE RelayIInv /\ FlowIInv
  BY DEF IInv
<1>1. RelayIInv
  BY RelayInitOK DEF Init
<1>2. FlowIInv
  <2>1. FlowTypeOK
    <3>1. asked \in 0 .. MaxBody /\ given \in 0 .. MaxBody
      BY FlowAssumption DEF Init
    <3>2. queued \in BOOLEAN /\ failed \in BOOLEAN /\ late \in BOOLEAN
      BY DEF Init
    <3>3. step \in Steps /\ main \in {"serving", "draining", "drained", "closed"}
      BY DEF Init, Steps
    <3> QED
      BY <3>1, <3>2, <3>3 DEF Init, FlowTypeOK
  <2>2. RequestRecorded /\ ServerAsked /\ ResponseRecorded /\ RowIsRecord
    BY DEF Init, RequestRecorded, ServerAsked, ResponseRecorded, RowIsRecord, Steps
  <2>3. ShutdownInOrder /\ RelayInStream
    BY DEF Init, ShutdownInOrder, RelayInStream, RelayInit
  <2> QED
    BY <2>1, <2>2, <2>3 DEF FlowIInv
<1> QED
  BY <1>1, <1>2

\* What readBodyBounded keeps.
LEMMA StoredBound == ASSUME NEW n \in 0 .. MaxBody PROVE Stored(n) \in 0 .. Limit
BY FlowAssumption DEF Stored

\* A message or a record is not nil.
LEMMA NotNil ==
    /\ \A m \in Messages(ReqVersions) \cup Messages(ResVersions) : m # None
    /\ \A m \in Copies(ResVersions) : m # None
    /\ \A r \in Records : r # None
<1>1. Copies(ResVersions) \subseteq Messages(ResVersions)
  BY FlowAssumption DEF Copies, Messages
<1> QED
  BY <1>1, NilAssumption

\* The record with another response and another flag.
WithRes(r, c, t) == [r EXCEPT !.res = c, !.truncated = t]

LEMMA WithResponse ==
    ASSUME NEW r \in Records, NEW c \in Copies(ResVersions), NEW t \in BOOLEAN
    PROVE  /\ WithRes(r, c, t) \in Records
           /\ WithRes(r, c, t).req = r.req /\ WithRes(r, c, t).res = c
BY DEF Records, WithRes

\* OnRequest makes the record; nothing else of the exchange is there yet.
LEMMA OnRequestOK ==
    ASSUME FlowIInv, OnRequest
    PROVE  FlowIInv'
<1>1. rec' \in Records
  BY StoredBound DEF OnRequest, FlowIInv, FlowTypeOK, Records, Copies, ReqVersions
<1>2. req' \in Messages(ReqVersions)
  BY DEF OnRequest, FlowIInv, FlowTypeOK, Messages, ReqVersions
<1> USE <1>1, <1>2, NotNil
        DEF OnRequest, FlowIInv, FlowTypeOK, Steps, passed, saved, relayVars
<1>3. FlowTypeOK'
  OBVIOUS
<1>4. RequestRecorded' /\ ServerAsked' /\ ResponseRecorded'
  BY DEF RequestRecorded, ServerAsked, ResponseRecorded
<1>5. RowIsRecord' /\ RelayInStream'
  BY DEF RowIsRecord, RelayInStream
<1>6. ShutdownInOrder'
  BY DEF ShutdownInOrder
<1> QED
  BY <1>3, <1>4, <1>5, <1>6

\* The gate and a request: passed, changed by a user, or answered by the gate.
LEMMA GateRequestOK ==
    ASSUME FlowIInv, RequestPasses \/ RequestEdited \/ RequestRefused
    PROVE  FlowIInv'
<1> USE NotNil
        DEF FlowIInv, FlowTypeOK, Steps, message, passed, saved, shutdown, relayVars, stream
<1>1. /\ step = "request" /\ req \in Messages(ReqVersions) /\ rec \in Records
      /\ wire = None /\ reply = None /\ kept = None /\ llm = None /\ ~queued
      /\ UNCHANGED <<asked, given, wire, reply, queued, kept, llm, failed, main, late, pc, client>>
  BY DEF RequestPasses, RequestEdited, RequestRefused, RequestRecorded, ServerAsked,
         ResponseRecorded, RowIsRecord
<1>2. CASE RequestPasses
  BY <1>1, <1>2
     DEF RequestPasses, RequestRecorded, ServerAsked, ResponseRecorded, RowIsRecord,
         ShutdownInOrder, Settled, Over, RelayInStream
<1>3. CASE RequestEdited
  <2>1. PICK n \in 0 .. MaxBody :
           /\ req' = [ver |-> "edited", len |-> n]
           /\ rec' = [rec EXCEPT !.req = [ver |-> "edited", len |-> Stored(n)]]
    BY <1>1, <1>3, FlowAssumption DEF RequestEdited, Messages
  <2>2. /\ req' \in Messages(ReqVersions) /\ req'.ver = "edited" /\ req'.len = n
        /\ rec' \in Records /\ rec'.req = [ver |-> "edited", len |-> Stored(n)]
    BY <1>1, <2>1, StoredBound DEF Messages, ReqVersions, Records, Copies
  <2>3. step' = "upstream" /\ res' = res
    BY <1>3 DEF RequestEdited
  <2> QED
    BY <1>1, <2>2, <2>3
       DEF RequestRecorded, ServerAsked, ResponseRecorded, RowIsRecord,
           ShutdownInOrder, Settled, Over, RelayInStream
<1>4. CASE RequestRefused
  <2>1. res' \in Messages(ResVersions) /\ res'.ver = "refused"
    BY <1>4, FlowAssumption DEF RequestRefused, Messages, ResVersions
  <2> QED
    BY <1>1, <1>4, <2>1
       DEF RequestRefused, RequestRecorded, ServerAsked, ResponseRecorded, RowIsRecord,
           ShutdownInOrder, Settled, Over, RelayInStream
<1> QED
  BY <1>2, <1>3, <1>4

\* The server gets what goproxy holds at that moment.
LEMMA RoundTripOK ==
    ASSUME FlowIInv, RoundTrip \/ RoundTripFails
    PROVE  FlowIInv'
<1> USE NotNil
        DEF FlowIInv, FlowTypeOK, Steps, message, passed, saved, shutdown, relayVars, stream
<1>1. /\ step = "upstream" /\ req \in Messages(ReqVersions)
      /\ wire = None /\ reply = None /\ kept = None /\ llm = None /\ ~queued
      /\ UNCHANGED <<asked, req, rec, reply, queued, kept, llm, failed, main, late, pc, client>>
  BY DEF RoundTrip, RoundTripFails, RequestRecorded, ServerAsked, ResponseRecorded, RowIsRecord
<1>2. CASE RoundTrip
  <2>1. res' \in Messages(ResVersions) /\ res'.len = given' /\ res'.ver = "upstream"
    BY <1>2 DEF RoundTrip, Messages, ResVersions
  <2> QED
    BY <1>1, <1>2, <2>1
       DEF RoundTrip, RequestRecorded, ServerAsked, ResponseRecorded, RowIsRecord,
           ShutdownInOrder, Settled, Over, RelayInStream
<1>3. CASE RoundTripFails
  BY <1>1, <1>3
     DEF RoundTripFails, RequestRecorded, ServerAsked, ResponseRecorded, RowIsRecord,
         ShutdownInOrder, Settled, Over, RelayInStream
<1> QED
  BY <1>2, <1>3

\* isSSEResponse and OnResponse: the record gets the response as it is now.
LEMMA OnResponseOK ==
    ASSUME FlowIInv, Streams \/ OnResponse
    PROVE  FlowIInv'
<1> USE NotNil
        DEF FlowIInv, FlowTypeOK, Steps, message, passed, saved, shutdown, relayVars, stream
<1>1. /\ step = "respond" /\ res \in Messages(ResVersions)
      /\ req # None /\ rec \in Records /\ res.len \in 0 .. MaxBody /\ res.ver \in ResVersions
      /\ reply = None /\ kept = None /\ llm = None /\ ~queued
      /\ UNCHANGED <<asked, given, req, res, wire, reply, queued, kept, llm, failed, main, late, pc, client>>
  BY DEF Streams, OnResponse, RequestRecorded, ResponseRecorded, RowIsRecord, Messages
<1>2. CASE Streams
  BY <1>1, <1>2
     DEF Streams, RequestRecorded, ServerAsked, ResponseRecorded, RowIsRecord,
         ShutdownInOrder, Settled, Over, RelayInStream
<1>3. CASE OnResponse
  <2>1. /\ rec'.req = rec.req
        /\ rec'.res = [ver |-> res.ver, len |-> Stored(res.len)]
        /\ rec' \in Records
    <3> DEFINE c == [ver |-> res.ver, len |-> Stored(res.len)]
               t == IF res.len = 0 THEN rec.truncated ELSE res.len > Limit
    <3>1. c \in Copies(ResVersions)
      BY <1>1, StoredBound DEF Copies
    <3>2. t \in BOOLEAN
      <4>1. CASE res.len = 0
        BY <1>1, <4>1 DEF Records
      <4>2. CASE res.len # 0
        BY <4>2
      <4> QED
        BY <4>1, <4>2
    <3>3. rec' = WithRes(rec, c, t)
      BY <1>1, <1>3 DEF OnResponse, WithRes
    <3>4. rec \in Records
      BY <1>1
    <3> HIDE DEF t, FlowIInv, FlowTypeOK
    <3> QED
      BY <3>1, <3>2, <3>3, <3>4, WithResponse, Zenon
  <2>2. rec'.res # None /\ rec'.res.ver = res.ver
    BY <1>1, <2>1, StoredBound DEF Copies
  <2> QED
    BY <1>1, <1>3, <2>1, <2>2
       DEF OnResponse, RequestRecorded, ServerAsked, ResponseRecorded, RowIsRecord,
           ShutdownInOrder, Settled, Over, RelayInStream
<1> QED
  BY <1>2, <1>3

\* The gate and a response: passed, changed by a user, or replaced by the gate's.
LEMMA GateResponseOK ==
    ASSUME FlowIInv, ResponsePasses \/ ResponseEdited \/ ResponseRefused
    PROVE  FlowIInv'
<1> USE NotNil
        DEF FlowIInv, FlowTypeOK, Steps, message, passed, saved, shutdown, relayVars, stream
<1>1. /\ step = "response" /\ step' = "record"
      /\ res \in Messages(ResVersions) /\ req # None /\ rec \in Records
      /\ rec.res = [ver |-> res.ver, len |-> Stored(res.len)] /\ rec.res \in Copies(ResVersions)
      /\ reply = None /\ kept = None /\ llm = None /\ ~queued
      /\ UNCHANGED <<asked, given, req, wire, reply, queued, kept, llm, failed, main, late, pc, client>>
  BY DEF ResponsePasses, ResponseEdited, ResponseRefused, RequestRecorded, ResponseRecorded,
         RowIsRecord, Records
<1>2. CASE ResponsePasses
  BY <1>1, <1>2
     DEF ResponsePasses, RequestRecorded, ServerAsked, ResponseRecorded, RowIsRecord,
         ShutdownInOrder, Settled, Over, RelayInStream
<1>3. CASE ResponseEdited
  <2>1. /\ res' \in Messages(ResVersions) /\ res'.ver = "edited"
        /\ rec' \in Records /\ rec'.req = rec.req
        /\ rec'.res = [ver |-> res'.ver, len |-> Stored(res'.len)]
    <3>1. CASE res' = [res EXCEPT !.ver = "edited"] /\ rec' = [rec EXCEPT !.res.ver = "edited"]
      BY <1>1, <3>1 DEF Messages, Copies, Records, ResVersions
    <3>2. ASSUME NEW n \in 1 .. MaxBody,
                 res' = [ver |-> "edited", len |-> n],
                 rec' = [rec EXCEPT !.res = [ver |-> "edited", len |-> Stored(n)],
                                    !.truncated = n > Limit]
          PROVE  /\ res' \in Messages(ResVersions) /\ res'.ver = "edited"
                 /\ rec' \in Records /\ rec'.req = rec.req
                 /\ rec'.res = [ver |-> res'.ver, len |-> Stored(res'.len)]
      <4> DEFINE c == [ver |-> "edited", len |-> Stored(n)]
                 t == n > Limit
      <4>1. n \in 0 .. MaxBody /\ Stored(n) \in 0 .. Limit
        BY FlowAssumption, StoredBound
      <4>2. c \in Copies(ResVersions) /\ res' \in Messages(ResVersions)
        BY <3>2, <4>1 DEF Messages, Copies, ResVersions
      <4>3. t \in BOOLEAN
        OBVIOUS
      <4>4. rec' = WithRes(rec, c, t)
        BY <3>2 DEF WithRes
      <4>5. res'.ver = "edited" /\ res'.len = n
        BY <3>2
      <4>6. rec \in Records
        BY <1>1
      <4>7. rec' \in Records /\ rec'.req = rec.req /\ rec'.res = c
        <5> HIDE DEF t, c, FlowIInv, FlowTypeOK
        <5> QED
          BY <4>2, <4>3, <4>4, <4>6, WithResponse, Zenon
      <4> QED
        BY <4>2, <4>5, <4>7
    <3> QED
      BY <1>3, <3>1, <3>2 DEF ResponseEdited
  <2>2. rec'.res # None /\ rec'.res.ver = "edited"
    <3>1. res'.len \in 0 .. MaxBody /\ "edited" \in ResVersions
      BY <2>1 DEF Messages, ResVersions
    <3>2. [ver |-> "edited", len |-> Stored(res'.len)] \in Copies(ResVersions)
      BY <3>1, StoredBound DEF Copies
    <3> QED
      BY <2>1, <3>2
  <2> QED
    BY <1>1, <2>1, <2>2
       DEF RequestRecorded, ServerAsked, ResponseRecorded, RowIsRecord,
           ShutdownInOrder, Settled, Over, RelayInStream
<1>4. CASE ResponseRefused
  <2>1. res' \in Messages(ResVersions) /\ res'.ver = "refused" /\ rec' = rec
    BY <1>4, FlowAssumption DEF ResponseRefused, Messages, ResVersions
  <2> QED
    BY <1>1, <2>1
       DEF RequestRecorded, ServerAsked, ResponseRecorded, RowIsRecord,
           ShutdownInOrder, Settled, Over, RelayInStream
<1> QED
  BY <1>2, <1>3, <1>4

\* The three ways of saving, and the answer: a row is the record, or something is
\* queued, or a database call has failed.
LEMMA SavingOK ==
    ASSUME FlowIInv, Enqueue \/ Flush \/ SaveLLM \/ SetLLMData \/ Answer
    PROVE  FlowIInv'
<1> USE NotNil
        DEF FlowIInv, FlowTypeOK, Steps, message, passed, saved, shutdown, relayVars, stream,
            DbWorks, DbFails
<1>1. CASE Enqueue
  <2>1. /\ step = "record" /\ step' = "answer" /\ rec \in Records
        /\ kept = None /\ llm = None /\ reply = None /\ ~queued
        /\ UNCHANGED <<asked, given, req, res, rec, wire, reply, llm, main, late, pc, client>>
    BY <1>1 DEF Enqueue, RequestRecorded, ResponseRecorded, RowIsRecord
  <2>2. \/ main \in {"serving", "draining"} /\ queued' = TRUE /\ kept' = kept /\ failed' = failed
        \/ kept' = rec /\ queued' = queued /\ failed' = failed
        \/ failed' = TRUE /\ queued' = queued /\ kept' = kept
    BY <1>1 DEF Enqueue
  <2>3. /\ failed' \in BOOLEAN /\ queued' \in BOOLEAN /\ kept' \in Records \cup {None}
        /\ kept' \in {rec, None}
        /\ failed' \/ queued' \/ kept' # None
        /\ queued' => main \in {"serving", "draining"}
    <3>1. queued \in BOOLEAN /\ failed \in BOOLEAN
      OBVIOUS
    <3> HIDE DEF FlowIInv, FlowTypeOK
    <3>2. CASE main \in {"serving", "draining"} /\ queued' = TRUE /\ kept' = kept /\ failed' = failed
      BY <2>1, <3>1, <3>2
    <3>3. CASE kept' = rec /\ queued' = queued /\ failed' = failed
      BY <2>1, <3>1, <3>3
    <3>4. CASE failed' = TRUE /\ queued' = queued /\ kept' = kept
      BY <2>1, <3>1, <3>4
    <3> QED
      BY <2>2, <3>2, <3>3, <3>4
  <2>4. FlowTypeOK'
    BY <2>1, <2>3
  <2>5. RequestRecorded' /\ ServerAsked' /\ ResponseRecorded'
    BY <2>1, <2>3 DEF RequestRecorded, ServerAsked, ResponseRecorded
  <2>6. RowIsRecord'
    BY <2>1, <2>3 DEF RowIsRecord
  <2>7. ShutdownInOrder' /\ RelayInStream'
    BY <2>1, <2>3 DEF ShutdownInOrder, Settled, Over, RelayInStream
  <2> QED
    BY <2>4, <2>5, <2>6, <2>7
<1>2. CASE Flush
  <2>1. /\ queued /\ queued' = FALSE /\ step \in {"answer", "answered"} /\ rec \in Records
        /\ UNCHANGED <<step, asked, given, req, res, rec, wire, reply, llm, main, late, pc, client>>
    BY <1>2 DEF Flush, RequestRecorded, RowIsRecord
  <2>2. \/ kept' = rec /\ failed' = failed
        \/ failed' = TRUE /\ kept' = kept
    BY <1>2 DEF Flush
  <2>3. /\ failed' \in BOOLEAN /\ kept' \in {rec, kept}
        /\ failed' \/ kept' # None
        /\ kept # None => kept' = rec
    BY <2>1, <2>2 DEF RowIsRecord
  <2>4. FlowTypeOK'
    <3>1. kept' \in Records \cup {None} /\ queued' \in BOOLEAN
      BY <2>1, <2>3
    <3> QED
      BY <2>1, <2>3, <3>1
  <2>5. RequestRecorded' /\ ServerAsked' /\ ResponseRecorded'
    BY <2>1, <2>3 DEF RequestRecorded, ServerAsked, ResponseRecorded
  <2>6. RowIsRecord'
    BY <2>1, <2>3 DEF RowIsRecord
  <2>7. ShutdownInOrder' /\ RelayInStream'
    BY <2>1, <2>3 DEF ShutdownInOrder, Settled, Over, RelayInStream
  <2> QED
    BY <2>4, <2>5, <2>6, <2>7
<1>3. CASE SaveLLM
  <2>1. /\ step = "record" /\ rec \in Records
        /\ kept = None /\ llm = None /\ reply = None /\ ~queued
        /\ UNCHANGED <<asked, given, req, res, rec, wire, reply, queued, llm, main, late, pc, client>>
    BY <1>3 DEF SaveLLM, RequestRecorded, ResponseRecorded, RowIsRecord
  <2>2. \/ kept' = rec /\ failed' = failed /\ step' = "llm"
        \/ failed' = TRUE /\ kept' = kept /\ step' = "answer"
    BY <1>3 DEF SaveLLM
  <2>3. failed' \in BOOLEAN /\ kept' \in {rec, None} /\ step' \in {"llm", "answer"}
        /\ (step' = "llm" => kept' = rec) /\ (step' = "answer" => failed')
    BY <2>1, <2>2
  <2>4. FlowTypeOK'
    <3>1. kept' \in Records \cup {None} /\ step' \in Steps
      BY <2>1, <2>3
    <3> QED
      BY <2>1, <2>3, <3>1
  <2>5. RequestRecorded' /\ ServerAsked' /\ ResponseRecorded'
    BY <2>1, <2>3 DEF RequestRecorded, ServerAsked, ResponseRecorded
  <2>6. RowIsRecord'
    BY <2>1, <2>3 DEF RowIsRecord
  <2>7. ShutdownInOrder' /\ RelayInStream'
    BY <2>1, <2>3 DEF ShutdownInOrder, Settled, Over, RelayInStream
  <2> QED
    BY <2>4, <2>5, <2>6, <2>7
<1>4. CASE SetLLMData
  <2>1. /\ step = "llm" /\ step' = "answer" /\ kept # None /\ kept = rec /\ reply = None
        /\ ~queued /\ llm = None /\ rec \in Records /\ rec.res \in Copies(ResVersions)
        /\ UNCHANGED <<asked, given, req, res, rec, wire, reply, queued, kept, main, late, pc, client>>
    BY <1>4 DEF SetLLMData, RequestRecorded, ResponseRecorded, RowIsRecord, Records
  <2>2. \/ llm' = [req |-> "sent", res |-> rec.res.ver] /\ failed' = failed
        \/ failed' = TRUE /\ llm' = llm
    BY <1>4 DEF SetLLMData
  <2>3. /\ llm' \in [req : ReqVersions, res : ResVersions] \cup {None}
        /\ llm' # None => llm'.res = rec.res.ver
    BY <2>1, <2>2 DEF ReqVersions, Copies
  <2>4. failed' \in BOOLEAN
    BY <2>2
  <2> QED
    BY <2>1, <2>3, <2>4
       DEF RequestRecorded, ServerAsked, ResponseRecorded, RowIsRecord,
           ShutdownInOrder, Settled, Over, RelayInStream
<1>5. CASE Answer
  <2>1. /\ step = "answer" /\ step' = "answered" /\ reply' \in {res, None}
        /\ UNCHANGED <<asked, given, req, res, rec, wire, queued, kept, llm, failed, main, late, pc, client>>
    BY <1>5 DEF Answer
  <2> QED
    BY <2>1
       DEF RequestRecorded, ServerAsked, ResponseRecorded, RowIsRecord,
           ShutdownInOrder, Settled, Over, RelayInStream
<1> QED
  BY <1>1, <1>2, <1>3, <1>4, <1>5

\* The signal, the HTTP server's shutdown and the end.
LEMMA MainOK ==
    ASSUME FlowIInv, Shutdown \/ Main
    PROVE  FlowIInv'
<1> USE DEF FlowIInv, FlowTypeOK, message, passed, saved, relayVars, stream
<1>1. /\ main' \in {"draining", "drained", "closed"}
      /\ UNCHANGED <<step, asked, given, req, res, rec, wire, reply, queued, kept, llm, failed, pc, client>>
  BY DEF Shutdown, Main, Drain, Close
<1>2. late' \in BOOLEAN /\ ShutdownInOrder'
  <2>1. CASE Shutdown
    BY <2>1 DEF Shutdown, ShutdownInOrder
  <2>2. CASE Drain
    <3>1. CASE Settled
      BY <2>2, <3>1 DEF Drain, ShutdownInOrder, Settled
    <3>2. CASE ~Settled
      BY <2>2, <3>2 DEF Drain, ShutdownInOrder, Settled
    <3> QED
      BY <3>1, <3>2
  <2>3. CASE Close
    BY <2>3 DEF Close, ShutdownInOrder, Settled
  <2> QED
    BY <2>1, <2>2, <2>3 DEF Main
<1>3. FlowTypeOK'
  BY <1>1, <1>2
<1>4. RequestRecorded' /\ ServerAsked' /\ ResponseRecorded' /\ RowIsRecord' /\ RelayInStream'
  BY <1>1 DEF RequestRecorded, ServerAsked, ResponseRecorded, RowIsRecord, RelayInStream
<1> QED
  BY <1>2, <1>3, <1>4

\* A step of a stream leaves the exchange alone; one that has ended stays ended.
LEMMA StreamStepOK ==
    ASSUME FlowIInv, RelayStep \/ ServerStep \/ ClientLeaves \/ HubStep
    PROVE  FlowIInv'
<1>1. UNCHANGED Rest
  BY DEF RelayStep, ServerStep, ClientLeaves, HubStep
<1>2. /\ step # "stream" => UNCHANGED pc
      /\ pc \in Ended => UNCHANGED pc
      /\ client = "gone" => client' = "gone"
  <2> USE DEF Ended, stream
  <2>1. CASE RelayStep
    BY <2>1 DEF RelayStep, Relay, Save, Announce, ScanEnds, Write, SetSize, SetDur, Update, SaveExchange, Push
  <2>2. CASE ServerStep
    BY <2>2 DEF ServerStep, StreamOver
  <2>3. CASE ClientLeaves
    BY <2>3 DEF ClientLeaves, Hangup
  <2>4. CASE HubStep
    BY <2>4 DEF HubStep, HubReads, HubSends
  <2> QED
    BY <2>1, <2>2, <2>3, <2>4
<1> USE <1>1 DEF FlowIInv, Rest, message, passed, saved, shutdown
<1>3. FlowTypeOK'
  BY DEF FlowTypeOK
<1>4. RequestRecorded' /\ ServerAsked' /\ ResponseRecorded' /\ RowIsRecord'
  BY DEF RequestRecorded, ServerAsked, ResponseRecorded, RowIsRecord
<1>5. RelayInStream' /\ ShutdownInOrder'
  BY <1>2 DEF RelayInStream, ShutdownInOrder, Settled, FlowTypeOK
<1> QED
  BY <1>3, <1>4, <1>5

-----------------------------------------------------------------------------
(***************************************************************************)
(* The theorems                                                            *)
(***************************************************************************)
\* Each step belongs to one half and leaves the other alone.
LEMMA StepOK == IInv /\ [Next]_vars => IInv'
<1> SUFFICES ASSUME RelayIInv, FlowIInv, [Next]_vars
             PROVE  RelayIInv' /\ FlowIInv'
  BY DEF IInv
<1>1. CASE RelayStep \/ ServerStep \/ ClientLeaves \/ HubStep
  <2>1. Relay \/ StreamOver \/ Hangup \/ HubReads \/ HubSends
    BY <1>1 DEF RelayStep, ServerStep, ClientLeaves, HubStep
  <2> QED
    BY <1>1, <2>1, RelayStepOK, StreamStepOK
<1>2. CASE OnRequest
  BY <1>2, OnRequestOK, RelayStutter DEF OnRequest
<1>3. CASE Gate
  BY <1>3, GateRequestOK, GateResponseOK, RelayStutter
     DEF Gate, RequestPasses, RequestEdited, RequestRefused,
         ResponsePasses, ResponseEdited, ResponseRefused
<1>4. CASE RoundTrip \/ RoundTripFails
  BY <1>4, RoundTripOK, RelayStutter DEF RoundTrip, RoundTripFails
<1>5. CASE Handler \/ Flush
  BY <1>5, OnResponseOK, SavingOK, RelayStutter
     DEF Handler, Streams, OnResponse, Enqueue, Flush, SaveLLM, SetLLMData, Answer
<1>6. CASE Shutdown \/ Main
  BY <1>6, MainOK, RelayStutter DEF Shutdown, Main, Drain, Close
<1>7. CASE UNCHANGED vars
  <2>1. RelayIInv'
    BY <1>7, RelayStutter DEF vars
  <2>2. UNCHANGED <<step, asked, given, req, res, rec, wire, reply, queued, kept, llm,
                    failed, main, late, pc, client>>
    BY <1>7 DEF vars, message, passed, saved, shutdown, relayVars, stream
  <2>3. FlowIInv'
    BY <2>2 DEF FlowIInv, FlowTypeOK, RequestRecorded, ServerAsked, ResponseRecorded,
                RowIsRecord, ShutdownInOrder, Settled, RelayInStream
  <2> QED
    BY <2>1, <2>3
<1> QED
  BY <1>1, <1>2, <1>3, <1>4, <1>5, <1>6, <1>7 DEF Next

\* For every way of an exchange through the proxy, and every moment of a stream
\* and of the shutdown: the lines are accounted for, record and row follow what
\* goproxy holds, and nothing is queued behind a stopped writer.
THEOREM Invariance == Spec => []IInv
BY FlowInitOK, StepOK, PTL DEF Spec

\* handleSSEResponse: the types, and a row that never tells of more than the
\* client has been sent (proxy.go:493).
THEOREM Safety == Spec => []Inv
<1>1. IInv => Inv
  BY DEF IInv, Inv, TypeOK, RelayIInv, FlowIInv, FlowTypeOK
<1> QED
  BY <1>1, Invariance, PTL

\* The end of handleSSEResponse: a stream read to its end is complete in its row
\* and in its exchange, for any number of lines and any limits.
THEOREM StreamsAreComplete == Spec => []RecordIsComplete
<1>1. IInv => RecordIsComplete
  BY DEF IInv, RecordIsComplete, RelayIInv, RelayTypeOK, LinesCounted, EndIsComplete
<1> QED
  BY <1>1, Invariance, PTL

\* Nothing the browsers are told of a stream is taken back, although the hub
\* reads the record without its mutex.
THEOREM PushesAdvance == Spec => PushesGoForward
<1>1. IInv /\ [Next]_vars =>
        [pushed'.size >= pushed.size /\ pushed'.dur >= pushed.dur
           /\ pushed'.size <= forwarded]_relayVars
  <2> SUFFICES ASSUME IInv, [Next]_vars, relayVars' # relayVars
               PROVE  /\ pushed'.size >= pushed.size /\ pushed'.dur >= pushed.dur
                      /\ pushed'.size <= forwarded
    OBVIOUS
  <2>1. /\ pushed.size \in Nat /\ pushed.dur \in Nat /\ size \in 0 .. forwarded
        /\ hubDur \in Nat /\ forwarded \in Nat
        /\ pushed.size <= size
        /\ hub = "size" => pushed.dur <= hubDur
    BY RelayAssumption DEF IInv, RelayIInv, RelayTypeOK, PushesBehind
  <2>2. \/ pushed' = pushed
        \/ hub = "size" /\ pushed' = [size |-> size, dur |-> hubDur]
    BY DEF Next, vars, relayVars, hubSt, RelayStep, ServerStep, ClientLeaves, HubStep,
           OnRequest, Gate, RequestPasses, RequestEdited, RequestRefused,
           ResponsePasses, ResponseEdited, ResponseRefused, RoundTrip, RoundTripFails,
           Handler, Streams, OnResponse, Enqueue, Flush, SaveLLM, SetLLMData, Answer,
           Shutdown, Main, Drain, Close, Relay, Save, Announce, ScanEnds, Write, SetSize,
           SetDur, Update, SaveExchange, Push, StreamOver, Hangup, HubReads, HubSends
  <2> QED
    BY <2>1, <2>2
<1> QED
  BY <1>1, Invariance, PTL DEF Spec, PushesGoForward

\* OnRequest, OnResponse and storeFunc: whoever changes a message on the way, the
\* row says what the server was sent and the client was given, for bodies and
\* limits of any size.
THEOREM RowTellsWire == Spec => []RecordTellsWire
<1>1. IInv => RecordTellsWire
  BY DEF IInv, FlowIInv, FlowTypeOK, RecordTellsWire, RequestRecorded, ServerAsked,
         ResponseRecorded, RowIsRecord, Steps
<1> QED
  BY <1>1, Invariance, PTL

\* main's shutdown and Server.Stop: at the end of the program an answered exchange
\* has its row unless the database has failed, and a stream that was waited for
\* has ended.
THEOREM NothingAnsweredIsLost == Spec => []ExitKeepsAnswered
<1>1. IInv => ExitKeepsAnswered
  BY DEF IInv, FlowIInv, ExitKeepsAnswered, RowIsRecord, ShutdownInOrder, Settled, Over
<1> QED
  BY <1>1, Invariance, PTL
=============================================================================
