------------------------------ MODULE SSERelay ------------------------------
(***************************************************************************)
(* internal/proxy/proxy.go, handleSSEResponse: one streaming response.     *)
(* A goroutine reads it line by line, writes each line into the pipe the   *)
(* client reads, keeps a copy, and now and then updates the captured       *)
(* record, its row and the browsers.                                       *)
(*                                                                         *)
(* The record is shared: onCapture puts the pointer to it into the hub's   *)
(* updateCh, and the hub reads the fields later, without capturedMu.       *)
(*                                                                         *)
(* A line is "data" (the payload of an event) or "blank" (its end), and is *)
(* only counted.  The fields SizeBytes and DurationMs are represented by   *)
(* the number of lines the update that set them reports.                   *)
(***************************************************************************)
EXTENDS Naturals, Sequences

CONSTANTS
    MaxLines,   \* lines of the stream (bound)
    BufLines,   \* lines that fit into maxResBodyKB
    UpdateCap,  \* capacity of the hub's updateCh (256)
    None

ASSUME RelayAssumption ==
    /\ MaxLines \in Nat /\ BufLines \in Nat /\ UpdateCap \in Nat
    /\ None \notin Nat /\ None \notin [body : Nat, size : Nat]

VARIABLES
    pc,         \* where the goroutine is
    client,     \* "reading" or "gone"
    isLLM,      \* the request went to a known LLM provider
    forwarded,  \* lines written to the client
    buf,        \* lines in captureBuf
    pend,       \* data lines in sseDataBuf
    fed,        \* data lines the assembler has been fed
    data,       \* data lines forwarded
    skipped,    \* data lines that did not fit into sseDataBuf
    size, dur,  \* the fields of the record
    row,        \* None, or what the row has: [body, size]
    exchange,   \* None, or how many data lines the saved exchange has
    updates,    \* pointers in updateCh
    hub,        \* "idle", or "size": it has read DurationMs
    hubDur,     \* what it has read
    pushed,     \* the update sent to the browsers last, [size, dur]
    clean       \* no database call of the goroutine has failed

stream == <<client, isLLM>>
copy   == <<forwarded, buf, pend, fed, data, skipped>>
fields == <<size, dur>>
stored == <<row, exchange, clean>>
hubSt  == <<hub, hubDur, pushed>>
relayVars == <<pc, stream, copy, fields, stored, updates, hubSt>>

Capped(n) == IF n < BufLines THEN n ELSE BufLines

Ended == {"done", "aborted", "unrecorded"}

RelayTypeOK ==
    /\ pc \in {"save", "announce", "scan", "setSize", "setDur", "update",
               "push", "endSize", "endDur", "endUpdate", "endLLM", "endPush"} \cup Ended
    /\ client \in {"reading", "gone"}
    /\ isLLM \in BOOLEAN
    /\ forwarded \in 0 .. MaxLines /\ buf \in 0 .. BufLines
    /\ data \in 0 .. forwarded /\ fed \in 0 .. data /\ pend \in 0 .. data /\ skipped \in 0 .. data
    /\ size \in 0 .. forwarded /\ dur \in 0 .. forwarded
    /\ row \in [body : 0 .. BufLines, size : 0 .. MaxLines] \cup {None}
    /\ exchange \in 0 .. MaxLines \cup {None}
    /\ updates \in 0 .. UpdateCap
    /\ hub \in {"idle", "size"} /\ hubDur \in 0 .. MaxLines
    /\ pushed \in [size : 0 .. MaxLines, dur : 0 .. MaxLines]
    /\ clean \in BOOLEAN

RelayInit ==
    /\ pc = "save"
    /\ client = "reading"
    /\ isLLM \in BOOLEAN
    /\ forwarded = 0 /\ buf = 0 /\ pend = 0 /\ fed = 0 /\ data = 0 /\ skipped = 0
    /\ size = 0 /\ dur = 0
    /\ row = None /\ exchange = None /\ clean = TRUE
    /\ updates = 0
    /\ hub = "idle" /\ hubDur = 0 /\ pushed = [size |-> 0, dur |-> 0]

-----------------------------------------------------------------------------
(***************************************************************************)
(* The server and the client                                               *)
(***************************************************************************)
Hangup ==
    /\ client = "reading"
    /\ client' = "gone"
    /\ UNCHANGED <<pc, isLLM, copy, fields, stored, updates, hubSt>>

(***************************************************************************)
(* handleSSEResponse, up to the goroutine                                  *)
(***************************************************************************)
\* If the first save fails the response is passed through unrecorded.
Save ==
    /\ pc = "save"
    /\ \/ row' = [body |-> 0, size |-> 0] /\ pc' = "announce"
       \/ pc' = "unrecorded" /\ UNCHANGED row
    /\ UNCHANGED <<stream, copy, fields, exchange, clean, updates, hubSt>>

\* Fault: the update is sent without a default, and waits for room.
OnCapture_Waits == updates < UpdateCap /\ updates' = updates + 1

\* onCapture, for a streaming response with an id: BroadcastUpdate, which drops
\* the update when updateCh is full, be it of updates of other records.
OnCapture == updates' \in {updates} \cup (IF updates < UpdateCap THEN {updates + 1} ELSE {})

Announce ==
    /\ pc = "announce"
    /\ OnCapture
    /\ pc' = "scan"
    /\ UNCHANGED <<stream, copy, fields, stored, hubSt>>

(***************************************************************************)
(* The goroutine                                                           *)
(***************************************************************************)
\* The server has ended the stream, its connection has broken, or it has sent a
\* line of more than 1 MB, which the scanner does not take.
StreamOver ==
    /\ pc = "scan"
    /\ pc' = "endSize"
    /\ UNCHANGED <<stream, copy, fields, stored, updates, hubSt>>

\* The client's request is cancelled when the client goes away.
ScanEnds ==
    /\ pc = "scan" /\ client = "gone"
    /\ pc' = "endSize"
    /\ UNCHANGED <<stream, copy, fields, stored, updates, hubSt>>

\* The payload of an event for the assembler: a data line is added to
\* sseDataBuf unless it is full, a blank line feeds what is there.
Accumulate(line) ==
    \/ ~isLLM /\ UNCHANGED <<pend, fed, skipped>>
    \/ /\ isLLM /\ line = "data"
       /\ IF pend < BufLines THEN pend' = pend + 1 /\ UNCHANGED skipped
                             ELSE skipped' = skipped + 1 /\ UNCHANGED pend
       /\ UNCHANGED fed
    \/ /\ isLLM /\ line = "blank"
       /\ fed' = fed + pend /\ pend' = 0
       /\ UNCHANGED skipped

\* pw.Write waits for the client to read; when the client is gone it fails, and
\* the goroutine returns at once.  Otherwise the line is copied, and every half
\* second (after any line) an update follows.
Write ==
    /\ pc = "scan" /\ forwarded < MaxLines
    /\ IF client = "reading"
       THEN /\ \E line \in {"data", "blank"} :
                 /\ data' = IF line = "data" THEN data + 1 ELSE data
                 /\ Accumulate(line)
            /\ forwarded' = forwarded + 1
            /\ buf' = Capped(buf + 1)
            /\ pc' \in {"scan", "setSize"}
       ELSE pc' = "aborted" /\ UNCHANGED copy
    /\ UNCHANGED <<stream, fields, stored, updates, hubSt>>

\* Fault: the line that is being read is counted, too.
SetSize_Read ==
    /\ pc \in {"setSize", "endSize"}
    /\ size' = forwarded + 1
    /\ pc' = IF pc = "setSize" THEN "setDur" ELSE "endDur"
    /\ UNCHANGED <<stream, copy, dur, stored, updates, hubSt>>

SetSize ==
    /\ pc \in {"setSize", "endSize"}
    /\ size' = forwarded
    /\ pc' = IF pc = "setSize" THEN "setDur" ELSE "endDur"
    /\ UNCHANGED <<stream, copy, dur, stored, updates, hubSt>>

SetDur ==
    /\ pc \in {"setDur", "endDur"}
    /\ dur' = forwarded
    /\ pc' = IF pc = "setDur" THEN "update" ELSE "endUpdate"
    /\ UNCHANGED <<stream, copy, size, stored, updates, hubSt>>

\* Fault: the size in the row is left as it is.
Update_BodyOnly ==
    /\ pc \in {"update", "endUpdate"}
    /\ \/ row' = [row EXCEPT !.body = buf] /\ clean' = clean
       \/ UNCHANGED row /\ clean' = FALSE
    /\ pc' = IF pc = "update" THEN "push" ELSE "endLLM"
    /\ UNCHANGED <<stream, copy, fields, exchange, updates, hubSt>>

\* UpdateResBody; a failure is only logged.
Update ==
    /\ pc \in {"update", "endUpdate"}
    /\ \/ row' = [body |-> buf, size |-> size] /\ clean' = clean
       \/ UNCHANGED row /\ clean' = FALSE
    /\ pc' = IF pc = "update" THEN "push" ELSE "endLLM"
    /\ UNCHANGED <<stream, copy, fields, exchange, updates, hubSt>>

\* Fault: what is left in sseDataBuf at the end is not fed.
SaveExchange_NoFlush ==
    /\ pc = "endLLM"
    /\ IF isLLM
       THEN \/ exchange' = fed /\ UNCHANGED clean
            \/ UNCHANGED exchange /\ clean' = FALSE
       ELSE UNCHANGED <<exchange, clean>>
    /\ pc' = "endPush"
    /\ UNCHANGED <<stream, copy, fields, row, updates, hubSt>>

SaveExchange ==
    /\ pc = "endLLM"
    /\ IF isLLM
       THEN /\ fed' = fed + pend /\ pend' = 0
            /\ \/ exchange' = fed' /\ UNCHANGED clean
               \/ UNCHANGED exchange /\ clean' = FALSE
       ELSE UNCHANGED <<fed, pend, exchange, clean>>
    /\ pc' = "endPush"
    /\ UNCHANGED <<stream, forwarded, buf, data, skipped, fields, row, updates, hubSt>>

Push ==
    /\ pc \in {"push", "endPush"}
    /\ OnCapture
    /\ pc' = IF pc = "push" THEN "scan" ELSE "done"
    /\ UNCHANGED <<stream, copy, fields, stored, hubSt>>

(***************************************************************************)
(* The hub, for this record: json.Marshal reads DurationMs, then SizeBytes *)
(***************************************************************************)
HubReads ==
    /\ hub = "idle" /\ updates > 0
    /\ updates' = updates - 1
    /\ hubDur' = dur
    /\ hub' = "size"
    /\ UNCHANGED <<pc, stream, copy, fields, stored, pushed>>

HubSends ==
    /\ hub = "size"
    /\ pushed' = [size |-> size, dur |-> hubDur]
    /\ hub' = "idle" /\ hubDur' = 0
    /\ UNCHANGED <<pc, stream, copy, fields, stored, updates>>

Relay ==
    \/ Save \/ Announce \/ ScanEnds \/ Write
    \/ SetSize \/ SetDur \/ Update \/ SaveExchange \/ Push

-----------------------------------------------------------------------------
(***************************************************************************)
(* Properties                                                              *)
(***************************************************************************)
\* The row never tells of more than the client has been sent, its size is never
\* behind its body, and within the limit of the copy the two agree.
RowFollowsClient ==
    row # None =>
        /\ row.size <= forwarded
        /\ row.body = Capped(row.size)

\* When the stream was read to its end and no database call has failed, the row
\* and the LLM exchange have everything the client was sent, but for the limits
\* of the copy and of one event.
RecordIsComplete ==
    pc = "done" /\ clean =>
        /\ row = [body |-> Capped(forwarded), size |-> forwarded]
        /\ isLLM => exchange + skipped = data

\* What the browsers are told never runs ahead of the client either, and never
\* goes back.
PushesGoForward ==
    [][pushed'.size >= pushed.size /\ pushed'.dur >= pushed.dur
        /\ pushed'.size <= forwarded]_relayVars

=============================================================================
