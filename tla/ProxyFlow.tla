----------------------------- MODULE ProxyFlow -----------------------------
(***************************************************************************)
(* internal/proxy/proxy.go: the way of one exchange through the proxy, and *)
(* the shutdown of main around it.                                         *)
(*                                                                         *)
(* goproxy calls OnRequest, sends the request, calls OnResponse (for the   *)
(* gate's own answers too) and passes the response to the client.  The     *)
(* record of the exchange (captured) is made at the beginning, follows     *)
(* what the gate changes, and is saved by one of three ways: through the   *)
(* batch writer, at once with its LLM data, or by the relay of a streaming *)
(* response (SSERelay).                                                    *)
(*                                                                         *)
(* A message is a version, "sent" or "upstream" as it came, "edited" by a  *)
(* user or "refused" by the gate, with the length of its body.  The gate   *)
(* is what Interceptor promises: one of its outcomes, after any time.  The *)
(* batch writer is what CaptureSink promises: what it has taken is stored  *)
(* or given up, and nothing is left when it is closed.                     *)
(***************************************************************************)
EXTENDS SSERelay

CONSTANTS
    MaxBody,    \* length of a body (bound)
    Limit       \* maxReqBodyKB and maxResBodyKB

ASSUME FlowAssumption == MaxBody \in Nat /\ Limit \in Nat /\ Limit < MaxBody

VARIABLES
    step,       \* where the exchange is
    asked,      \* length of the body the client sends
    given,      \* length of the body the server sends
    req, res,   \* the request and the response goproxy holds, None before
    rec,        \* captured: [req, res, truncated]
    wire,       \* the request the server has got, None when there is none
    reply,      \* the response the client has got
    queued,     \* the batch writer has taken the record
    kept,       \* the row, None when there is none
    llm,        \* the LLM data of the row: versions of request and response
    failed,     \* a database call for it has failed
    main,       \* the shutdown
    late        \* the shutdown does not wait for it: the ten seconds are over, or
                \* it runs in a CONNECT tunnel, which the HTTP server has let go of

message  == <<asked, given, req, res>>
passed   == <<wire, reply>>
saved    == <<queued, kept, llm, failed>>
shutdown == <<main, late>>
vars == <<relayVars, step, message, rec, passed, saved, shutdown>>

Stored(n) == IF n < Limit THEN n ELSE Limit

Steps == {"new", "request", "upstream", "respond", "response", "record", "llm",
          "answer", "stream", "answered", "failed"}
Over == {"answered", "failed"}

Messages(vs) == [ver : vs, len : 0 .. MaxBody]
Copies(vs) == [ver : vs, len : 0 .. Limit]
ReqVersions == {"sent", "edited"}
ResVersions == {"upstream", "edited", "refused"}
Records == [req : Copies(ReqVersions), res : Copies(ResVersions) \cup {None}, truncated : BOOLEAN]

\* nil is neither a message nor a record.
ASSUME NilAssumption ==
    None \notin Messages(ReqVersions) \cup Messages(ResVersions) \cup Records

TypeOK ==
    /\ RelayTypeOK
    /\ step \in Steps
    /\ asked \in 0 .. MaxBody /\ given \in 0 .. MaxBody
    /\ req \in Messages(ReqVersions) \cup {None}
    /\ res \in Messages(ResVersions) \cup {None}
    /\ rec \in Records \cup {None} /\ kept \in Records \cup {None}
    /\ wire \in Messages(ReqVersions) \cup {None}
    /\ reply \in Messages(ResVersions) \cup {None}
    /\ llm \in [req : ReqVersions, res : ResVersions] \cup {None}
    /\ queued \in BOOLEAN /\ failed \in BOOLEAN /\ late \in BOOLEAN
    /\ main \in {"serving", "draining", "drained", "closed"}

Init ==
    /\ RelayInit
    /\ step = "new"
    /\ asked \in 0 .. MaxBody /\ given = 0
    /\ req = None /\ res = None /\ rec = None
    /\ wire = None /\ reply = None
    /\ queued = FALSE /\ kept = None /\ llm = None /\ failed = FALSE
    /\ main = "serving" /\ late = FALSE

\* A call to the database; after st.Close it fails.
DbFails == failed' = TRUE
DbWorks == main # "closed" /\ UNCHANGED failed

-----------------------------------------------------------------------------
(***************************************************************************)
(* OnRequest                                                               *)
(***************************************************************************)
\* readBodyBounded copies what fits; head and rest are forwarded.  Once the
\* server is being closed, requests come only from tunnels.
OnRequest ==
    /\ step = "new"
    /\ late' = (main # "serving")
    /\ rec' = [req |-> [ver |-> "sent", len |-> Stored(asked)], res |-> None,
               truncated |-> asked > Limit]
    /\ req' = [ver |-> "sent", len |-> asked]
    /\ step' = "request"
    /\ UNCHANGED <<relayVars, asked, given, res, passed, saved, main>>

\* Passed by the mode, a rule, a user or the timer; storeFunc, where it is
\* called, reads the same body once more.
RequestPasses ==
    /\ step = "request"
    /\ step' = "upstream"
    /\ UNCHANGED <<relayVars, message, rec, passed, saved, shutdown>>

\* Fault: storeFunc is not called for a changed request.
RequestEdited_NotStored ==
    /\ step = "request"
    /\ \E n \in {req.len} \cup 1 .. MaxBody : req' = [ver |-> "edited", len |-> n]
    /\ step' = "upstream"
    /\ UNCHANGED <<relayVars, asked, given, res, rec, passed, saved, shutdown>>

\* Method, URL or headers are changed, or the body too.  storeFunc brings the
\* record up to date, but for `Truncated`.
RequestEdited ==
    /\ step = "request"
    /\ \E n \in {req.len} \cup 1 .. MaxBody :
         /\ req' = [ver |-> "edited", len |-> n]
         /\ rec' = [rec EXCEPT !.req = [ver |-> "edited", len |-> Stored(n)]]
    /\ step' = "upstream"
    /\ UNCHANGED <<relayVars, asked, given, res, passed, saved, shutdown>>

\* Blocked by a rule (403), dropped (403), no room (429), or changed into what
\* is no request (400): the answer is the gate's.
RequestRefused ==
    /\ step = "request"
    /\ res' = [ver |-> "refused", len |-> 1]
    /\ step' = "respond"
    /\ UNCHANGED <<relayVars, asked, given, req, rec, passed, saved, shutdown>>

(***************************************************************************)
(* The server                                                              *)
(***************************************************************************)
RoundTrip ==
    /\ step = "upstream"
    /\ wire' = req
    /\ given' \in 0 .. MaxBody
    /\ res' = [ver |-> "upstream", len |-> given']
    /\ step' = "respond"
    /\ UNCHANGED <<relayVars, asked, req, rec, reply, saved, shutdown>>

\* No answer: the exchange is not recorded.
RoundTripFails ==
    /\ step = "upstream"
    /\ wire' \in {None, req}
    /\ step' = "failed"
    /\ UNCHANGED <<relayVars, message, rec, reply, saved, shutdown>>

(***************************************************************************)
(* OnResponse                                                              *)
(***************************************************************************)
\* What a stream answers (bound): a request without a body, passed as it came.
StreamBound == asked = 0 /\ req.ver = "sent"

\* isSSEResponse: the rest is SSERelay's.  A stream has lines, and no length.
Streams ==
    /\ step = "respond"
    /\ res.ver = "upstream" /\ given = 0
    /\ StreamBound
    /\ step' = "stream"
    /\ UNCHANGED <<relayVars, message, rec, passed, saved, shutdown>>

\* An empty body leaves `Truncated` as the request has set it.
OnResponse ==
    /\ step = "respond"
    /\ rec' = [rec EXCEPT !.res = [ver |-> res.ver, len |-> Stored(res.len)],
                          !.truncated = IF res.len = 0 THEN @ ELSE res.len > Limit]
    /\ step' = "response"
    /\ UNCHANGED <<relayVars, message, passed, saved, shutdown>>

ResponsePasses ==
    /\ step = "response"
    /\ step' = "record"
    /\ UNCHANGED <<relayVars, message, rec, passed, saved, shutdown>>

\* Status or headers are changed, or the body too; storeFunc reads it only then.
ResponseEdited ==
    /\ step = "response"
    /\ \/ /\ res' = [res EXCEPT !.ver = "edited"]
          /\ rec' = [rec EXCEPT !.res.ver = "edited"]
       \/ \E n \in 1 .. MaxBody :
            /\ res' = [ver |-> "edited", len |-> n]
            /\ rec' = [rec EXCEPT !.res = [ver |-> "edited", len |-> Stored(n)],
                                  !.truncated = n > Limit]
    /\ step' = "record"
    /\ UNCHANGED <<relayVars, asked, given, req, passed, saved, shutdown>>

\* Dropped (403) or no room (429): storeFunc is not called.
ResponseRefused ==
    /\ step = "response"
    /\ res' = [ver |-> "refused", len |-> 1]
    /\ step' = "record"
    /\ UNCHANGED <<relayVars, asked, given, req, rec, passed, saved, shutdown>>

(***************************************************************************)
(* The record                                                              *)
(***************************************************************************)
\* Enqueue: taken by the batch writer, or saved at once when the channel is full
\* or the writer has been stopped.
Enqueue ==
    /\ step = "record" /\ ~isLLM
    /\ \/ main \in {"serving", "draining"} /\ queued' = TRUE /\ UNCHANGED <<kept, failed>>
       \/ DbWorks /\ kept' = rec /\ UNCHANGED queued
       \/ DbFails /\ UNCHANGED <<queued, kept>>
    /\ step' = "answer"
    /\ UNCHANGED <<relayVars, message, rec, passed, llm, shutdown>>

\* The workers of the batch writer; onSave follows.
Flush ==
    /\ queued
    /\ queued' = FALSE
    /\ \/ DbWorks /\ kept' = rec
       \/ DbFails /\ UNCHANGED kept
    /\ UNCHANGED <<relayVars, step, message, rec, passed, llm, shutdown>>

\* saveLLMCaptured, before the client gets anything.
SaveLLM ==
    /\ step = "record" /\ isLLM
    /\ \/ DbWorks /\ kept' = rec /\ step' = "llm"
       \/ DbFails /\ step' = "answer" /\ UNCHANGED kept
    /\ UNCHANGED <<relayVars, message, rec, passed, queued, llm, shutdown>>

\* The request was parsed when it came, the response is parsed now.
SetLLMData ==
    /\ step = "llm"
    /\ \/ DbWorks /\ llm' = [req |-> "sent", res |-> rec.res.ver]
       \/ DbFails /\ UNCHANGED llm
    /\ step' = "answer"
    /\ UNCHANGED <<relayVars, message, rec, passed, queued, kept, shutdown>>

Answer ==
    /\ step = "answer"
    /\ reply' = IF client = "reading" THEN res ELSE None
    /\ step' = "answered"
    /\ UNCHANGED <<relayVars, message, rec, wire, saved, shutdown>>

(***************************************************************************)
(* The streaming response                                                  *)
(***************************************************************************)
Rest == <<step, message, rec, passed, saved, shutdown>>

RelayStep ==
    /\ step = "stream"
    /\ Relay
    /\ main = "closed" => UNCHANGED <<row, exchange>>
    /\ UNCHANGED Rest

ServerStep == step = "stream" /\ StreamOver /\ UNCHANGED Rest

ClientLeaves == step # "new" /\ Hangup /\ UNCHANGED Rest

\* The hub has been stopped before the database is closed.
HubStep == main # "closed" /\ (HubReads \/ HubSends) /\ UNCHANGED Rest

(***************************************************************************)
(* main, after a signal                                                    *)
(***************************************************************************)
Shutdown ==
    /\ main = "serving"
    /\ main' = "draining"
    /\ UNCHANGED <<relayVars, step, message, rec, passed, saved, late>>

\* The HTTP server does not wait for an exchange that has not begun or is over,
\* or whose client is gone.
Settled ==
    \/ step \in {"new"} \cup Over
    \/ step = "stream" /\ (pc \in Ended \/ client = "gone")

\* Fault: the writer is stopped without its channel being emptied.
Drain_KeepQueue ==
    /\ main = "draining"
    /\ late' = (late \/ ~Settled)
    /\ queued' = FALSE
    /\ main' = "drained"
    /\ UNCHANGED <<relayVars, step, message, rec, passed, kept, llm, failed>>

\* Fault: the shutdown of the HTTP server has no time limit.
Drain_NoLimit ==
    /\ main = "draining"
    /\ Settled /\ ~queued
    /\ main' = "drained"
    /\ UNCHANGED <<relayVars, step, message, rec, passed, saved, late>>

\* Shutdown waits until the exchange is settled, for ten seconds at most; then
\* the batch writer is stopped, which empties its channel.
Drain ==
    /\ main = "draining"
    /\ late' = (late \/ ~Settled)
    /\ ~queued
    /\ main' = "drained"
    /\ UNCHANGED <<relayVars, step, message, rec, passed, saved>>

\* The engine, the interceptor, the API server, and at last the database; the
\* program ends then, and what still runs may go on for a moment.
Close ==
    /\ main = "drained"
    /\ main' = "closed"
    /\ UNCHANGED <<relayVars, step, message, rec, passed, saved, late>>

-----------------------------------------------------------------------------
Gate ==
    \/ RequestPasses \/ RequestEdited \/ RequestRefused
    \/ ResponsePasses \/ ResponseEdited \/ ResponseRefused

Handler ==
    \/ Streams \/ OnResponse \/ Enqueue \/ SaveLLM \/ SetLLMData \/ Answer

Main == Drain \/ Close

Next ==
    \/ OnRequest \/ Gate \/ RoundTrip \/ RoundTripFails \/ Handler
    \/ Flush
    \/ RelayStep \/ ServerStep \/ ClientLeaves \/ HubStep
    \/ Shutdown \/ Main

Spec == Init /\ [][Next]_vars

\* Goroutines go on; the gate and the server may take for ever.
FairSpec == Spec /\ WF_vars(Handler) /\ WF_vars(RelayStep) /\ WF_vars(Flush) /\ WF_vars(Main)

-----------------------------------------------------------------------------
(***************************************************************************)
(* Properties                                                              *)
(***************************************************************************)
\* The record at every moment of a streaming response.
Inv == TypeOK /\ RowFollowsClient

\* OnRequest, OnResponse and the gate's storeFunc: the row says what the server
\* was sent and what the client was given, whoever changed it on the way, and
\* limits on what is stored do not limit what is passed on.  When the gate
\* refuses a response the row has the one it refused.
RecordTellsWire ==
    /\ wire # None /\ wire.ver = "sent" => wire.len = asked
    /\ reply # None /\ reply.ver = "upstream" => reply.len = given
    /\ kept # None =>
         /\ wire # None => kept.req = [ver |-> wire.ver, len |-> Stored(wire.len)]
         /\ wire = None => kept.req.ver = "sent" /\ kept.res.ver \in {"refused", "edited"}
         /\ reply # None /\ reply.ver # "refused" =>
              kept.res = [ver |-> reply.ver, len |-> Stored(reply.len)]
    /\ llm # None => llm.res = kept.res.ver

\* main and Server.Stop: when the program has ended, the row of every answered
\* exchange is there unless the database failed, and a stream the shutdown has
\* waited for has its last update.
ExitKeepsAnswered ==
    main = "closed" =>
        /\ step = "answered" /\ ~failed => kept # None
        /\ step = "stream" /\ ~late /\ client = "reading" => pc \in Ended

\* A stream ends for the goroutine with the server's end or the client's, or
\* with the program.
StreamEnds ==
    step = "stream" /\ (pc = "endSize" \/ client = "gone") ~> pc \in Ended \/ main = "closed"

\* main: neither an endless stream nor a message nobody decides on keeps the
\* program from ending.
ShutdownEnds == main = "draining" ~> main = "closed"
=============================================================================
