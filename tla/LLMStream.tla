----------------------------- MODULE LLMStream -----------------------------
(***************************************************************************)
(* internal/llm/parser.go and internal/proxy/llm.go: the exchange recorded *)
(* for a request to an LLM provider.  A whole answer is parsed once; a     *)
(* streamed one arrives as events which a StreamAssembler puts together,   *)
(* and the exchange is built from what it has when the stream ends.        *)
(*                                                                         *)
(* An answer is a sequence of blocks, texts and tool calls, each sent in   *)
(* pieces.  A piece is <<block, number>>, a string the pieces it was       *)
(* concatenated from; a tool call's id and name are its block, 0 when      *)
(* empty.  The provider (external) sends the pieces of a block in order;   *)
(* OpenAI addresses tool calls by index and may interleave them, Anthropic *)
(* sends one block after the other, Gemini sends a tool call in one piece. *)
(***************************************************************************)
EXTENDS Integers, FiniteSets, Sequences, SequencesExt

CONSTANTS
    Protocols,  \* subset of {"openai", "anthropic", "gemini"}
    Answers,    \* the answers providers give: sequences of blocks
    MaxIndex,   \* largest index of a tool call that is taken (64)
    PromptLen,  \* length of the request's text
    None

ASSUME LLMAssumption ==
    /\ Protocols \subseteq {"openai", "anthropic", "gemini"}
    /\ \A blocks \in Answers : \A i \in DOMAIN blocks :
         blocks[i].is \in {"text", "tool"} /\ blocks[i].pieces \in Nat \ {0}
    /\ MaxIndex \in Nat /\ PromptLen \in Nat

VARIABLES
    protocol,   \* ProtocolFor of the request's provider
    answer,     \* the blocks of the answer
    given,      \* the tokens the provider reports, [in, out], or None
    sent,       \* sent[i]: pieces of block i that have been sent
    told,       \* the tokens it has reported so far
    asm,        \* the StreamAssembler
    intact,     \* every event sent has been fed
    ended,      \* the response has ended
    exchange    \* None, or what is stored for the request

vars == <<protocol, answer, given, sent, told, asm, intact, ended, exchange>>

Piece(i, k)  == <<i, k>>
Pieces(i, n) == [k \in 1..n |-> Piece(i, k)]
NoCall       == [id |-> 0, name |-> 0, args |-> <<>>]
Silent       == [in |-> 0, out |-> 0]
NoAnswer     == [content |-> <<>>, calls |-> <<>>, usage |-> None]

Texts == SetToSortSeq({i \in DOMAIN answer : answer[i].is = "text"}, <)
Tools == SetToSortSeq({i \in DOMAIN answer : answer[i].is = "tool"}, <)

\* The index of a tool call, counted from 0.
Index(i) == Cardinality({j \in 1..(i - 1) : answer[j].is = "tool"})

Lengths == {0} \cup {Len(s) : s \in {asm.content} \cup {c.args : c \in Range(asm.calls)}}

TypeOK ==
    /\ protocol \in Protocols /\ answer \in Answers
    /\ \A i \in DOMAIN answer : sent[i] \in 0..answer[i].pieces
    /\ Len(asm.calls) <= Len(Tools) /\ Lengths \subseteq Nat
    /\ intact \in BOOLEAN /\ ended \in BOOLEAN

Init ==
    /\ protocol \in Protocols
    /\ answer \in Answers
    /\ given \in {None, [in |-> 2, out |-> 3]}
    /\ sent = [i \in DOMAIN answer |-> 0]
    /\ told = Silent
    /\ asm = NoAnswer
    /\ intact = TRUE
    /\ ended = FALSE
    /\ exchange = None

-----------------------------------------------------------------------------
(***************************************************************************)
(* ParseResponse: an answer that comes in one piece                        *)
(***************************************************************************)
Call(i) == [id |-> IF protocol = "gemini" THEN 0 ELSE i, name |-> i,
            args |-> Pieces(i, answer[i].pieces)]

Whole == [content |-> FlattenSeq([t \in DOMAIN Texts |-> Pieces(Texts[t], answer[Texts[t]].pieces)]),
          calls   |-> [t \in DOMAIN Tools |-> Call(Tools[t])],
          usage   |-> given]

(***************************************************************************)
(* StreamAssembler: what one event does to it                              *)
(***************************************************************************)
FeedText(a, i, k) == [a EXCEPT !.content = Append(@, Piece(i, k))]

\* Fault: the arguments go to the call that was begun last.
CallOpenAI_Last(a, i, k) ==
    IF k = 1 THEN [a EXCEPT !.calls = Append(@, [id |-> i, name |-> i, args |-> <<Piece(i, k)>>])]
    ELSE IF a.calls = <<>> THEN a
    ELSE [a EXCEPT !.calls[Len(a.calls)].args = Append(@, Piece(i, k))]

\* feedOpenAI: the call is addressed by its index, the list filled up to it;
\* the first event of a call has its id and name.
CallOpenAI(a, i, k) ==
    IF Index(i) > MaxIndex THEN a
    ELSE LET at   == Index(i) + 1
             call == IF at <= Len(a.calls) THEN a.calls[at] ELSE NoCall
             new  == [call EXCEPT !.id = IF k = 1 THEN i ELSE @, !.name = IF k = 1 THEN i ELSE @,
                                  !.args = Append(@, Piece(i, k))]
         IN  [a EXCEPT !.calls =
                [n \in 1..IF at > Len(@) THEN at ELSE Len(@) |->
                    CASE n = at -> new [] n <= Len(@) -> @[n] [] OTHER -> NoCall]]

\* feedAnthropic: a tool_use block adds a call, arguments go to the last one.
CallAnthropic(a, i, k) ==
    LET b == IF k > 1 THEN a
             ELSE [a EXCEPT !.calls = Append(@, [id |-> i, name |-> i, args |-> <<>>])]
    IN  IF b.calls = <<>> THEN b
        ELSE [b EXCEPT !.calls[Len(b.calls)].args = Append(@, Piece(i, k))]

\* feedGemini: a functionCall part is a whole call without an id.
CallGemini(a, i) ==
    [a EXCEPT !.calls = Append(@, [id |-> 0, name |-> i, args |-> Pieces(i, answer[i].pieces)])]

Feed(a, i, k) ==
    CASE answer[i].is = "text"    -> FeedText(a, i, k)
      [] protocol = "openai"      -> CallOpenAI(a, i, k)
      [] protocol = "anthropic"   -> CallAnthropic(a, i, k)
      [] protocol = "gemini"      -> CallGemini(a, i)

\* OpenAI and Gemini report both counts in one event, Anthropic the prompt in
\* its first event and the completion in the last.
FeedUsage(a, u) == [a EXCEPT !.usage = u]

-----------------------------------------------------------------------------
(***************************************************************************)
(* The exchange: buildLLMExchange, usageWithFallback, saveLLMExchange      *)
(***************************************************************************)
\* EstimateTokens, for n characters that are not CJK.  A piece and a name are
\* a character long.
Estimate(n) == (n + 3) \div 4

TextLen(a) ==
    Len(a.content) + FoldLeft(LAMBDA n, c : n + Len(c.args) + IF c.name = 0 THEN 0 ELSE 1, 0, a.calls)

\* Fault: the report counts only when both numbers are there.
Usage_BothNeeded(a) ==
    IF a.usage # None /\ a.usage.in > 0 /\ a.usage.out > 0
    THEN [in |-> a.usage.in, out |-> a.usage.out, estimated |-> FALSE]
    ELSE [in |-> Estimate(PromptLen), out |-> Estimate(TextLen(a)), estimated |-> TRUE]

\* usageWithFallback
Usage(a) ==
    IF a.usage # None /\ (a.usage.in > 0 \/ a.usage.out > 0)
    THEN [in |-> a.usage.in, out |-> a.usage.out, estimated |-> FALSE]
    ELSE [in |-> Estimate(PromptLen), out |-> Estimate(TextLen(a)), estimated |-> TRUE]

BuildExchange(a) ==
    [content |-> a.content, calls |-> a.calls,
     usage |-> LET u == Usage(a) IN IF u.in + u.out = 0 THEN None ELSE u]

\* A response that cannot be parsed leaves only the request in the exchange.
NoResponse == [content |-> <<>>, calls |-> <<>>, usage |-> None]

\* SetLLMData may fail, which is only logged.
Save(ex) == ended' = TRUE /\ exchange' \in {exchange, ex}

-----------------------------------------------------------------------------
(***************************************************************************)
(* The provider and the relay                                              *)
(***************************************************************************)
Sendable(i) ==
    /\ sent[i] < answer[i].pieces
    /\ ~(protocol = "openai" /\ answer[i].is = "tool") =>
         \A j \in 1..(i - 1) : sent[j] = answer[j].pieces

\* The event reaches the assembler, or it is lost: a data line did not fit
\* into the buffer of the relay, and what is fed is not JSON any more.
Fed(a) ==
    \/ asm' = a /\ UNCHANGED intact
    \/ intact' = FALSE /\ UNCHANGED asm

SendPiece(i) ==
    /\ ~ended /\ Sendable(i)
    /\ protocol = "anthropic" /\ given # None => told.in > 0
    /\ LET whole == protocol = "gemini" /\ answer[i].is = "tool"
       IN  sent' = [sent EXCEPT ![i] = IF whole THEN answer[i].pieces ELSE @ + 1]
    /\ Fed(Feed(asm, i, sent[i] + 1))
    /\ UNCHANGED <<protocol, answer, given, told, ended, exchange>>

Complete == \A i \in DOMAIN answer : sent[i] = answer[i].pieces

Report ==
    /\ ~ended /\ given # None /\ told # given
    /\ LET first == protocol = "anthropic" /\ told.in = 0
           old   == IF asm.usage = None THEN Silent ELSE asm.usage
       IN  /\ ~first => Complete
           /\ told' = IF first THEN [told EXCEPT !.in = given.in] ELSE given
           /\ Fed(FeedUsage(asm, CASE first -> [old EXCEPT !.in = given.in]
                                   [] protocol = "anthropic" -> [old EXCEPT !.out = given.out]
                                   [] OTHER -> given))
    /\ UNCHANGED <<protocol, answer, given, sent, ended, exchange>>

\* The stream ends, where it should or before.
StreamEnds ==
    /\ ~ended
    /\ Save(BuildExchange(asm))
    /\ UNCHANGED <<protocol, answer, given, sent, told, asm, intact>>

\* saveLLMCaptured: the answer comes in one piece; cut to maxResBodyKB it
\* cannot be parsed.
WholeAnswer ==
    /\ ~ended /\ asm = NoAnswer /\ intact /\ told = Silent /\ \A i \in DOMAIN sent : sent[i] = 0
    /\ \/ Save(BuildExchange(Whole)) /\ told' = (IF given = None THEN Silent ELSE given)
                                     /\ sent' = [i \in DOMAIN answer |-> answer[i].pieces]
       \/ Save(NoResponse) /\ UNCHANGED <<told, sent>>
    /\ UNCHANGED <<protocol, answer, given, asm, intact>>

Next == \/ \E i \in DOMAIN answer : SendPiece(i)
        \/ Report
        \/ StreamEnds
        \/ WholeAnswer

Spec == Init /\ [][Next]_vars

-----------------------------------------------------------------------------
(***************************************************************************)
(* Properties                                                              *)
(***************************************************************************)
InRange == Len(Tools) <= MaxIndex + 1

\* As long as no event is lost, what the assembler has is the beginning of
\* what the whole answer would give: the text, and every call at its place,
\* with its own id and name and a beginning of its own arguments, in whatever
\* order the provider interleaves the calls (feedOpenAI: the index).  Calls
\* beyond the index limit are dropped, and nothing else is.
AssembledInOrder ==
    intact =>
        /\ IsPrefix(asm.content, Whole.content)
        /\ Len(asm.calls) <= MaxIndex + 1 \/ protocol # "openai"
        /\ \A n \in DOMAIN asm.calls :
             LET c == asm.calls[n]
             IN  c = NoCall \/ ( /\ c.id = Whole.calls[n].id /\ c.name = Whole.calls[n].name
                                 /\ IsPrefix(c.args, Whole.calls[n].args) )

Inv == TypeOK /\ AssembledInOrder

\* What is stored for a complete answer does not depend on whether it was
\* streamed: text, calls and tokens are those of the whole answer.  And the
\* tokens are never invented: they are estimated only when the provider has
\* reported none, and are its own otherwise, also for a stream that broke off
\* (usageWithFallback).
ExchangeIsExact ==
    exchange # None /\ intact =>
        /\ Complete /\ exchange # NoResponse /\ told = (IF given = None THEN Silent ELSE given)
               /\ (InRange \/ protocol # "openai")
             => exchange = BuildExchange(Whole)
        /\ exchange.usage # None =>
             IF exchange.usage.estimated THEN told = Silent
             ELSE told = [in |-> exchange.usage.in, out |-> exchange.usage.out]
=============================================================================
