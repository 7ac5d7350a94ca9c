---------------------------- MODULE MCAssembler ----------------------------
(***************************************************************************)
(* A worker with room for one stream and two connections, so that they     *)
(* evict each other.  The first is HTTP with all kinds of answers, HEAD    *)
(* and 304 among them, or TLS with or without a name in its first segment; *)
(* the second is TLS.  Buffers hold two tokens, so that a large answer and *)
(* the events of a stream overflow them.                                   *)
(***************************************************************************)
EXTENDS Assembler

CONSTANTS c1, c2

MCConns        == {c1, c2}
MCKinds        == c1 :> {"framed", "large", "empty", "continue", "sse", "close"}
                        \cup BareKinds
                  @@ c2 :> {}
MCStyles       == c1 :> {"serial", "pipelined", "tls", "unnamed"} @@ c2 :> {"tls"}
MCMaxExchanges == c1 :> 2 @@ c2 :> 1
=============================================================================
