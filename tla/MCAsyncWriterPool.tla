-------------------------- MODULE MCAsyncWriterPool --------------------------
(* A small instance of AsyncWriterPool for TLC.                            *)
EXTENDS AsyncWriterPool, TLC

CONSTANTS r1, r2, r3, w1, w2
=============================================================================
