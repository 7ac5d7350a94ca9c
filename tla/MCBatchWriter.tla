---------------------------- MODULE MCBatchWriter ----------------------------
(* A small instance of BatchWriter for TLC.                                *)
EXTENDS BatchWriter, TLC

CONSTANTS r1, r2, r3, r4, w1, w2, s1, s2
=============================================================================
