------------------------------ MODULE MCWSHub ------------------------------
(***************************************************************************)
(* An instance of WSHub with small buffers: two new requests, so that one  *)
(* can be missing before another, and an update that takes its room.  Of   *)
(* two browsers one may die at any time, the other may only be slow.       *)
(***************************************************************************)
EXTENDS WSHub, TLC

CONSTANTS update

MCKinds  == {New, update}
MCEvents == [k \in MCKinds |-> IF k = New THEN 2 ELSE 1]
MCCap    == [k \in MCKinds |-> IF k = New THEN 2 ELSE 1]
=============================================================================
