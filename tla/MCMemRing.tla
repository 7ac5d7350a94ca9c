----------------------------- MODULE MCMemRing -----------------------------
(* An instance of MemRing: small and large records, and one above the cap. *)
EXTENDS MemRing, TLC

CONSTANTS r1, r2, r3, r4, r5, r6, r7, c1, c2

MCSize == RingSize(3)

MCSizeOf == r1 :> 1 @@ r2 :> 1 @@ r3 :> 1 @@ r4 :> 1 @@ r5 :> 3 @@ r6 :> 3 @@ r7 :> 5

\* Records of one size are interchangeable, and so are the consumers.
Symm ==
    {p @@ s @@ t : p \in Permutations({r1, r2, r3, r4}),
                   s \in Permutations({r5, r6}),
                   t \in Permutations(Consumers)}
=============================================================================
