----------------------------- MODULE SumProofs -----------------------------
(***************************************************************************)
(* Theorems about the two components that keep sums.                       *)
(*                                                                         *)
(* MemRing, for rings of any size, any records and sizes of records, any   *)
(* byte cap, and any number of producers and consumers: no record is lost  *)
(* or returned twice, the byte ledger is exact, no consumer sleeps on      *)
(* records, and the slots implement the drop-oldest queue.                 *)
(*                                                                         *)
(* StoreViews, for any finite set of requests, any number of readers and   *)
(* any bounds: a list of the hosts that is served is stale only after a    *)
(* race or half a deletion, and the map of a host counts every request     *)
(* once, in whatever order its paths are inserted.                         *)
(***************************************************************************)
EXTENDS MemRing, StoreViews, FiniteSetTheorems, WellFoundedInduction, TLAPS

-----------------------------------------------------------------------------
(***************************************************************************)
(* Queues, with Range and IsInjective of the community modules; and the    *)
(* induction over finite sets that needs no operator as a parameter.       *)
(***************************************************************************)
\* What is in the range of a sequence, and when nothing is in it twice.
LEMMA RangeSeq ==
    ASSUME NEW S, NEW s \in Seq(S)
    PROVE  /\ Range(s) \subseteq S
           /\ \A x : x \in Range(s) <=> \E i \in 1..Len(s) : s[i] = x
           /\ IsInjective(s) <=> \A i, j \in 1..Len(s) : s[i] = s[j] => i = j
           /\ IsFiniteSet(Range(s))
<1>1. DOMAIN s = 1..Len(s) /\ Len(s) \in Nat /\ \A i \in 1..Len(s) : s[i] \in S
  OBVIOUS
<1>2. s \in Surjection(1..Len(s), Range(s))
  BY <1>1 DEF Surjection, Range
<1>3. IsFiniteSet(1..Len(s))
  BY <1>1, FS_Interval
<1>4. IsFiniteSet(Range(s))
  BY <1>2, <1>3, FS_Surjection
<1>5. QED
  BY <1>1, <1>4 DEF Range, IsInjective

\* Append adds its element to the range.
LEMMA RangeAppend ==
    ASSUME NEW S, NEW s \in Seq(S), NEW e \in S
    PROVE  /\ Range(Append(s, e)) = Range(s) \cup {e}
           /\ IsInjective(s) /\ e \notin Range(s) => IsInjective(Append(s, e))
<1>1. /\ DOMAIN Append(s, e) = 1..Len(s)+1 /\ DOMAIN s = 1..Len(s) /\ Len(s) \in Nat
      /\ \A i \in 1..Len(s) : Append(s, e)[i] = s[i]
      /\ Append(s, e)[Len(s) + 1] = e
  OBVIOUS
<1> DEFINE a == Append(s, e)
<1> HIDE DEF a
<1>2. Range(a) = Range(s) \cup {e}
  BY <1>1 DEF Range, a
<1>3. IsInjective(s) /\ e \notin Range(s) => IsInjective(a)
  BY <1>1 DEF IsInjective, Range, a
<1>4. QED
  BY <1>2, <1>3 DEF a

\* Tail takes the head out of the range.
LEMMA RangeTail ==
    ASSUME NEW S, NEW s \in Seq(S), s # <<>>, IsInjective(s)
    PROVE  /\ Range(Tail(s)) = Range(s) \ {Head(s)}
           /\ Head(s) \in Range(s)
           /\ IsInjective(Tail(s))
<1>1. /\ DOMAIN Tail(s) = 1..Len(s)-1 /\ DOMAIN s = 1..Len(s) /\ Len(s) \in Nat \ {0}
      /\ \A i \in 1..Len(s)-1 : Tail(s)[i] = s[i + 1]
      /\ Head(s) = s[1]
  OBVIOUS
<1> DEFINE t == Tail(s)
<1> HIDE DEF t
<1>2. IsInjective(t) /\ Head(s) \in Range(s)
  BY <1>1 DEF IsInjective, Range, t
<1>3. ASSUME NEW x \in Range(s), x # Head(s) PROVE x \in Range(t)
  <2>1. PICK i \in 1..Len(s) : s[i] = x
    BY <1>1, <1>3 DEF Range
  <2>2. i - 1 \in 1..Len(s)-1 /\ t[i - 1] = x
    BY <1>1, <1>3, <2>1 DEF t
  <2>3. QED
    BY <1>1, <2>2 DEF Range, t
<1>4. ASSUME NEW x \in Range(t) PROVE x \in Range(s) /\ x # Head(s)
  <2>1. PICK i \in 1..Len(s)-1 : t[i] = x
    BY <1>1, <1>4 DEF Range, t
  <2>2. i + 1 \in 1..Len(s) /\ s[i + 1] = x /\ i + 1 # 1
    BY <1>1, <2>1 DEF t
  <2>3. QED
    BY <1>1, <2>2 DEF Range, IsInjective
<1>5. QED
  BY <1>2, <1>3, <1>4 DEF t

\* A concatenation has what its two parts have; nothing is in it twice when
\* nothing is in a part twice or in both.
LEMMA RangeConcat ==
    ASSUME NEW S, NEW s \in Seq(S), NEW t \in Seq(S)
    PROVE  /\ Range(s \o t) = Range(s) \cup Range(t)
           /\ IsInjective(s \o t) <=> /\ IsInjective(s) /\ IsInjective(t)
                                      /\ Range(s) \cap Range(t) = {}
<1> DEFINE c == s \o t
           m == Len(s)
           n == Len(t)
<1>1. /\ DOMAIN c = 1..(m + n) /\ DOMAIN s = 1..m /\ DOMAIN t = 1..n
      /\ m \in Nat /\ n \in Nat
      /\ \A i \in 1..m : c[i] = s[i]
      /\ \A i \in 1..n : c[m + i] = t[i]
  OBVIOUS
<1> HIDE DEF c, m, n
<1>2. \A i \in 1..n : m + i \in 1..(m + n) /\ m + i \notin 1..m
  BY <1>1
<1>3. ASSUME NEW i \in 1..(m + n), i \notin 1..m
      PROVE  \E j \in 1..n : i = m + j
  <2>1. i - m \in 1..n /\ i = m + (i - m)
    BY <1>1, <1>3
  <2>2. QED
    BY <2>1
<1>4. Range(c) = Range(s) \cup Range(t)
  <2>1. ASSUME NEW x \in Range(c) PROVE x \in Range(s) \cup Range(t)
    <3>1. PICK i \in 1..(m + n) : c[i] = x
      BY <1>1, <2>1 DEF Range
    <3>2. QED
      BY <1>1, <1>3, <3>1 DEF Range
  <2>2. ASSUME NEW x \in Range(s) PROVE x \in Range(c)
    <3>1. PICK i \in 1..m : s[i] = x
      BY <1>1, <2>2 DEF Range
    <3>2. i \in 1..(m + n) /\ c[i] = x
      BY <1>1, <3>1
    <3>3. QED
      BY <1>1, <3>2 DEF Range
  <2>3. ASSUME NEW x \in Range(t) PROVE x \in Range(c)
    <3>1. PICK i \in 1..n : t[i] = x
      BY <1>1, <2>3 DEF Range
    <3>2. m + i \in 1..(m + n) /\ c[m + i] = x
      BY <1>1, <3>1
    <3>3. QED
      BY <1>1, <3>2 DEF Range
  <2>4. QED
    BY <2>1, <2>2, <2>3
<1>5. ASSUME IsInjective(c)
      PROVE  IsInjective(s) /\ IsInjective(t) /\ Range(s) \cap Range(t) = {}
  <2>1. \A i, j \in 1..(m + n) : c[i] = c[j] => i = j
    BY <1>1, <1>5 DEF IsInjective
  <2>2. \A i, j \in 1..m : s[i] = s[j] => i = j
    BY <1>1, <2>1
  <2>3. ASSUME NEW i \in 1..n, NEW j \in 1..n, t[i] = t[j] PROVE i = j
    <3>1. m + i = m + j
      BY <1>1, <1>2, <2>1, <2>3
    <3>2. QED
      BY <1>1, <3>1
  <2>4. ASSUME NEW i \in 1..m, NEW j \in 1..n PROVE s[i] # t[j]
    <3>1. m + j \in 1..(m + n) /\ i \in 1..(m + n) /\ m + j # i
      BY <1>1
    <3>2. QED
      BY <1>1, <2>1, <3>1
  <2>5. Range(s) \cap Range(t) = {}
    BY <1>1, <2>4 DEF Range
  <2>6. QED
    BY <1>1, <2>2, <2>3, <2>5 DEF IsInjective
<1>6. ASSUME IsInjective(s), IsInjective(t), Range(s) \cap Range(t) = {}
      PROVE  IsInjective(c)
  <2>1. SUFFICES ASSUME NEW i \in 1..(m + n), NEW j \in 1..(m + n), c[i] = c[j]
                 PROVE  i = j
    BY <1>1 DEF IsInjective
  <2>2. \A a \in 1..m, b \in 1..n : s[a] # t[b]
    BY <1>1, <1>6 DEF Range
  <2>3. CASE i \in 1..m /\ j \in 1..m
    BY <1>1, <1>6, <2>1, <2>3 DEF IsInjective
  <2>4. CASE i \notin 1..m /\ j \notin 1..m
    <3>1. PICK a \in 1..n, b \in 1..n : i = m + a /\ j = m + b
      BY <1>3, <2>4
    <3>2. t[a] = t[b]
      BY <1>1, <2>1, <3>1
    <3>3. QED
      BY <1>1, <1>6, <3>1, <3>2 DEF IsInjective
  <2>5. CASE i \in 1..m /\ j \notin 1..m
    <3>1. PICK b \in 1..n : j = m + b
      BY <1>3, <2>5
    <3>2. QED
      BY <1>1, <2>1, <2>2, <2>5, <3>1
  <2>6. CASE i \notin 1..m /\ j \in 1..m
    <3>1. PICK a \in 1..n : i = m + a
      BY <1>3, <2>6
    <3>2. QED
      BY <1>1, <2>1, <2>2, <2>6, <3>1
  <2>7. QED
    BY <2>3, <2>4, <2>5, <2>6
<1>7. QED
  BY <1>4, <1>5, <1>6 DEF c

\* In every non-empty set of subsets of a finite set one is minimal.  An
\* induction over finite sets is a proof that the set of counterexamples has
\* no minimal element.
LEMMA MinimalSubset ==
    ASSUME NEW S, IsFiniteSet(S), NEW B \in SUBSET SUBSET S, B # {}
    PROVE  \E T \in B : \A U \in B : ~(U \subseteq T /\ U # T)
<1>1. FiniteSubsetsOf(S) = SUBSET S
  BY FS_FiniteSubsetsOfFinite
<1>2. IsWellFoundedOn(StrictSubsetOrdering(S), SUBSET S)
  BY <1>1, FS_StrictSubsetOrderingWellFounded
<1>3. PICK T \in B : \A U \in B : <<U, T>> \notin StrictSubsetOrdering(S)
  BY <1>2, WFMin
<1>4. \A U \in B : U \subseteq T /\ U # T => <<U, T>> \in StrictSubsetOrdering(S)
  BY DEF StrictSubsetOrdering
<1>5. \A U \in B : ~(U \subseteq T /\ U # T)
  BY <1>3, <1>4, Zenon
<1>6. QED
  BY <1>5, Zenon

-----------------------------------------------------------------------------
(***************************************************************************)
(* The sum of f over a finite set.  MapThenSumSet is a fold over the set   *)
(* in the order of CHOOSE, that is, a recursive function on its subsets;   *)
(* that there is such a function, and that the order does not matter, is   *)
(* shown by induction over finite sets (MinimalSubset).                    *)
(***************************************************************************)
SumOf(f, S) == MapThenSumSet(LAMBDA k : f[k], S)
Some(s) == CHOOSE x \in s : TRUE

\* h is the recursive function of SumOf on the subsets of S.
IsSum(h, f, S) ==
    h = [s \in SUBSET S |-> IF s = {} THEN 0 ELSE f[Some(s)] + h[s \ {Some(s)}]]

\* SumOf is what CHOOSE makes of this function.
LEMMA SumDef ==
    ASSUME NEW f, NEW S
    PROVE  SumOf(f, S) = (CHOOSE h : IsSum(h, f, S))[S]
  BY DEF SumOf, MapThenSumSet, MapThenFoldSet, IsSum, Some

\* Two such functions agree where both are defined.
LEMMA SumUnique ==
    ASSUME NEW f, NEW S, IsFiniteSet(S), NEW T, NEW g, NEW h,
           IsSum(g, f, S), IsSum(h, f, T), NEW U \in SUBSET (S \cap T)
    PROVE  g[U] = h[U]
<1> DEFINE B == {s \in SUBSET (S \cap T) : g[s] # h[s]}
<1>0. B \in SUBSET SUBSET (S \cap T)
  OBVIOUS
<1>1. SUFFICES ASSUME B # {} PROVE FALSE
  OBVIOUS
<1>2. IsFiniteSet(S \cap T)
  BY FS_Subset
<1> HIDE DEF B
<1>3. PICK s \in B : \A t \in B : ~(t \subseteq s /\ t # s)
  BY <1>0, <1>1, <1>2, MinimalSubset
<1> USE DEF B
<1>4. s # {}
  BY <1>3 DEF IsSum
<1>5. Some(s) \in s
  BY <1>4 DEF Some
<1>6. s \ {Some(s)} \in SUBSET (S \cap T) /\ s \ {Some(s)} \notin B
  BY <1>3, <1>5
<1>7. g[s \ {Some(s)}] = h[s \ {Some(s)}]
  BY <1>6
<1>8. g[s] = f[Some(s)] + g[s \ {Some(s)}] /\ h[s] = f[Some(s)] + h[s \ {Some(s)}]
  BY <1>3, <1>4 DEF IsSum
<1>9. QED
  BY <1>3, <1>7, <1>8

\* There is one on the subsets of every finite set.
LEMMA SumExists ==
    ASSUME NEW f, NEW S, IsFiniteSet(S)
    PROVE  \E h : IsSum(h, f, S)
<1> DEFINE B == {s \in SUBSET S : ~\E h : IsSum(h, f, s)}
<1>0. B \in SUBSET SUBSET S
  OBVIOUS
<1>1. SUFFICES ASSUME B # {} PROVE FALSE
  OBVIOUS
<1> HIDE DEF B
<1>2. PICK V \in B : \A t \in B : ~(t \subseteq V /\ t # V)
  BY <1>0, <1>1, MinimalSubset
<1> USE DEF B
<1> DEFINE G(s) == CHOOSE h : IsSum(h, f, s)
           Rest(s) == s \ {Some(s)}
           H == [s \in SUBSET V |->
                   IF s = {} THEN 0 ELSE f[Some(s)] + G(Rest(s))[Rest(s)]]
<1>3. ASSUME NEW s \in SUBSET V, s # V
      PROVE  IsSum(G(s), f, s) /\ IsFiniteSet(s)
  <2>1. s \in SUBSET S /\ s \notin B
    BY <1>2, <1>3
  <2>2. \E h : IsSum(h, f, s)
    BY <2>1
  <2>3. IsFiniteSet(s)
    BY <2>1, FS_Subset
  <2>4. QED
    BY <2>2, <2>3, Zenon
<1>4. ASSUME NEW s \in SUBSET V, s # {}
      PROVE  Rest(s) \in SUBSET V /\ Rest(s) # V /\ Some(s) \in s
  <2>1. Some(s) \in s
    BY <1>4 DEF Some
  <2>2. QED
    BY <2>1
<1>5. ASSUME NEW s \in SUBSET V, s # {}
      PROVE  H[s] = f[Some(s)] + H[Rest(s)]
  <2> DEFINE t == Rest(s)
  <2>1. t \in SUBSET V /\ t # V
    BY <1>4, <1>5
  <2>2. IsSum(G(t), f, t)
    BY <1>3, <2>1
  <2>3. G(t)[t] = IF t = {} THEN 0 ELSE f[Some(t)] + G(t)[Rest(t)]
    BY <2>2 DEF IsSum
  <2>4. ASSUME t # {}
        PROVE  G(t)[Rest(t)] = G(Rest(t))[Rest(t)]
    <3>1. Rest(t) \in SUBSET V /\ Rest(t) # V
      BY <1>4, <2>1, <2>4
    <3>2. IsSum(G(Rest(t)), f, Rest(t)) /\ IsFiniteSet(Rest(t))
      BY <1>3, <3>1
    <3>3. Rest(t) \in SUBSET (Rest(t) \cap t)
      OBVIOUS
    <3> HIDE DEF G, H, t, Rest
    <3>4. QED
      BY <2>2, <3>2, <3>3, SumUnique
  <2>5. H[t] = G(t)[t]
    BY <2>1, <2>3, <2>4
  <2>6. QED
    BY <1>5, <2>5
<1>6. IsSum(H, f, V)
  <2>1. H = [s \in SUBSET V |-> H[s]]
    OBVIOUS
  <2>2. H[{}] = 0
    OBVIOUS
  <2> HIDE DEF H
  <2>3. H = [s \in SUBSET V |-> IF s = {} THEN 0 ELSE f[Some(s)] + H[s \ {Some(s)}]]
    BY <1>5, <2>1, <2>2
  <2>4. QED
    BY <2>3 DEF IsSum
<1>7. QED
  BY <1>2, <1>6

\* So SumOf is the value of any of them.
LEMMA SumIs ==
    ASSUME NEW f, NEW S, IsFiniteSet(S), NEW h, IsSum(h, f, S), NEW T \in SUBSET S
    PROVE  SumOf(f, T) = h[T]
<1> DEFINE g == CHOOSE k : IsSum(k, f, T)
<1>1. IsFiniteSet(T)
  BY FS_Subset
<1>2. IsSum(g, f, T)
  BY <1>1, SumExists, Zenon
<1>3. T \in SUBSET (T \cap S)
  OBVIOUS
<1> HIDE DEF g
<1>4. g[T] = h[T]
  BY <1>1, <1>2, <1>3, SumUnique
<1>5. SumOf(f, T) = g[T]
  BY SumDef DEF g
<1>6. QED
  BY <1>4, <1>5

\* SumOf adds up one element after the other ...
LEMMA SumStep ==
    ASSUME NEW f, NEW S, IsFiniteSet(S)
    PROVE  SumOf(f, S) = IF S = {} THEN 0 ELSE f[Some(S)] + SumOf(f, S \ {Some(S)})
<1>1. PICK h : IsSum(h, f, S)
  BY SumExists
<1>2. SumOf(f, S) = h[S] /\ SumOf(f, S \ {Some(S)}) = h[S \ {Some(S)}]
  BY <1>1, SumIs
<1>3. h[S] = IF S = {} THEN 0 ELSE f[Some(S)] + h[S \ {Some(S)}]
  BY <1>1 DEF IsSum
<1>4. QED
  BY <1>2, <1>3

\* ... gives a number, no greater than that of a greater function ...
LEMMA SumAtMost ==
    ASSUME NEW D, NEW f \in [D -> Nat], NEW g \in [D -> Nat], \A d \in D : f[d] <= g[d],
           NEW S \in SUBSET D, IsFiniteSet(S)
    PROVE  SumOf(f, S) \in Nat /\ SumOf(g, S) \in Nat /\ SumOf(f, S) <= SumOf(g, S)
<1> DEFINE OK(s) == SumOf(f, s) \in Nat /\ SumOf(g, s) \in Nat /\ SumOf(f, s) <= SumOf(g, s)
           B == {s \in SUBSET S : ~OK(s)}
<1>0. B \in SUBSET SUBSET S
  OBVIOUS
<1>1. SUFFICES ASSUME B # {} PROVE FALSE
  OBVIOUS
<1> HIDE DEF B
<1>2. PICK s \in B : \A t \in B : ~(t \subseteq s /\ t # s)
  BY <1>0, <1>1, MinimalSubset
<1> USE DEF B
<1>3. IsFiniteSet(s)
  BY FS_Subset
<1>4. /\ SumOf(f, s) = IF s = {} THEN 0 ELSE f[Some(s)] + SumOf(f, s \ {Some(s)})
      /\ SumOf(g, s) = IF s = {} THEN 0 ELSE g[Some(s)] + SumOf(g, s \ {Some(s)})
  BY <1>3, SumStep
<1>5. s # {}
  BY <1>2, <1>4
<1>6. Some(s) \in s
  BY <1>5 DEF Some
<1>7. Some(s) \in D
  BY <1>6
<1>8. s \ {Some(s)} \in SUBSET S /\ s \ {Some(s)} \notin B
  BY <1>2, <1>6
<1>9. OK(s \ {Some(s)})
  BY <1>8
<1>10. f[Some(s)] \in Nat /\ g[Some(s)] \in Nat /\ f[Some(s)] <= g[Some(s)]
  BY <1>7
<1>11. OK(s)
  BY <1>4, <1>5, <1>9, <1>10
<1>12. QED
  BY <1>2, <1>11

\* So it is a number.
LEMMA SumType ==
    ASSUME NEW D, NEW f \in [D -> Nat], NEW S \in SUBSET D, IsFiniteSet(S)
    PROVE  SumOf(f, S) \in Nat
  BY SumAtMost

\* ... and does not depend on their order.
LEMMA SumRemove ==
    ASSUME NEW D, NEW f \in [D -> Nat], NEW S \in SUBSET D, IsFiniteSet(S), NEW r \in S
    PROVE  SumOf(f, S) = f[r] + SumOf(f, S \ {r})
<1> DEFINE B == {s \in SUBSET S : \E e \in s : SumOf(f, s) # f[e] + SumOf(f, s \ {e})}
<1>0. B \in SUBSET SUBSET S
  OBVIOUS
<1>1. SUFFICES ASSUME B # {} PROVE FALSE
  OBVIOUS
<1> HIDE DEF B
<1>2. PICK s \in B : \A t \in B : ~(t \subseteq s /\ t # s)
  BY <1>0, <1>1, MinimalSubset
<1> USE DEF B
<1>3. PICK e \in s : SumOf(f, s) # f[e] + SumOf(f, s \ {e})
  BY <1>2
<1> DEFINE c == Some(s)
<1>4. c \in s
  BY <1>3 DEF Some
<1> HIDE DEF c
<1>5. IsFiniteSet(s)
  BY FS_Subset
<1>6. SumOf(f, s) = f[c] + SumOf(f, s \ {c})
  BY <1>3, <1>5, SumStep DEF c
<1>7. c # e
  BY <1>3, <1>6
<1>8. SumOf(f, s \ {c}) = f[e] + SumOf(f, (s \ {c}) \ {e})
  <2>1. s \ {c} \in SUBSET S /\ s \ {c} \notin B /\ e \in s \ {c}
    BY <1>2, <1>4, <1>7
  <2>2. QED
    BY <2>1
<1>9. SumOf(f, s \ {e}) = f[c] + SumOf(f, (s \ {e}) \ {c})
  <2>1. s \ {e} \in SUBSET S /\ s \ {e} \notin B /\ c \in s \ {e}
    BY <1>2, <1>3, <1>4, <1>7
  <2>2. QED
    BY <2>1
<1>10. (s \ {c}) \ {e} = (s \ {e}) \ {c}
  OBVIOUS
<1>11. /\ f[c] \in Nat /\ f[e] \in Nat
       /\ SumOf(f, (s \ {e}) \ {c}) \in Nat
  <2>1. (s \ {e}) \ {c} \in SUBSET D /\ IsFiniteSet((s \ {e}) \ {c})
    BY <1>5, FS_Subset
  <2>2. SumOf(f, (s \ {e}) \ {c}) \in Nat
    BY <2>1, SumType
  <2>3. c \in D /\ e \in D
    BY <1>4
  <2>4. QED
    BY <2>2, <2>3
<1>12. SumOf(f, s) = f[c] + (f[e] + SumOf(f, (s \ {e}) \ {c}))
  BY <1>6, <1>8, <1>10
<1>13. QED
  BY <1>3, <1>9, <1>11, <1>12

\* A part of a sum is no more than the sum.
LEMMA SumPart ==
    ASSUME NEW D, NEW f \in [D -> Nat], NEW S \in SUBSET D, IsFiniteSet(S), NEW T \in SUBSET S
    PROVE  SumOf(f, T) <= SumOf(f, S)
<1> DEFINE B == {s \in SUBSET S : T \subseteq s /\ ~(SumOf(f, T) <= SumOf(f, s))}
<1>0. B \in SUBSET SUBSET S
  OBVIOUS
<1>1. SUFFICES ASSUME B # {} PROVE FALSE
  OBVIOUS
<1> HIDE DEF B
<1>2. PICK s \in B : \A t \in B : ~(t \subseteq s /\ t # s)
  BY <1>0, <1>1, MinimalSubset
<1> USE DEF B
<1>3. IsFiniteSet(s) /\ IsFiniteSet(T)
  BY FS_Subset
<1>4. SumOf(f, s) \in Nat /\ SumOf(f, T) \in Nat
  BY <1>3, SumType
<1>5. PICK x \in s : x \notin T
  <2>1. T \subseteq s /\ T # s
    BY <1>2, <1>4
  <2>2. QED
    BY <2>1
<1>6. SumOf(f, s) = f[x] + SumOf(f, s \ {x})
  BY <1>3, SumRemove
<1>7. SumOf(f, T) <= SumOf(f, s \ {x})
  BY <1>2, <1>5
<1>8. IsFiniteSet(s \ {x})
  BY <1>3, FS_Subset
<1>9. SumOf(f, s \ {x}) \in Nat /\ f[x] \in Nat
  BY <1>8, SumType
<1>10. QED
  BY <1>2, <1>4, <1>6, <1>7, <1>9

\* Nothing adds up to nothing.
LEMMA SumZero ==
    ASSUME NEW f, NEW S, IsFiniteSet(S), \A x \in S : f[x] = 0
    PROVE  SumOf(f, S) = 0
<1> DEFINE B == {s \in SUBSET S : SumOf(f, s) # 0}
<1>0. B \in SUBSET SUBSET S
  OBVIOUS
<1>1. SUFFICES ASSUME B # {} PROVE FALSE
  OBVIOUS
<1> HIDE DEF B
<1>2. PICK s \in B : \A t \in B : ~(t \subseteq s /\ t # s)
  BY <1>0, <1>1, MinimalSubset
<1> USE DEF B
<1>3. IsFiniteSet(s)
  BY FS_Subset
<1>4. SumOf(f, s) = IF s = {} THEN 0 ELSE f[Some(s)] + SumOf(f, s \ {Some(s)})
  BY <1>3, SumStep
<1>5. s # {} => Some(s) \in s
  BY DEF Some
<1>6. s # {} => SumOf(f, s \ {Some(s)}) = 0
  BY <1>2, <1>5
<1>7. QED
  BY <1>2, <1>4, <1>5, <1>6

\* Two sets without a common element are added up one after the other.
LEMMA SumAdd ==
    ASSUME NEW D, NEW f \in [D -> Nat], NEW S \in SUBSET D, IsFiniteSet(S),
           NEW T \in SUBSET D, IsFiniteSet(T), S \cap T = {}
    PROVE  SumOf(f, S \cup T) = SumOf(f, S) + SumOf(f, T)
<1> DEFINE B == {t \in SUBSET T : SumOf(f, S \cup t) # SumOf(f, S) + SumOf(f, t)}
<1>0. B \in SUBSET SUBSET T
  OBVIOUS
<1>1. SUFFICES ASSUME B # {} PROVE FALSE
  OBVIOUS
<1> HIDE DEF B
<1>2. PICK t \in B : \A u \in B : ~(u \subseteq t /\ u # t)
  BY <1>0, <1>1, MinimalSubset
<1> USE DEF B
<1>3. IsFiniteSet(t) /\ IsFiniteSet(S \cup t)
  BY FS_Subset, FS_Union
<1>4. SumOf(f, S) \in Nat
  BY SumType
<1>5. t # {}
  <2>1. SUFFICES ASSUME t = {} PROVE FALSE
    OBVIOUS
  <2>2. SumOf(f, t) = 0 /\ S \cup t = S
    BY <1>3, <2>1, SumZero
  <2>3. SumOf(f, S \cup t) # SumOf(f, S) + SumOf(f, t)
    BY <1>2
  <2> HIDE DEF B
  <2>4. SumOf(f, S \cup t) = SumOf(f, S)
    BY <2>2
  <2>5. QED
    BY <1>4, <2>2, <2>3, <2>4
<1>6. PICK x \in t : TRUE
  BY <1>5
<1>7. SumOf(f, t) = f[x] + SumOf(f, t \ {x})
  BY <1>3, SumRemove
<1>8. SumOf(f, S \cup t) = f[x] + SumOf(f, (S \cup t) \ {x})
  BY <1>3, SumRemove
<1>9. (S \cup t) \ {x} = S \cup (t \ {x})
  BY <1>6
<1>10. SumOf(f, S \cup (t \ {x})) = SumOf(f, S) + SumOf(f, t \ {x})
  BY <1>2, <1>6
<1>11. f[x] \in Nat /\ SumOf(f, t \ {x}) \in Nat
  <2>1. IsFiniteSet(t \ {x})
    BY <1>3, FS_Subset
  <2>2. QED
    BY <2>1, SumType
<1>12. QED
  BY <1>2, <1>4, <1>7, <1>8, <1>9, <1>10, <1>11

\* The sum over the sets of a family, no two of which have a common element.
LEMMA SumFamily ==
    ASSUME NEW D, NEW f \in [D -> Nat], NEW C, IsFiniteSet(C), NEW U \in [C -> SUBSET D],
           \A c \in C : IsFiniteSet(U[c]),
           \A c, d \in C : c # d => U[c] \cap U[d] = {},
           NEW F, \A c \in C : F[c] = SumOf(f, U[c])
    PROVE  SumOf(f, UNION {U[c] : c \in C}) = SumOf(F, C)
<1> DEFINE All(K) == UNION {U[c] : c \in K}
           OK(K) == IsFiniteSet(All(K)) /\ SumOf(f, All(K)) = SumOf(F, K)
           B == {K \in SUBSET C : ~OK(K)}
<1>0. B \in SUBSET SUBSET C
  OBVIOUS
<1>1. SUFFICES ASSUME B # {} PROVE FALSE
  OBVIOUS
<1> HIDE DEF B
<1>2. PICK K \in B : \A L \in B : ~(L \subseteq K /\ L # K)
  BY <1>0, <1>1, MinimalSubset
<1> USE DEF B
<1> HIDE DEF OK, All
<1>3. IsFiniteSet(K) /\ K \in SUBSET C
  BY FS_Subset
<1>4. CASE K = {}
  <2>1. All({}) = {}
    BY DEF All
  <2>2. SumOf(f, {}) = 0 /\ SumOf(F, {}) = 0 /\ IsFiniteSet({})
    BY SumZero, FS_EmptySet
  <2>3. QED
    BY <1>2, <1>4, <2>1, <2>2 DEF OK
<1>5. CASE K # {}
  <2> DEFINE c == Some(K)
             L == K \ {c}
  <2>1. c \in K
    BY <1>5 DEF Some
  <2>2. SumOf(F, K) = F[c] + SumOf(F, L)
    BY <1>3, <1>5, SumStep
  <2> HIDE DEF c
  <2>3. OK(L)
    BY <1>2, <2>1
  <2>4. All(K) = U[c] \cup All(L)
    BY <2>1 DEF All
  <2>5. U[c] \cap All(L) = {}
    BY <1>3, <2>1 DEF All
  <2>6. U[c] \in SUBSET D /\ IsFiniteSet(U[c]) /\ F[c] = SumOf(f, U[c])
    BY <1>3, <2>1
  <2>7. All(L) \in SUBSET D
    BY <1>3 DEF All
  <2> HIDE DEF L
  <2>8. IsFiniteSet(All(K))
    <3>1. IsFiniteSet(All(L))
      BY <2>3 DEF OK
    <3>2. IsFiniteSet(U[c] \cup All(L))
      BY <2>6, <3>1, FS_Union
    <3>3. QED
      BY <2>4, <3>2
  <2>9. SumOf(f, All(K)) = SumOf(f, U[c]) + SumOf(f, All(L))
    BY <2>3, <2>4, <2>5, <2>6, <2>7, SumAdd DEF OK
  <2>10. QED
    BY <1>2, <2>2, <2>3, <2>6, <2>8, <2>9 DEF OK
<1>6. QED
  BY <1>4, <1>5

\* If every element of S has one of its own in T that weighs at least as much,
\* then S weighs no more than T.
LEMMA SumInto ==
    ASSUME NEW D, NEW f \in [D -> Nat], NEW S \in SUBSET D, IsFiniteSet(S),
           NEW E, NEW g \in [E -> Nat], NEW T \in SUBSET E, IsFiniteSet(T),
           NEW w \in [S -> T], \A x, y \in S : w[x] = w[y] => x = y,
           \A x \in S : f[x] <= g[w[x]]
    PROVE  SumOf(f, S) <= SumOf(g, T)
<1> DEFINE Image(s) == {w[x] : x \in s}
           B == {s \in SUBSET S : ~(SumOf(f, s) <= SumOf(g, Image(s)))}
<1>1. ASSUME NEW s \in SUBSET S
      PROVE  /\ IsFiniteSet(s) /\ Image(s) \in SUBSET T /\ IsFiniteSet(Image(s))
             /\ SumOf(f, s) \in Nat /\ SumOf(g, Image(s)) \in Nat
  <2>1. IsFiniteSet(s) /\ Image(s) \in SUBSET T
    BY FS_Subset
  <2> HIDE DEF Image
  <2>2. IsFiniteSet(Image(s))
    BY <2>1, FS_Subset
  <2>3. QED
    BY <2>1, <2>2, SumType
<1>2. ASSUME B # {} PROVE FALSE
  <2>0. B \in SUBSET SUBSET S
    OBVIOUS
  <2> HIDE DEF B
  <2>1. PICK s \in B : \A t \in B : ~(t \subseteq s /\ t # s)
    BY <1>2, <2>0, MinimalSubset
  <2> USE DEF B
  <2>2. s \in SUBSET S /\ ~(SumOf(f, s) <= SumOf(g, Image(s)))
    OBVIOUS
  <2>3. s # {}
    <3>1. s = {} => SumOf(f, s) = 0
      BY <1>1, <2>2, SumZero
    <3>2. SumOf(g, Image(s)) \in Nat
      BY <1>1, <2>2
    <3>3. QED
      BY <2>2, <3>1, <3>2
  <2>4. PICK x \in s : TRUE
    BY <2>3
  <2>5. s \ {x} \in SUBSET S /\ w[x] \in Image(s) /\ Image(s \ {x}) = Image(s) \ {w[x]}
    BY <2>2, <2>4
  <2>6. SumOf(f, s \ {x}) <= SumOf(g, Image(s \ {x}))
    BY <2>1, <2>4, <2>5
  <2> HIDE DEF B, Image
  <2>7. /\ IsFiniteSet(s) /\ Image(s) \in SUBSET E /\ IsFiniteSet(Image(s))
        /\ SumOf(f, s \ {x}) \in Nat /\ SumOf(g, Image(s \ {x})) \in Nat
    BY <1>1, <2>2, <2>5
  <2>8. SumOf(f, s) = f[x] + SumOf(f, s \ {x})
    BY <2>2, <2>4, <2>7, SumRemove
  <2>9. SumOf(g, Image(s)) = g[w[x]] + SumOf(g, Image(s \ {x}))
    <3>1. SumOf(g, Image(s)) = g[w[x]] + SumOf(g, Image(s) \ {w[x]})
      BY <2>5, <2>7, SumRemove
    <3>2. QED
      BY <2>5, <3>1
  <2>10. f[x] \in Nat /\ g[w[x]] \in Nat /\ f[x] <= g[w[x]]
    BY <2>2, <2>4
  <2>11. QED
    BY <2>2, <2>6, <2>7, <2>8, <2>9, <2>10
<1>3. SumOf(f, S) <= SumOf(g, Image(S))
  BY <1>2
<1>4. SumOf(g, Image(S)) <= SumOf(g, T)
  <2> HIDE DEF Image
  <2>1. QED
    BY <1>1, SumPart
<1>5. SumOf(f, S) \in Nat /\ SumOf(g, Image(S)) \in Nat /\ SumOf(g, T) \in Nat
  BY <1>1, SumType
<1>6. QED
  BY <1>3, <1>4, <1>5

\* The sum of a field of records is that of the function that has the field.
SumField(h, x, S) == MapThenSumSet(LAMBDA c : h[c][x], S)

LEMMA SumOfField ==
    ASSUME NEW h, NEW x, NEW S, IsFiniteSet(S), NEW F, \A c \in S : F[c] = h[c][x]
    PROVE  SumField(h, x, S) = SumOf(F, S)
<1> DEFINE P(g) == g = [s \in SUBSET S |-> IF s = {} THEN 0 ELSE h[Some(s)][x] + g[s \ {Some(s)}]]
<1>1. SumField(h, x, S) = (CHOOSE g : P(g))[S]
  BY DEF SumField, MapThenSumSet, MapThenFoldSet, Some
<1>2. ASSUME NEW g PROVE P(g) <=> IsSum(g, F, S)
  <2>1. \A s \in SUBSET S : s # {} => h[Some(s)][x] = F[Some(s)]
    BY DEF Some
  <2>2. QED
    BY <2>1 DEF IsSum
<1>3. \E g : P(g)
  BY <1>2, SumExists
<1>4. P(CHOOSE g : P(g))
  BY <1>3, Zenon
<1> HIDE DEF P
<1>5. SumOf(F, S) = (CHOOSE g : P(g))[S]
  BY <1>2, <1>4, SumIs
<1>6. QED
  BY <1>1, <1>5

\* The ledger of the ring is such a sum.
LEMMA TotalIsSum ==
    ASSUME NEW S
    PROVE  Total(S) = SumOf(SizeOf, S)
  BY DEF Total, SumOf, MapThenSumSet, MapThenFoldSet

\* Nothing in the ring, nothing in the ledger.
LEMMA TotalEmpty == Total({}) = 0
  BY SumStep, TotalIsSum, FS_EmptySet

\* It is a number, and loses the size of what is taken out.
LEMMA TotalType ==
    ASSUME NEW S \in SUBSET Recs, IsFiniteSet(S)
    PROVE  Total(S) \in Nat
<1>1. SizeOf \in [Recs -> Nat]
  BY RingAssumption
<1>2. QED
  BY <1>1, TotalIsSum, SumType

\* Whatever is taken out, it is its size the ledger loses.
LEMMA TotalRemove ==
    ASSUME NEW S \in SUBSET Recs, IsFiniteSet(S), NEW r \in S
    PROVE  Total(S) = SizeOf[r] + Total(S \ {r})
<1>1. SizeOf \in [Recs -> Nat]
  BY RingAssumption
<1>2. QED
  BY <1>1, TotalIsSum, SumRemove

-----------------------------------------------------------------------------
(***************************************************************************)
(* Slots and indices                                                       *)
(***************************************************************************)
\* Indices are at most once around the ring.
LEMMA MaskIs ==
    ASSUME NEW i \in 0..2*Size-1
    PROVE  Mask(i) = IF i < Size THEN i ELSE i - Size
<1> USE RingAssumption DEF Mask
<1>1. CASE i < Size
  BY <1>1
<1>2. CASE i >= Size
  <2>1. i - Size \in 0..Size-1 /\ i = Size + (i - Size)
    BY <1>2
  <2>2. QED
    BY <1>2, <2>1
<1>3. QED
  BY <1>1, <1>2

\* Slot of the i-th oldest record.
Place(i) == IF tail + i - 1 < Size THEN tail + i - 1 ELSE tail + i - 1 - Size

\* The live slots are those from tail up to head.
LiveAre ==
    /\ Used \in 0..Size-1
    /\ Used = 0 <=> head = tail
    /\ Live \in Seq(Recs \cup {NoRec}) /\ Len(Live) = Used
    /\ \A i \in 1..Used : Live[i] = buf[Place(i)] /\ Place(i) \in Slots

\* PopBatch's count and order of the records are right wherever head and tail
\* have wrapped to.
LEMMA LiveIs == TypeOK => LiveAre
<1> SUFFICES ASSUME TypeOK PROVE LiveAre
  OBVIOUS
<1>1. Used \in 0..Size-1 /\ (Used = 0 <=> head = tail)
  BY RingAssumption DEF TypeOK, Used, Slots
<1>2. ASSUME NEW i \in 1..Used
      PROVE  Mask(tail + i - 1) = Place(i) /\ Place(i) \in Slots
  <2>0. i \in 1..Size-1 /\ tail \in 0..Size-1 /\ Size \in Nat
    BY <1>1, RingAssumption DEF TypeOK, Slots
  <2>1. tail + i - 1 \in 0..2*Size-1
    BY <2>0
  <2> DEFINE j == tail + i - 1
  <2> HIDE DEF j
  <2>2. Mask(j) = IF j < Size THEN j ELSE j - Size
    BY <2>1, MaskIs DEF j
  <2>4. Mask(tail + i - 1) = Place(i)
    BY <2>0, <2>2 DEF Place, j, Mask
  <2>3. QED
    BY <2>0, <2>4 DEF Place, Slots
<1>3. \A i \in 1..Used : buf[Mask(tail + i - 1)] = buf[Place(i)] /\ buf[Place(i)] \in Recs \cup {NoRec}
  BY <1>2 DEF TypeOK
<1>4. Live = [i \in 1..Used |-> buf[Place(i)]]
  BY <1>3 DEF Live
<1>5. Live \in Seq(Recs \cup {NoRec}) /\ Len(Live) = Used
  BY <1>1, <1>3, <1>4
<1>6. QED
  BY <1>1, <1>2, <1>4, <1>5 DEF LiveAre

\* The slot after slot i.
Next1(i) == IF i + 1 = Size THEN 0 ELSE i + 1

\* The ring is full with one slot unused.
LEMMA FullIs ==
    ASSUME TypeOK
    PROVE  /\ Full <=> Used = Size - 1
           /\ Mask(head + 1) = Next1(head) /\ Mask(tail + 1) = Next1(tail)
           /\ {Next1(head), Next1(tail)} \subseteq Slots
<1>1. {head + 1, tail + 1} \subseteq 0..2*Size-1
  BY RingAssumption DEF TypeOK, Slots
<1>2. Mask(head + 1) = Next1(head) /\ Mask(tail + 1) = Next1(tail)
  BY <1>1, MaskIs, RingAssumption DEF TypeOK, Slots, Next1
<1>3. QED
  BY <1>2, RingAssumption DEF TypeOK, Slots, Full, Used, Next1

\* A record written to a ring that is not full comes last.
LEMMA LiveAppend ==
    ASSUME TypeOK, TypeOK', ~Full, NEW r \in Recs, buf' = [buf EXCEPT ![head] = r],
           head' = Mask(head + 1), tail' = tail
    PROVE  Live' = Append(Live, r)
<1>1. Used \in 0..Size-2 /\ head \in 0..Size-1 /\ tail \in 0..Size-1 /\ head' = Next1(head)
      /\ Size \in Nat /\ Size >= 2
  <2>1. head \in 0..Size-1 /\ tail \in 0..Size-1 /\ Size \in Nat /\ Size >= 2
    BY RingAssumption DEF TypeOK, Slots
  <2>2. Used \in 0..Size-1
    BY LiveIs DEF LiveAre
  <2>3. Used # Size - 1 /\ head' = Next1(head)
    BY FullIs
  <2>4. QED
    BY <2>1, <2>2, <2>3
<1>2. Used' = Used + 1
  BY <1>1 DEF Used, Next1
<1>3. ASSUME NEW n \in Nat, n = Used + 1
      PROVE  Place(n)' = head
  BY <1>1, <1>3 DEF Used, Place
<1>4. \A i \in 1..Used : Place(i)' = Place(i) /\ Place(i) # head
  BY <1>1 DEF Used, Place
<1>5. LiveAre /\ LiveAre'
  <2>1. (TypeOK => LiveAre)'
    BY LiveIs, PTL
  <2>2. QED
    BY <2>1, LiveIs
<1>6. head \in Slots /\ buf'[head] = r /\ \A j \in Slots : j # head => buf'[j] = buf[j]
  BY DEF TypeOK
<1>7. \A i \in 1..Used' : Live'[i] = buf'[Place(i)']
  BY <1>5 DEF LiveAre
<1>8. \A i \in 1..Used : Live'[i] = Live[i]
  BY <1>1, <1>2, <1>4, <1>5, <1>6, <1>7 DEF LiveAre
<1>9. ASSUME NEW n \in Nat, n = Used + 1
      PROVE  Live'[n] = r
  <2>1. n \in 1..Used' /\ Place(n)' = head
    BY <1>1, <1>2, <1>3, <1>9
  <2>2. QED
    BY <1>6, <1>7, <2>1
<1>10. Live \in Seq(Recs \cup {NoRec}) /\ Live' \in Seq(Recs \cup {NoRec})
       /\ Len(Live) = Used /\ Len(Live') = Used + 1
  BY <1>2, <1>5 DEF LiveAre
<1>11. QED
  BY <1>1, <1>8, <1>9, <1>10

\* A record written while tail moves on comes last, and the oldest is gone.
LEMMA LiveShift ==
    ASSUME TypeOK, TypeOK', head # tail, NEW r \in Recs, buf' = [buf EXCEPT ![head] = r],
           head' = Mask(head + 1), tail' = Mask(tail + 1)
    PROVE  Live' = Append(Tail(Live), r) /\ Live # <<>> /\ Head(Live) = buf[tail]
<1>1. Used \in 1..Size-1 /\ head \in 0..Size-1 /\ tail \in 0..Size-1
      /\ head' = Next1(head) /\ tail' = Next1(tail) /\ Size \in Nat /\ Size >= 2
  BY FullIs, LiveIs, RingAssumption DEF TypeOK, Slots, LiveAre
<1>2. Used' = Used
  BY <1>1 DEF Used, Next1
<1>3. Place(Used)' = head /\ Place(1) = tail
  BY <1>1, <1>2 DEF Used, Place, Next1
<1>4. \A i \in 1..Used-1 : Place(i)' = Place(i + 1) /\ Place(i + 1) # head
  BY <1>1 DEF Used, Place, Next1
<1>5. LiveAre /\ LiveAre'
  <2>1. (TypeOK => LiveAre)'
    BY LiveIs, PTL
  <2>2. QED
    BY <2>1, LiveIs
<1>6. head \in Slots /\ buf'[head] = r /\ \A j \in Slots : j # head => buf'[j] = buf[j]
  BY DEF TypeOK
<1>7. \A i \in 1..Used' : Live'[i] = buf'[Place(i)']
  BY <1>5 DEF LiveAre
<1>8. \A i \in 1..Used-1 : Live'[i] = Live[i + 1]
  BY <1>1, <1>2, <1>4, <1>5, <1>6, <1>7 DEF LiveAre
<1>9. Live'[Used] = r
  BY <1>1, <1>2, <1>3, <1>6, <1>7
<1>10. Live \in Seq(Recs \cup {NoRec}) /\ Live' \in Seq(Recs \cup {NoRec})
       /\ Len(Live) = Used /\ Len(Live') = Used
  BY <1>2, <1>5 DEF LiveAre
<1>11. Tail(Live) \in Seq(Recs \cup {NoRec}) /\ Len(Tail(Live)) = Used - 1
      /\ \A i \in 1..Used-1 : Tail(Live)[i] = Live[i + 1]
  BY <1>1, <1>10
<1>12. Live' = Append(Tail(Live), r)
  BY <1>1, <1>8, <1>9, <1>10, <1>11
<1>13. Live # <<>> /\ Head(Live) = Live[1] /\ Live[1] = buf[tail]
  BY <1>1, <1>3, <1>5, <1>10 DEF LiveAre
<1>14. QED
  BY <1>12, <1>13

\* Equal indices mean an empty ring, never a full one.
LEMMA LiveEmpty == TypeOK => (Live = <<>> <=> head = tail)
  BY LiveIs DEF LiveAre

-----------------------------------------------------------------------------
(***************************************************************************)
(* The invariant                                                           *)
(***************************************************************************)
\* NothingVanishes, taken apart.
Where ==
    /\ dropCount = Cardinality(gone)
    /\ IsInjective(taken) /\ IsInjective(Live)
    /\ Range(taken) \cap Range(Live) = {}
    /\ pushed = Range(taken) \cup Range(Live) \cup gone \cup refused
    /\ (Range(taken) \cup Range(Live)) \cap (gone \cup refused) = {}
    /\ gone \cap refused = {}

\* The inductive invariant.  The ledger and the places of the records go
\* together: that a ring under eviction is not empty follows from the ledger,
\* that a record leaves the ledger with its own size from the places.
IInv == TypeOK /\ LedgerExact /\ Where /\ IsFiniteSet(gone) /\ NoLostWakeup

\* It says the same.
LEMMA WhereIs == TypeOK => (NothingVanishes <=> Where)
<1> SUFFICES ASSUME TypeOK PROVE NothingVanishes <=> Where
  OBVIOUS
<1>1. Live \in Seq(Recs \cup {NoRec}) /\ taken \in Seq(Recs \cup {NoRec})
  BY LiveIs DEF LiveAre, TypeOK
<1>2. /\ Range(taken \o Live) = Range(taken) \cup Range(Live)
      /\ IsInjective(taken \o Live) <=> /\ IsInjective(taken) /\ IsInjective(Live)
                                        /\ Range(taken) \cap Range(Live) = {}
  BY <1>1, RangeConcat
<1>3. QED
  BY <1>2 DEF NothingVanishes, Where

\* The records in the ring are requests, their sum is a number.
LEMMA LiveRecs ==
    ASSUME IInv
    PROVE  /\ Live \in Seq(Recs) /\ taken \in Seq(Recs)
           /\ Range(Live) \in SUBSET Recs /\ IsFiniteSet(Range(Live))
           /\ bytes = Total(Range(Live)) /\ bytes \in Nat
<1>1. Live \in Seq(Recs \cup {NoRec}) /\ taken \in Seq(Recs)
  BY LiveIs DEF LiveAre, TypeOK, IInv
<1>2. Range(Live) \in SUBSET Recs /\ IsFiniteSet(Range(Live))
  BY <1>1, RangeSeq DEF IInv, Where, TypeOK
<1>3. Live \in Seq(Recs)
  <2>1. \A i \in 1..Len(Live) : Live[i] \in Recs
    BY <1>1, <1>2, RangeSeq
  <2>2. QED
    BY <1>1, <2>1
<1>4. QED
  BY <1>1, <1>2, <1>3 DEF IInv, LedgerExact, TypeOK

\* A new ring is empty.
LEMMA LiveInit == Init => IInv
<1> SUFFICES ASSUME Init PROVE IInv
  OBVIOUS
<1>1. TypeOK
  <2>1. 0 \in Slots /\ <<>> \in Seq(Recs)
    BY RingAssumption DEF Slots
  <2>2. QED
    BY <2>1 DEF Init, TypeOK
<1>2. Live = <<>>
  BY <1>1, LiveEmpty DEF Init
<1>3. Range(Live) = {} /\ Range(taken) = {} /\ IsInjective(Live) /\ IsInjective(taken)
  BY <1>2 DEF Init, Range, IsInjective
<1>4. Total({}) = 0
  BY TotalEmpty
<1>5. LedgerExact
  BY <1>3, <1>4 DEF Init, LedgerExact
<1>6. Where
  BY <1>3, FS_EmptySet DEF Init, Where
<1>7. QED
  BY <1>1, <1>5, <1>6, FS_EmptySet DEF Init, IInv, NoLostWakeup

\* Who is awake after Signal.
LEMMA SignalWakes ==
    ASSUME con \in [Consumers -> {"out", "parked", "woken"}], Signal
    PROVE  /\ con' \in [Consumers -> {"out", "parked", "woken"}]
           /\ \E c \in Consumers : con'[c] # "parked"
           /\ \A c \in Consumers : con[c] # "parked" => con'[c] # "parked"
  BY RingAssumption DEF Signal

\* Push evicts only where there is something: neither limit stops an empty
\* ring, which is why the ledger has to be exact.
LEMMA EvictsOldest ==
    ASSUME IInv, NEW r \in Recs, SizeOf[r] <= MaxBytes, MustEvict(r)
    PROVE  head # tail /\ Live # <<>> /\ Head(Live) = buf[tail]
<1> USE DEF IInv
<1>1. head # tail
  <2>1. SUFFICES ASSUME head = tail PROVE FALSE
    OBVIOUS
  <2>2. Live = <<>> /\ Used = 0
    BY <2>1, LiveEmpty, LiveIs DEF LiveAre
  <2>3. Range(Live) = {}
    BY <2>2 DEF Range
  <2>4. bytes = 0
    BY <2>3, TotalEmpty DEF LedgerExact
  <2>5. ~Full
    BY <2>2, FullIs, RingAssumption
  <2>6. SizeOf[r] \in Nat
    BY RingAssumption
  <2>7. QED
    BY <2>4, <2>5, <2>6, RingAssumption DEF MustEvict
<1>2. Live \in Seq(Recs \cup {NoRec}) /\ Len(Live) = Used /\ Used \in 0..Size-1 /\ Used # 0
  BY <1>1, LiveIs DEF LiveAre
<1>3. Live[1] = buf[Place(1)] /\ Place(1) = tail
  BY <1>2, LiveIs, RingAssumption DEF LiveAre, Place, TypeOK, Slots
<1>4. QED
  BY <1>1, <1>2, <1>3

\* A Push that writes keeps the types.
LEMMA AppendTypes ==
    ASSUME IInv, NEW r \in Recs, PushAppend(r) \/ PushEvict(r), pushed' = pushed \cup {r}
    PROVE  TypeOK' 
<1> USE DEF IInv
<1>1. /\ buf' = [buf EXCEPT ![head] = r] /\ head' = Mask(head + 1)
      /\ tail' \in {tail, Mask(tail + 1)} /\ Signal
      /\ UNCHANGED <<stopped, taken, refused>>
  BY DEF PushAppend, PushEvict, Write
<1>2. head' \in Slots /\ tail' \in Slots
  BY <1>1, FullIs DEF TypeOK
<1>3. buf' \in [Slots -> Recs \cup {NoRec}]
  BY <1>1 DEF TypeOK
<1>4. con' \in [Consumers -> {"out", "parked", "woken"}]
  BY <1>1, SignalWakes DEF TypeOK
<1>5. bytes \in Nat /\ SizeOf[r] \in Nat
  BY RingAssumption DEF TypeOK
<1>6. bytes' \in Nat /\ dropCount' \in Nat
  <2>1. \A n \in Nat : Less(n) \in Nat
    BY <1>5 DEF Less
  <2>2. SlotSize(tail) \in Nat
    BY RingAssumption DEF SlotSize, TypeOK
  <2>3. bytes' \in Nat
    BY <1>5, <2>1, <2>2 DEF PushAppend, PushEvict
  <2>4. dropCount' \in Nat
    BY DEF PushAppend, PushEvict, TypeOK
  <2>5. QED
    BY <2>3, <2>4
<1>7. gone' \subseteq Recs
  <2>1. CASE PushAppend(r)
    BY <2>1 DEF PushAppend, TypeOK
  <2>2. CASE PushEvict(r)
    <3>1. head # tail /\ Live # <<>> /\ Head(Live) = buf[tail]
      BY <2>2, EvictsOldest DEF PushEvict
    <3>3. Head(Live) \in Recs
      BY <3>1, LiveRecs
    <3>4. QED
      BY <2>2, <3>1, <3>3 DEF PushEvict, TypeOK
  <2>3. QED
    BY <2>1, <2>2
<1>8. QED
  BY <1>1, <1>2, <1>3, <1>4, <1>6, <1>7 DEF TypeOK

\* A record goes into free room.
LEMMA PushAppendStep ==
    ASSUME IInv, NEW r \in Recs, r \notin pushed, pushed' = pushed \cup {r}, PushAppend(r)
    PROVE  IInv'
<1>1. TypeOK'
  BY AppendTypes
<1>2. Live' = Append(Live, r)
  BY <1>1, LiveAppend DEF IInv, PushAppend, MustEvict, Write
<1>3. Live \in Seq(Recs) /\ bytes = Total(Range(Live))
      /\ Range(Live) \in SUBSET Recs /\ IsFiniteSet(Range(Live))
  BY LiveRecs
<1>4. r \notin Range(Live) /\ r \notin Range(taken) /\ r \notin gone /\ r \notin refused
  BY DEF IInv, Where
<1>5. Range(Live') = Range(Live) \cup {r} /\ IsInjective(Live')
  BY <1>2, <1>3, <1>4, RangeAppend DEF IInv, Where
<1>6. LedgerExact'
  <2>1. Total(Range(Live) \cup {r}) = SizeOf[r] + Total((Range(Live) \cup {r}) \ {r})
    BY <1>3, FS_AddElement, TotalRemove
  <2>2. (Range(Live) \cup {r}) \ {r} = Range(Live)
    BY <1>4
  <2>3. bytes' = bytes + SizeOf[r] /\ bytes \in Nat /\ SizeOf[r] \in Nat
    BY RingAssumption DEF PushAppend, IInv, TypeOK
  <2>4. Total(Range(Live) \cup {r}) = bytes + SizeOf[r]
    <3>1. Total((Range(Live) \cup {r}) \ {r}) = bytes
      BY <1>3, <2>2, Zenon
    <3>2. QED
      BY <2>1, <2>3, <3>1
  <2>5. bytes' = Total(Range(Live'))
    BY <1>5, <2>3, <2>4
  <2>6. QED
    BY <2>5 DEF LedgerExact
<1>7. Where' /\ IsFiniteSet(gone')
  BY <1>4, <1>5 DEF IInv, Where, PushAppend
<1>8. NoLostWakeup'
  <2>1. \E c \in Consumers : con'[c] # "parked"
    BY SignalWakes DEF IInv, TypeOK, PushAppend, Write
  <2>2. QED
    BY <2>1 DEF NoLostWakeup, PushAppend
<1>9. QED
  BY <1>1, <1>6, <1>7, <1>8 DEF IInv

\* A record pushes the oldest one out.
LEMMA PushEvictStep ==
    ASSUME IInv, NEW r \in Recs, r \notin pushed, pushed' = pushed \cup {r}, PushEvict(r)
    PROVE  IInv'
<1>1. TypeOK'
  BY AppendTypes
<1>2. /\ head # tail /\ Live # <<>> /\ Head(Live) = buf[tail]
      /\ Live' = Append(Tail(Live), r)
  BY <1>1, EvictsOldest, LiveShift DEF IInv, PushEvict, Write
<1>3. Live \in Seq(Recs) /\ bytes = Total(Range(Live)) /\ bytes \in Nat
      /\ Range(Live) \in SUBSET Recs /\ IsFiniteSet(Range(Live))
  BY LiveRecs
<1> DEFINE old == Head(Live)
           rest == Range(Live) \ {old}
<1>4. r \notin Range(Live) /\ r \notin Range(taken) /\ r \notin gone /\ r \notin refused
  BY DEF IInv, Where
<1>5. Tail(Live) \in Seq(Recs) /\ Range(Tail(Live)) = rest /\ IsInjective(Tail(Live))
      /\ old \in Range(Live)
  BY <1>2, <1>3, RangeTail DEF IInv, Where
<1>6. Range(Live') = rest \cup {r} /\ IsInjective(Live')
  <2>1. r \notin Range(Tail(Live))
    BY <1>4, <1>5
  <2> DEFINE t == Tail(Live)
  <2>2. t \in Seq(Recs) /\ IsInjective(t) /\ r \notin Range(t)
    BY <1>5, <2>1
  <2> HIDE DEF t
  <2>3. Range(Append(t, r)) = Range(t) \cup {r} /\ IsInjective(Append(t, r))
    BY <2>2, RangeAppend, Zenon
  <2>4. QED
    BY <1>2, <1>5, <2>3 DEF t
<1>7. old \in Recs /\ old # NoRec /\ buf[tail] = old
  BY <1>2, <1>3, <1>5, RingAssumption
<1> HIDE DEF old
<1>8. LedgerExact'
  <2>1. rest \in SUBSET Recs /\ IsFiniteSet(rest) /\ Total(rest) \in Nat
    BY <1>3, FS_Subset, TotalType
  <2>2. Total(Range(Live)) = SizeOf[old] + Total(rest)
    BY <1>3, <1>5, TotalRemove
  <2>3. Total(rest \cup {r}) = SizeOf[r] + Total(rest)
    <3>1. (rest \cup {r}) \ {r} = rest
      BY <1>4
    <3>2. IsFiniteSet(rest \cup {r})
      BY <2>1, FS_AddElement
    <3> HIDE DEF rest
    <3>3. Total(rest \cup {r}) = SizeOf[r] + Total((rest \cup {r}) \ {r})
      BY <2>1, <3>2, TotalRemove
    <3>4. QED
      BY <3>1, <3>3
  <2>4. SizeOf[r] \in Nat /\ SizeOf[old] \in Nat
    BY <1>7, RingAssumption
  <2>5. bytes' = Less(SizeOf[old]) + SizeOf[r]
    BY <1>7 DEF PushEvict, SlotSize
  <2>6. Less(SizeOf[old]) = Total(rest)
    BY <1>3, <2>1, <2>2, <2>4 DEF Less
  <2>7. QED
    BY <1>6, <2>1, <2>3, <2>4, <2>5, <2>6 DEF LedgerExact
<1>9. IsFiniteSet(gone') /\ dropCount' = Cardinality(gone')
  <2>1. old \notin gone
    BY <1>5 DEF IInv, Where
  <2>2. gone' = gone \cup {old} /\ dropCount' = dropCount + 1
    BY <1>7 DEF PushEvict
  <2>3. QED
    BY <2>1, <2>2, FS_AddElement DEF IInv, Where
<1>10. Where'
  <2>1. gone' = gone \cup {old} /\ UNCHANGED <<taken, refused>>
    BY <1>7 DEF PushEvict
  <2>2. old \notin Range(taken) /\ old \notin refused
    BY <1>5 DEF IInv, Where
  <2>3. QED
    BY <1>4, <1>5, <1>6, <1>9, <2>1, <2>2 DEF IInv, Where
<1>11. NoLostWakeup'
  <2>1. \E c \in Consumers : con'[c] # "parked"
    BY SignalWakes DEF IInv, TypeOK, PushEvict, Write
  <2>2. QED
    BY <2>1 DEF NoLostWakeup, PushEvict
<1>12. QED
  BY <1>1, <1>8, <1>9, <1>10, <1>11 DEF IInv

\* The calls that leave the slots alone.
LEMMA RingUnchanged ==
    ASSUME UNCHANGED ring
    PROVE  Live' = Live /\ Used' = Used
<1>1. Used' = Used
  BY DEF ring, Used
<1>2. QED
  BY <1>1 DEF ring, Live

\* Push after Stop.
LEMMA PushRefusedStep ==
    ASSUME IInv, NEW r \in Recs, r \notin pushed, pushed' = pushed \cup {r}, PushRefused(r)
    PROVE  IInv'
<1>1. Live' = Live
  BY RingUnchanged DEF PushRefused
<1>2. r \notin Range(Live) /\ r \notin Range(taken) /\ r \notin gone /\ r \notin refused
  BY DEF IInv, Where
<1>3. TypeOK'
  BY DEF IInv, TypeOK, PushRefused, ring
<1>4. LedgerExact' /\ NoLostWakeup' /\ IsFiniteSet(gone')
  BY <1>1 DEF IInv, LedgerExact, NoLostWakeup, PushRefused, ring
<1>5. Where'
  BY <1>1, <1>2 DEF IInv, Where, PushRefused
<1>6. QED
  BY <1>3, <1>4, <1>5 DEF IInv

\* A record above the byte cap.
LEMMA PushOversizedStep ==
    ASSUME IInv, NEW r \in Recs, r \notin pushed, pushed' = pushed \cup {r}, PushOversized(r)
    PROVE  IInv'
<1>1. Live' = Live
  BY RingUnchanged DEF PushOversized
<1>2. r \notin Range(Live) /\ r \notin Range(taken) /\ r \notin gone /\ r \notin refused
  BY DEF IInv, Where
<1>3. TypeOK'
  BY DEF IInv, TypeOK, PushOversized, ring
<1>4. LedgerExact' /\ NoLostWakeup'
  BY <1>1 DEF IInv, LedgerExact, NoLostWakeup, PushOversized, ring
<1>5. IsFiniteSet(gone') /\ dropCount' = Cardinality(gone')
  BY <1>2, FS_AddElement DEF IInv, Where, PushOversized
<1>6. Where'
  BY <1>1, <1>2, <1>5 DEF IInv, Where, PushOversized
<1>7. QED
  BY <1>3, <1>4, <1>5, <1>6 DEF IInv

\* A batch takes everything and clears the ledger.
LEMMA PopBatchStep ==
    ASSUME IInv, NEW c \in Consumers, PopBatch(c)
    PROVE  IInv'
<1>1. Live \in Seq(Recs) /\ taken \in Seq(Recs)
  BY LiveRecs
<1>2. TypeOK'
  BY <1>1 DEF IInv, TypeOK, PopBatch
<1>3. Live' = <<>>
  <2>1. (TypeOK => (Live = <<>> <=> head = tail))'
    BY LiveEmpty, PTL
  <2>2. QED
    BY <1>2, <2>1 DEF PopBatch
<1>4. Range(Live') = {} /\ IsInjective(Live')
  BY <1>3 DEF Range, IsInjective
<1>5. LedgerExact'
  BY <1>4, TotalEmpty DEF PopBatch, LedgerExact
<1>6. Range(taken') = Range(taken) \cup Range(Live) /\ IsInjective(taken')
  BY <1>1, RangeConcat DEF PopBatch, IInv, Where
<1>7. Where' /\ IsFiniteSet(gone')
  BY <1>4, <1>6 DEF IInv, Where, PopBatch
<1>8. NoLostWakeup'
  BY DEF IInv, TypeOK, NoLostWakeup, PopBatch
<1>9. QED
  BY <1>2, <1>5, <1>7, <1>8 DEF IInv

\* PopWait, PopNil and Stop move consumers only.
LEMMA ConsumerStep ==
    ASSUME IInv, (\E c \in Consumers : PopWait(c) \/ PopNil(c)) \/ Stop
    PROVE  IInv'
<1>1. UNCHANGED <<ring, dropCount, pushed, taken, gone, refused>>
  BY DEF PopWait, PopNil, Stop
<1>2. Live' = Live
  BY <1>1, RingUnchanged
<1>3. con' \in [Consumers -> {"out", "parked", "woken"}] /\ stopped' \in BOOLEAN
  BY DEF IInv, TypeOK, PopWait, PopNil, Stop, Broadcast
<1>4. TypeOK'
  BY <1>1, <1>3 DEF IInv, TypeOK, ring
<1>5. LedgerExact' /\ Where' /\ IsFiniteSet(gone')
  BY <1>1, <1>2 DEF IInv, LedgerExact, Where, ring
<1>6. NoLostWakeup'
  BY RingAssumption DEF IInv, TypeOK, NoLostWakeup, PopWait, PopNil, Stop, Broadcast, ring
<1>7. QED
  BY <1>4, <1>5, <1>6 DEF IInv

\* The inductive invariant holds in every state of every ring.
THEOREM Invariance == Spec => []IInv
<1>1. Init => IInv
  BY LiveInit
<1>2. IInv /\ [Next]_vars => IInv'
  <2>1. SUFFICES ASSUME IInv, [Next]_vars PROVE IInv'
    OBVIOUS
  <2>2. CASE UNCHANGED vars
    <3>1. Live' = Live
      BY <2>2, RingUnchanged DEF vars
    <3>2. QED
      BY <2>1, <2>2, <3>1 DEF vars, ring, IInv, TypeOK, LedgerExact, Where, NoLostWakeup
  <2>3. ASSUME NEW r \in Recs, Push(r) PROVE IInv'
    BY <2>1, <2>3, PushRefusedStep, PushOversizedStep, PushAppendStep, PushEvictStep DEF Push
  <2>4. ASSUME NEW c \in Consumers, PopBatch(c) \/ PopWait(c) \/ PopNil(c) PROVE IInv'
    BY <2>1, <2>4, PopBatchStep, ConsumerStep
  <2>5. CASE Stop
    BY <2>1, <2>5, ConsumerStep
  <2>6. QED
    BY <2>1, <2>2, <2>3, <2>4, <2>5 DEF Next
<1>3. QED
  BY <1>1, <1>2, PTL DEF Spec

\* Push, PopBatch and Stop lose no record, hand none out twice, count the
\* dropped ones right, and keep `bytes` equal to the sizes of what is in the
\* ring, so the clamp in Push never fires.
THEOREM Safety == Spec => []Inv
<1>1. IInv => Inv
  BY WhereIs DEF IInv, Inv
<1>2. QED
  BY <1>1, Invariance, PTL

\* Signal in Push and Broadcast in Stop are enough: while there are records
\* somebody is awake to take them, and after Stop nobody sleeps in cv.Wait.
THEOREM WakeUps == Spec => []NoLostWakeup
<1>1. IInv => NoLostWakeup
  BY DEF IInv
<1>2. QED
  BY <1>1, Invariance, PTL

-----------------------------------------------------------------------------
(***************************************************************************)
(* The refinement                                                          *)
(***************************************************************************)
\* The four outcomes of Push are those of the queue.
LEMMA PushRefines ==
    ASSUME IInv, IInv', NEW r \in Recs, Push(r)
    PROVE  Queue!Push(r)
<1> USE DEF IInv
<1>1. r \notin pushed /\ pushed' = pushed \cup {r}
  BY DEF Push
<1>2. Signal => Queue!Signal
  BY DEF Signal, Queue!Signal, Queue!Parked
<1>3. CASE PushRefused(r)
  <2>1. Live' = Live
    BY <1>3, RingUnchanged DEF PushRefused
  <2>2. Queue!Refuse(r)
    BY <1>3, <2>1 DEF PushRefused, Queue!Refuse
  <2>3. QED
    BY <1>1, <2>2 DEF Queue!Push
<1>4. CASE PushOversized(r)
  <2>1. Live' = Live
    BY <1>4, RingUnchanged DEF PushOversized
  <2>2. Queue!DropNew(r)
    BY <1>4, <2>1 DEF PushOversized, Queue!DropNew
  <2>3. QED
    BY <1>1, <2>2 DEF Queue!Push
<1>5. CASE PushAppend(r)
  <2>1. Live' = Append(Live, r)
    BY <1>5, LiveAppend DEF PushAppend, MustEvict, Write
  <2>2. Len(Live) < Size - 1
    BY <1>5, FullIs, LiveIs, RingAssumption DEF PushAppend, MustEvict, LiveAre
  <2>3. Queue!Add(r)
    BY <1>2, <1>5, <2>1, <2>2 DEF PushAppend, Write, Queue!Add
  <2>4. QED
    BY <1>1, <2>3 DEF Queue!Push
<1>6. CASE PushEvict(r)
  <2>1. /\ head # tail /\ Live # <<>> /\ Head(Live) = buf[tail]
        /\ Live' = Append(Tail(Live), r)
    BY <1>6, EvictsOldest, LiveShift DEF PushEvict, Write
  <2>2. Queue!DropOldest(r)
    BY <1>2, <1>6, <2>1 DEF PushEvict, Write, Queue!DropOldest
  <2>3. QED
    BY <1>1, <2>2 DEF Queue!Push
<1>7. QED
  BY <1>3, <1>4, <1>5, <1>6 DEF Push

\* So are those of PopBatch.
LEMMA PopRefines ==
    ASSUME IInv, IInv', NEW c \in Consumers
    PROVE  /\ PopBatch(c) => Queue!Take(c)
           /\ PopWait(c) => Queue!Park(c)
           /\ PopNil(c) => Queue!Leave(c)
<1> USE DEF IInv
<1>1. Live = <<>> <=> head = tail
  BY LiveEmpty
<1>2. ASSUME PopBatch(c) PROVE Queue!Take(c)
  <2>1. (TypeOK => (Live = <<>> <=> head = tail))'
    BY LiveEmpty, PTL
  <2>2. Live' = <<>>
    BY <1>2, <2>1 DEF PopBatch
  <2>3. QED
    BY <1>1, <1>2, <2>2 DEF PopBatch, Queue!Take
<1>3. ASSUME PopWait(c) PROVE Queue!Park(c)
  BY <1>1, <1>3, RingUnchanged DEF PopWait, Queue!Park
<1>4. ASSUME PopNil(c) PROVE Queue!Leave(c)
  BY <1>1, <1>4, RingUnchanged DEF PopNil, Queue!Leave
<1>5. QED
  BY <1>2, <1>3, <1>4

\* The ring of slots and indices is the drop-oldest queue that AsyncWriterPool
\* is built on.
THEOREM Refinement == Spec => QueueSpec
<1>1. Init => Queue!Init
  <2>1. Init => Live = <<>>
    BY LiveInit, LiveEmpty DEF Init, IInv
  <2>2. QED
    BY <2>1 DEF Init, Queue!Init
<1>2. IInv /\ IInv' /\ [Next]_vars => [Queue!Next]_Queue!vars
  <2>1. SUFFICES ASSUME IInv, IInv', [Next]_vars PROVE [Queue!Next]_Queue!vars
    OBVIOUS
  <2>2. CASE UNCHANGED vars
    <3>1. Live' = Live
      BY <2>2, RingUnchanged DEF vars
    <3>2. QED
      BY <2>2, <3>1 DEF vars, Queue!vars
  <2>3. ASSUME NEW r \in Recs, Push(r) PROVE Queue!Next
    BY <2>1, <2>3, PushRefines DEF Queue!Next
  <2>4. ASSUME NEW c \in Consumers, PopBatch(c) \/ PopWait(c) \/ PopNil(c) PROVE Queue!Next
    BY <2>1, <2>4, PopRefines DEF Queue!Next
  <2>5. CASE Stop
    <3>1. Live' = Live
      BY <2>5, RingUnchanged DEF Stop
    <3>2. Queue!Stop
      BY <2>5, <3>1 DEF Stop, Broadcast, Queue!Stop, Queue!Broadcast
    <3>3. QED
      BY <3>2 DEF Queue!Next
  <2>6. QED
    BY <2>1, <2>2, <2>3, <2>4, <2>5 DEF Next
<1>3. QED
  BY <1>1, <1>2, Invariance, PTL DEF Spec, QueueSpec, Queue!Spec

-----------------------------------------------------------------------------
(***************************************************************************)
(* StoreViews: the list of the hosts, the map of a host and the writes,    *)
(* for any finite set of requests, any number of readers and any bounds.   *)
(***************************************************************************)
\* The rows of a table, of a host and of a path are sums of the same function.
LEMMA CountsAreSums ==
    ASSUME NEW f
    PROVE  /\ Rows(f) = SumOf(f, DOMAIN f)
           /\ Merged(f) =
                [b \in Bases |-> SumOf(f, {k \in Kinds : StripPort(k.host) = b})]
  BY DEF SumOf, MapThenSumSet, MapThenFoldSet, Rows, Merged

\* What a query returns of a table within the bound is within it.
LEMMA PartOfRows ==
    ASSUME NEW f \in [Kinds -> Nat], Rows(f) <= MaxRows,
           NEW T \in SUBSET Kinds
    PROVE  SumOf(f, T) \in 0 .. MaxRows
<1>1. IsFiniteSet(Kinds) /\ MaxRows \in Nat
  BY ViewsAssumption
<1>2. IsFiniteSet(T)
  BY <1>1, FS_Subset
<1>3. SumOf(f, T) <= SumOf(f, Kinds)
  BY <1>1, SumPart
<1>4. SumOf(f, T) \in Nat /\ SumOf(f, Kinds) \in Nat
  BY <1>1, <1>2, SumType
<1>5. SumOf(f, Kinds) <= MaxRows
  BY CountsAreSums
<1>6. QED
  BY <1>1, <1>3, <1>4, <1>5

\* So are the rows of one kind, which are the sum over that kind alone.
LEMMA RowsOfKind ==
    ASSUME NEW f \in [Kinds -> Nat], Rows(f) <= MaxRows,
           NEW k \in Kinds
    PROVE  f[k] \in 0 .. MaxRows
<1> DEFINE rest == {k} \ {k}
<1>1. IsFiniteSet({k}) /\ k \in {k} /\ rest = {}
  BY FS_Singleton
<1>2. SumOf(f, {k}) = f[k] + SumOf(f, rest)
  BY <1>1, SumRemove
<1> HIDE DEF rest
<1>3. SumOf(f, rest) = 0
  BY <1>1, SumZero, FS_EmptySet
<1>4. SumOf(f, {k}) \in 0 .. MaxRows
  BY PartOfRows
<1>5. f[k] \in Nat
  OBVIOUS
<1>6. QED
  BY <1>1, <1>2, <1>3, <1>4, <1>5

\* A table that has no more of any kind has no more rows.
LEMMA FewerRows ==
    ASSUME NEW f \in [Kinds -> Nat], Rows(f) <= MaxRows,
           NEW g \in [Kinds -> Nat], \A k \in Kinds : g[k] <= f[k]
    PROVE  Rows(g) <= MaxRows
<1>1. IsFiniteSet(Kinds) /\ MaxRows \in Nat
  BY ViewsAssumption
<1>2. SumOf(g, Kinds) \in Nat /\ SumOf(f, Kinds) \in Nat /\ SumOf(g, Kinds) <= SumOf(f, Kinds)
  BY <1>1, SumAtMost
<1>3. Rows(f) = SumOf(f, Kinds) /\ Rows(g) = SumOf(g, Kinds)
  BY CountsAreSums
<1>4. QED
  BY <1>1, <1>2, <1>3

\* The table without rows has none.
LEMMA EmptyHasNoRows ==
    Empty \in [Kinds -> Nat] /\ Rows(Empty) = 0
<1> DEFINE Z == [k \in Kinds |-> 0]
<1>1. IsFiniteSet(Kinds)
  BY ViewsAssumption
<1>2. SumOf(Z, Kinds) = 0
  BY <1>1, SumZero
<1>3. Rows(Z) = SumOf(Z, Kinds)
  BY CountsAreSums
<1>4. QED
  BY <1>2, <1>3 DEF Empty

-----------------------------------------------------------------------------
(***************************************************************************)
(* ListHosts and the writes                                                *)
(***************************************************************************)
\* The types, with the rows within the bound all together.
ViewTypes ==
    /\ db \in [Kinds -> 0 .. MaxRows] /\ Rows(db) <= MaxRows
    /\ mu \in {"free", "reset", "logs"}
    /\ cache \in [list : List, age : 0 .. TTL] \cup {None}
    /\ pc \in [Readers -> {"idle", "query", "fill"}]
    /\ snap \in [Readers -> List]
    /\ raced \in BOOLEAN /\ partial \in BOOLEAN

\* While no write is under way, a list in the cache is that of the database,
\* or it is known why not; whether it may still be served does not matter.
CacheInv ==
    mu = "free" /\ cache # None /\ cache.list # Merged(db) => raced \/ partial

\* The bounds are numbers.
LEMMA ViewBounds ==
    /\ IsFiniteSet(Kinds)
    /\ MaxRows \in Nat \ {0} /\ TTL \in Nat \ {0} /\ None \notin [list : List, age : 0 .. TTL]
  BY ViewsAssumption

\* A list of the hosts.
LEMMA MergedType ==
    ASSUME ViewTypes
    PROVE  Merged(db) \in List /\ NoHosts \in List
<1>1. db \in [Kinds -> Nat] /\ Rows(db) <= MaxRows /\ 0 \in 0 .. MaxRows
  BY ViewBounds DEF ViewTypes
<1>2. \A b \in Bases : SumOf(db, {k \in Kinds : StripPort(k.host) = b}) \in 0 .. MaxRows
  BY <1>1, PartOfRows
<1>3. Merged(db) =
        [b \in Bases |-> SumOf(db, {k \in Kinds : StripPort(k.host) = b})]
  BY CountsAreSums
<1>4. Merged(db) \in List
  BY <1>2, <1>3 DEF List
<1>5. QED
  BY <1>1, <1>4 DEF List, NoHosts

\* A write leaves a table within the bound.
LEMMA TableType ==
    ASSUME NEW table \in [Kinds -> Nat], Rows(table) <= MaxRows
    PROVE  table \in [Kinds -> 0 .. MaxRows]
  BY RowsOfKind

\* The store is opened with an empty cache, and the table is empty.
LEMMA InitViews ==
    ASSUME ViewsInit
    PROVE  ViewTypes /\ CacheInv
<1>1. db \in [Kinds -> 0 .. MaxRows] /\ Rows(db) <= MaxRows
  BY EmptyHasNoRows, ViewBounds, TableType DEF ViewsInit
<1>2. NoHosts \in List
  BY ViewBounds DEF NoHosts, List
<1>3. QED
  BY <1>1, <1>2 DEF ViewsInit, ViewTypes, CacheInv

\* The writes: only they change the table, and until they have thrown the
\* cache away they keep s.mu.
LEMMA WriteStep ==
    ASSUME ViewTypes,
           Save \/ Delete \/ SetStarred \/ Clear \/ Cleanup
    PROVE  ViewTypes' /\ CacheInv'
<1> USE DEF listVars
<1>1. UNCHANGED <<cache, pc, snap, raced, partial>> /\ mu' \in {"reset", "logs"}
  BY DEF Save, Delete, SetStarred, Clear, Cleanup
<1>2. db \in [Kinds -> Nat] /\ Rows(db) <= MaxRows /\ MaxRows \in Nat
  BY ViewBounds DEF ViewTypes
<1>3. db' \in [Kinds -> Nat] /\ Rows(db') <= MaxRows
  <2>1. CASE Save
    BY <1>2, <2>1 DEF Save
  <2>2. CASE Delete
    <3>1. db' \in [Kinds -> Nat] /\ \A k \in Kinds : db'[k] <= db[k]
      BY <1>2, <2>2 DEF Delete
    <3>2. QED
      BY <1>2, <3>1, FewerRows
  <2>3. CASE SetStarred
    BY <1>2, <2>3 DEF SetStarred
  <2>4. CASE Clear
    BY <2>4, EmptyHasNoRows, <1>2 DEF Clear
  <2>5. CASE Cleanup
    <3>1. PICK left \in [Kinds -> 0 .. MaxRows] : (\A k \in Kinds : left[k] <= db[k]) /\ db' = left
      BY <2>5 DEF Cleanup
    <3>2. left \in [Kinds -> Nat]
      BY <1>2, <3>1
    <3>3. Rows(left) <= MaxRows
      BY <1>2, <3>1, <3>2, FewerRows
    <3>4. QED
      BY <3>1, <3>2, <3>3
  <2>6. QED
    BY <2>1, <2>2, <2>3, <2>4, <2>5
<1>4. db' \in [Kinds -> 0 .. MaxRows]
  BY <1>3, TableType
<1>5. Rows(db)' <= MaxRows
  BY <1>3
<1>6. QED
  BY <1>1, <1>4, <1>5 DEF ViewTypes, CacheInv

\* The other steps: the readers, the invalidation and time.
LEMMA ReadStep ==
    ASSUME ViewTypes, CacheInv,
           \/ DeleteLogs \/ Reset \/ Tick
           \/ \E r \in Readers : Look(r) \/ Query(r) \/ Fill(r)
    PROVE  ViewTypes' /\ CacheInv'
<1>1. db' = db
  BY DEF DeleteLogs, Reset, Tick, Look, Query, Fill
<1>2. Rows(db)' = Rows(db) /\ Merged(db)' = Merged(db)
  BY <1>1
<1>3. Merged(db) \in List /\ NoHosts \in List
  BY MergedType
<1>4. CASE DeleteLogs
  BY <1>1, <1>2, <1>4 DEF DeleteLogs, ViewTypes, CacheInv
<1>5. CASE Reset
  BY <1>1, <1>2, <1>5 DEF Reset, ViewTypes, CacheInv
<1>6. CASE Tick
  <2>1. /\ cache \in [list : List, age : 0 .. TTL] /\ TTL \in Nat /\ cache.age < TTL
    BY <1>6, ViewBounds DEF ViewTypes, Tick
  <2>2. /\ cache' \in [list : List, age : 0 .. TTL]
        /\ cache'.list = cache.list /\ cache # None
    BY <1>6, <2>1, ViewBounds DEF Tick
  <2>3. ViewTypes'
    BY <1>1, <1>2, <1>6, <2>2 DEF Tick, ViewTypes
  <2>4. CacheInv'
    BY <1>2, <1>6, <2>2 DEF Tick, CacheInv
  <2>5. QED
    BY <2>3, <2>4
<1>7. ASSUME NEW r \in Readers, Look(r) PROVE ViewTypes' /\ CacheInv'
  BY <1>1, <1>2, <1>7 DEF Look, ViewTypes, CacheInv
<1>8. ASSUME NEW r \in Readers, Query(r) PROVE ViewTypes' /\ CacheInv'
  BY <1>1, <1>2, <1>3, <1>8 DEF Query, ViewTypes, CacheInv
<1>9. ASSUME NEW r \in Readers, Fill(r) PROVE ViewTypes' /\ CacheInv'
  <2>1. /\ cache' = [list |-> snap[r], age |-> 0] /\ partial' = FALSE /\ mu' = mu
        /\ raced' = (snap[r] # Merged(db))
        /\ pc' = [pc EXCEPT ![r] = "idle"] /\ snap' = [snap EXCEPT ![r] = NoHosts]
    BY <1>9 DEF Fill
  <2>2. cache' \in [list : List, age : 0 .. TTL] /\ cache'.list = snap[r]
    BY <2>1, ViewBounds DEF ViewTypes
  <2>3. ViewTypes'
    BY <1>1, <1>2, <1>3, <2>1, <2>2 DEF ViewTypes
  <2>4. CacheInv'
    BY <1>2, <2>1, <2>2 DEF CacheInv
  <2>5. QED
    BY <2>3, <2>4
<1>10. QED
  BY <1>4, <1>5, <1>6, <1>7, <1>8, <1>9

-----------------------------------------------------------------------------
(***************************************************************************)
(* AggregateNodeStats: the count of a node becomes that of all nodes under *)
(* it.  The sets of the nodes under the children of a node are disjoint,   *)
(* and smaller than its own, over which the induction goes.                *)
(***************************************************************************)
\* A tree: with a node it has all the nodes on the way, and no node is counted
\* by status more often than at all.
TreeOK(tree) ==
    /\ tree \in [DOMAIN tree -> [leaf : BOOLEAN, count : Nat, stats : Nat]]
    /\ IsFiniteSet(DOMAIN tree) /\ Root \in DOMAIN tree
    /\ \A n \in DOMAIN tree :
         /\ n \in Seq(STRING) /\ PathPrefixes(n) \subseteq DOMAIN tree
         /\ tree[n].stats <= tree[n].count

Field(tree, x) == [n \in DOMAIN tree |-> tree[n][x]]

\* A node with all the nodes under it.
Below(tree, n) == {m \in DOMAIN tree : Len(n) <= Len(m) /\ SubSeq(m, 1, Len(n)) = n}

\* h is the recursive function of AggregateNodeStats.
IsAggregate(h, tree) ==
    h = [n \in DOMAIN tree |->
          LET kids == Children(tree, n) IN
          [leaf  |-> tree[n].leaf /\ kids = {},
           count |-> tree[n].count + SumField(h, "count", kids),
           stats |-> tree[n].stats + SumField(h, "stats", kids)]]

\* AggregateNodeStats is what CHOOSE makes of this function.
LEMMA AggregateDef ==
    ASSUME NEW tree
    PROVE  AggregateNodeStats(tree) = (CHOOSE h : IsAggregate(h, tree))
  BY DEF AggregateNodeStats, IsAggregate, SumField, MapThenSumSet, MapThenFoldSet

\* The nodes under a node are those under its children, each under one of them.
LEMMA BelowChildren ==
    ASSUME NEW tree, TreeOK(tree), NEW n \in DOMAIN tree
    PROVE  LET kids == Children(tree, n) IN
           /\ kids \in SUBSET (DOMAIN tree)
           /\ n \in Below(tree, n)
           /\ Below(tree, n) = {n} \cup UNION {Below(tree, c) : c \in kids}
           /\ \A c \in kids : n \notin Below(tree, c)
           /\ \A c, d \in kids : c # d => Below(tree, c) \cap Below(tree, d) = {}
<1> DEFINE kids == Children(tree, n)
<1>1. DOMAIN tree \in SUBSET Seq(STRING)
  BY DEF TreeOK
<1>2. n \in Seq(STRING) /\ Len(n) \in Nat
  BY <1>1
<1>3. kids \in SUBSET (DOMAIN tree)
  BY DEF Children
<1>4. n \in Below(tree, n)
  <2>1. SubSeq(n, 1, Len(n)) = n
    BY <1>2
  <2>2. QED
    BY <1>2, <2>1 DEF Below
<1>5. ASSUME NEW c \in kids, NEW m \in Below(tree, c)
      PROVE  m \in Below(tree, n) /\ m # n /\ c = SubSeq(m, 1, Len(n) + 1)
  <2>1. /\ c \in Seq(STRING) /\ Len(c) = Len(n) + 1 /\ SubSeq(c, 1, Len(n)) = n
    BY <1>1, <1>5 DEF Children
  <2>2. /\ m \in DOMAIN tree /\ m \in Seq(STRING) /\ Len(m) \in Nat
        /\ Len(n) + 1 <= Len(m) /\ SubSeq(m, 1, Len(n) + 1) = c
    BY <1>1, <1>5, <2>1 DEF Below
  <2>3. SubSeq(m, 1, Len(n)) = n
    <3>1. SubSeq(m, 1, Len(n)) = SubSeq(SubSeq(m, 1, Len(n) + 1), 1, Len(n))
      BY <1>2, <2>2
    <3>2. QED
      BY <2>1, <2>2, <3>1
  <2>4. m # n /\ Len(n) <= Len(m)
    BY <1>2, <2>2
  <2>5. m \in Below(tree, n)
    BY <2>2, <2>3, <2>4 DEF Below
  <2>6. QED
    BY <2>2, <2>4, <2>5
<1>6. ASSUME NEW m \in Below(tree, n), m # n
      PROVE  SubSeq(m, 1, Len(n) + 1) \in kids /\ m \in Below(tree, SubSeq(m, 1, Len(n) + 1))
  <2> DEFINE c == SubSeq(m, 1, Len(n) + 1)
  <2>1. /\ m \in DOMAIN tree /\ m \in Seq(STRING) /\ Len(m) \in Nat
        /\ Len(n) <= Len(m) /\ SubSeq(m, 1, Len(n)) = n
    BY <1>1 DEF Below
  <2>2. Len(n) + 1 <= Len(m)
    <3>1. SUFFICES ASSUME Len(m) = Len(n) PROVE FALSE
      BY <1>2, <2>1
    <3>2. SubSeq(m, 1, Len(m)) = m
      BY <2>1
    <3>3. QED
      BY <1>6, <2>1, <3>1, <3>2
  <2>3. c \in DOMAIN tree
    <3>1. Len(n) + 1 \in 1 .. Len(m)
      BY <1>2, <2>1, <2>2
    <3>2. c \in PathPrefixes(m)
      BY <3>1 DEF PathPrefixes
    <3>3. QED
      BY <2>1, <3>2 DEF TreeOK
  <2>4. Len(c) = Len(n) + 1
    BY <1>2, <2>1, <2>2
  <2>5. SubSeq(c, 1, Len(n)) = SubSeq(m, 1, Len(n))
    BY <1>2, <2>1, <2>2
  <2> HIDE DEF c
  <2>6. c \in kids
    BY <2>1, <2>3, <2>4, <2>5 DEF Children
  <2>7. m \in Below(tree, c)
    BY <2>1, <2>2, <2>4 DEF Below, c
  <2>8. QED
    BY <2>6, <2>7 DEF c
<1>7. Below(tree, n) = {n} \cup UNION {Below(tree, c) : c \in kids}
  <2> HIDE DEF kids
  <2>1. ASSUME NEW m \in Below(tree, n)
        PROVE  m \in {n} \cup UNION {Below(tree, c) : c \in kids}
    BY <1>6
  <2>2. ASSUME NEW m \in {n} \cup UNION {Below(tree, c) : c \in kids}
        PROVE  m \in Below(tree, n)
    BY <1>4, <1>5
  <2>3. QED
    BY <2>1, <2>2
<1>8. \A c \in kids : n \notin Below(tree, c)
  BY <1>5
<1>9. \A c, d \in kids : c # d => Below(tree, c) \cap Below(tree, d) = {}
  BY <1>5
<1>10. QED
  BY <1>3, <1>4, <1>7, <1>8, <1>9

\* What is under a child is less than what is under its parent.
LEMMA SumBelow ==
    ASSUME NEW tree, TreeOK(tree), NEW f \in [DOMAIN tree -> Nat], NEW n \in DOMAIN tree,
           NEW F, \A c \in Children(tree, n) : F[c] = SumOf(f, Below(tree, c))
    PROVE  SumOf(f, Below(tree, n)) = f[n] + SumOf(F, Children(tree, n))
<1> DEFINE D == DOMAIN tree
           C == Children(tree, n)
           U == [c \in C |-> Below(tree, c)]
           rest == UNION {U[c] : c \in C}
<1>1. IsFiniteSet(D) /\ C \in SUBSET D
  BY BelowChildren DEF TreeOK
<1>2. IsFiniteSet(C)
  BY <1>1, FS_Subset
<1>3. \A m : Below(tree, m) \in SUBSET D /\ IsFiniteSet(Below(tree, m))
  <2>1. \A m : Below(tree, m) \in SUBSET D
    BY DEF Below
  <2>2. QED
    BY <1>1, <2>1, FS_Subset
<1>4. /\ n \in Below(tree, n) /\ Below(tree, n) = {n} \cup rest
      /\ n \notin rest
      /\ \A c, d \in C : c # d => U[c] \cap U[d] = {}
  BY BelowChildren
<1>5. Below(tree, n) \ {n} = rest
  BY <1>4
<1>6. U \in [C -> SUBSET D] /\ \A c \in C : IsFiniteSet(U[c]) /\ F[c] = SumOf(f, U[c])
  BY <1>3
<1> HIDE DEF U, C, D, rest
<1>7. SumOf(f, rest) = SumOf(F, C)
  BY <1>2, <1>4, <1>6, SumFamily DEF rest, D
<1>8. SumOf(f, Below(tree, n)) = f[n] + SumOf(f, Below(tree, n) \ {n})
  BY <1>3, <1>4, SumRemove DEF D
<1>9. QED
  BY <1>5, <1>7, <1>8 DEF C

\* Of such a function, one node.
LEMMA AggregateStep ==
    ASSUME NEW tree, NEW h, IsAggregate(h, tree), NEW n \in DOMAIN tree
    PROVE  /\ h[n].count = tree[n].count + SumField(h, "count", Children(tree, n))
           /\ h[n].stats = tree[n].stats + SumField(h, "stats", Children(tree, n))
<1> DEFINE R(m) == [leaf  |-> tree[m].leaf /\ Children(tree, m) = {},
                    count |-> tree[m].count + SumField(h, "count", Children(tree, m)),
                    stats |-> tree[m].stats + SumField(h, "stats", Children(tree, m))]
<1>1. h = [m \in DOMAIN tree |-> R(m)]
  BY DEF IsAggregate
<1>2. h[n] = R(n)
  <2> HIDE DEF R
  <2>1. QED
    BY <1>1, Zenon
<1>3. QED
  BY <1>2

\* Every node ends with the sum of all nodes under it and its own: there is a
\* function that has them, and the one of AggregateNodeStats has no others.
THEOREM AggregateIs ==
    ASSUME NEW tree, TreeOK(tree), NEW n \in DOMAIN tree
    PROVE  /\ AggregateNodeStats(tree)[n].count = SumOf(Field(tree, "count"), Below(tree, n))
           /\ AggregateNodeStats(tree)[n].stats = SumOf(Field(tree, "stats"), Below(tree, n))
<1> DEFINE D == DOMAIN tree
           Kids(m) == Children(tree, m)
           S(x, m) == SumOf(Field(tree, x), Below(tree, m))
           g == [m \in D |-> [leaf |-> tree[m].leaf /\ Kids(m) = {},
                              count |-> S("count", m), stats |-> S("stats", m)]]
           h == AggregateNodeStats(tree)
<1>1. IsFiniteSet(D) /\ \A m \in D : Kids(m) \in SUBSET D /\ IsFiniteSet(Kids(m))
  <2>1. IsFiniteSet(D) /\ \A m \in D : Kids(m) \in SUBSET D
    BY BelowChildren DEF TreeOK
  <2> HIDE DEF D, Kids
  <2>2. QED
    BY <2>1, FS_Subset
<1>2. ASSUME NEW x \in {"count", "stats"}
      PROVE  Field(tree, x) \in [D -> Nat] /\ \A m \in D : Field(tree, x)[m] = tree[m][x]
  BY <1>2 DEF Field, TreeOK
<1>3. ASSUME NEW x \in {"count", "stats"}, NEW m \in D, NEW F, \A c \in Kids(m) : F[c][x] = S(x, c)
      PROVE  S(x, m) = tree[m][x] + SumField(F, x, Kids(m))
  <2> DEFINE G == [c \in Kids(m) |-> S(x, c)]
  <2>1. SumField(F, x, Kids(m)) = SumOf(G, Kids(m))
    <3> HIDE DEF S, Kids
    <3>1. \A c \in Kids(m) : G[c] = F[c][x]
      BY <1>3
    <3> HIDE DEF G
    <3>2. QED
      BY <1>1, <3>1, SumOfField
  <2>2. S(x, m) = Field(tree, x)[m] + SumOf(G, Kids(m))
    BY <1>2, SumBelow
  <2>3. QED
    BY <1>2, <2>1, <2>2
<1>4. IsAggregate(g, tree)
  <2> HIDE DEF S, Kids, D
  <2>1. ASSUME NEW m \in D
        PROVE  S("count", m) = tree[m].count + SumField(g, "count", Kids(m))
    <3>1. \A c \in Kids(m) : g[c]["count"] = S("count", c)
      BY <1>1
    <3> HIDE DEF g
    <3>2. S("count", m) = tree[m]["count"] + SumField(g, "count", Kids(m))
      BY <1>3, <3>1
    <3>3. QED
      BY <3>2
  <2>2. ASSUME NEW m \in D
        PROVE  S("stats", m) = tree[m].stats + SumField(g, "stats", Kids(m))
    <3>1. \A c \in Kids(m) : g[c]["stats"] = S("stats", c)
      BY <1>1
    <3> HIDE DEF g
    <3>2. S("stats", m) = tree[m]["stats"] + SumField(g, "stats", Kids(m))
      BY <1>3, <3>1
    <3>3. QED
      BY <3>2
  <2>3. g = [m \in D |-> [leaf |-> tree[m].leaf /\ Kids(m) = {},
                          count |-> tree[m].count + SumField(g, "count", Kids(m)),
                          stats |-> tree[m].stats + SumField(g, "stats", Kids(m))]]
    <3> DEFINE s(m) == SumField(g, "count", Kids(m))
               t(m) == SumField(g, "stats", Kids(m))
    <3>1. \A m \in D : S("count", m) = tree[m].count + s(m) /\ S("stats", m) = tree[m].stats + t(m)
      BY <2>1, <2>2
    <3> HIDE DEF s, t
    <3>2. g = [m \in D |-> [leaf |-> tree[m].leaf /\ Kids(m) = {},
                            count |-> tree[m].count + s(m), stats |-> tree[m].stats + t(m)]]
      BY <3>1, Zenon
    <3>3. QED
      BY <3>2 DEF s, t
  <2> HIDE DEF g
  <2>4. QED
    BY <2>3 DEF IsAggregate, D, Kids
<1>5. IsAggregate(h, tree)
  <2> HIDE DEF g
  <2>1. \E k : IsAggregate(k, tree)
    BY <1>4
  <2>2. QED
    BY <2>1, AggregateDef, Zenon
<1>6. ASSUME NEW m \in D
      PROVE  /\ h[m].count = tree[m].count + SumField(h, "count", Kids(m))
             /\ h[m].stats = tree[m].stats + SumField(h, "stats", Kids(m))
  <2> HIDE DEF h
  <2>1. QED
    BY <1>5, AggregateStep
<1> DEFINE OK(m) == h[m].count = S("count", m) /\ h[m].stats = S("stats", m)
           B == {Below(tree, m) : m \in {k \in D : ~OK(k)}}
<1>7. ASSUME NEW m \in D, \A c \in Kids(m) : OK(c)
      PROVE  OK(m)
  <2> HIDE DEF h, S, Kids, D
  <2>1. \A c \in Kids(m) : h[c]["count"] = S("count", c) /\ h[c]["stats"] = S("stats", c)
    BY <1>7
  <2>2. S("count", m) = tree[m]["count"] + SumField(h, "count", Kids(m))
    BY <1>3, <2>1
  <2>3. S("stats", m) = tree[m]["stats"] + SumField(h, "stats", Kids(m))
    BY <1>3, <2>1
  <2>4. QED
    BY <1>6, <2>2, <2>3
<1> HIDE DEF OK
<1>8. ASSUME B # {} PROVE FALSE
  <2>1. B \in SUBSET SUBSET D
    BY DEF Below
  <2> HIDE DEF B
  <2>2. PICK T \in B : \A V \in B : ~(V \subseteq T /\ V # T)
    BY <1>1, <1>8, <2>1, MinimalSubset
  <2> USE DEF B
  <2>3. PICK m \in D : ~OK(m) /\ T = Below(tree, m)
    BY <2>2
  <2>4. PICK c \in Kids(m) : ~OK(c)
    BY <1>7, <2>3
  <2>5. c \in D
    BY <1>1, <2>4
  <2>6. Below(tree, c) \subseteq T /\ Below(tree, c) # T
    BY <2>3, <2>4, BelowChildren
  <2>7. Below(tree, c) \in B
    BY <2>4, <2>5
  <2>8. QED
    BY <2>2, <2>6, <2>7
<1>9. QED
  BY <1>8 DEF OK

-----------------------------------------------------------------------------
(***************************************************************************)
(* Paths and their prefixes                                                *)
(***************************************************************************)
\* A finite set of numbers that is not empty has a least and a greatest.
LEMMA Ends ==
    ASSUME NEW S, IsFiniteSet(S), \A y \in S : y \in Int, S # {}
    PROVE  /\ \E x \in S : \A y \in S : x <= y
           /\ \E x \in S : \A y \in S : x >= y
<1> DEFINE OK(s) == (\E x \in s : \A y \in s : x <= y) /\ (\E x \in s : \A y \in s : x >= y)
           B == {s \in SUBSET S : s # {} /\ ~OK(s)}
<1> HIDE DEF OK
<1>0. B \in SUBSET SUBSET S
  OBVIOUS
<1>1. ASSUME B # {} PROVE FALSE
  <2> HIDE DEF B
  <2>1. PICK s \in B : \A t \in B : ~(t \subseteq s /\ t # s)
    BY <1>0, <1>1, MinimalSubset
  <2> USE DEF B
  <2>2. PICK x \in s : TRUE
    OBVIOUS
  <2>3. \A y \in s : y \in Int
    OBVIOUS
  <2>4. CASE s \ {x} = {}
    <3>1. \A y \in s : y = x
      BY <2>4
    <3>2. OK(s)
      BY <2>2, <2>3, <3>1 DEF OK
    <3>3. QED
      BY <3>2
  <2>5. CASE s \ {x} # {}
    <3>1. OK(s \ {x})
      BY <2>1, <2>2, <2>5
    <3>2. PICK a \in s \ {x} : \A y \in s \ {x} : a <= y
      BY <3>1 DEF OK
    <3>3. PICK b \in s \ {x} : \A y \in s \ {x} : b >= y
      BY <3>1 DEF OK
    <3>4. a \in Int /\ b \in Int /\ x \in Int /\ \A y \in s : y \in Int
      BY <2>2, <2>3
    <3>5. \E m \in s : \A y \in s : m <= y
      <4>1. CASE a <= x
        BY <3>2, <3>4, <4>1
      <4>2. CASE x <= a
        <5>1. \A y \in s : x <= y
          BY <3>2, <3>4, <4>2
        <5>2. QED
          BY <5>1, <2>2
      <4>3. QED
        BY <3>4, <4>1, <4>2
    <3>6. \E m \in s : \A y \in s : m >= y
      <4>1. CASE b >= x
        BY <3>3, <3>4, <4>1
      <4>2. CASE x >= b
        <5>1. \A y \in s : x >= y
          BY <3>3, <3>4, <4>2
        <5>2. QED
          BY <5>1, <2>2
      <4>3. QED
        BY <3>4, <4>1, <4>2
    <3>7. QED
      BY <3>5, <3>6 DEF OK
  <2>6. QED
    BY <2>4, <2>5
<1>2. QED
  BY <1>1 DEF OK

\* A path without its outer slashes is a path.
LEMMA SplitType ==
    ASSUME NEW p \in Seq(STRING)
    PROVE  SplitPath(p) \in Seq(STRING)
<1> DEFINE named == {i \in DOMAIN p : p[i] # ""}
<1>1. named \in SUBSET (1 .. Len(p)) /\ Len(p) \in Nat
  <2>1. DOMAIN p = 1 .. Len(p) /\ Len(p) \in Nat
    OBVIOUS
  <2>2. named \in SUBSET (DOMAIN p)
    OBVIOUS
  <2> HIDE DEF named
  <2>3. QED
    BY <2>1, <2>2
<1>2. CASE named = {}
  <2>1. SplitPath(p) = <<>>
    BY <1>2 DEF SplitPath
  <2>2. QED
    BY <2>1
<1>3. CASE named # {}
  <2> HIDE DEF named
  <2>0. IsFiniteSet(named) /\ \A i \in named : i \in Int
    <3>1. IsFiniteSet(1 .. Len(p))
      BY <1>1, FS_Interval
    <3>2. IsFiniteSet(named)
      BY <1>1, <3>1, FS_Subset
    <3>3. QED
      BY <1>1, <3>2
  <2>1. Min(named) \in named /\ Max(named) \in named
    BY <1>3, <2>0, Ends DEF Min, Max
  <2>2. Min(named) \in 1 .. Len(p) /\ Max(named) \in 1 .. Len(p)
    BY <1>1, <2>1
  <2>3. SubSeq(p, Min(named), Max(named)) \in Seq(STRING)
    BY <2>2
  <2>4. QED
    BY <1>3, <2>3 DEF SplitPath, named
<1>4. QED
  BY <1>2, <1>3

\* The paths of the requests are finitely many, and are paths when split.
LEMMA PathTypes ==
    /\ IsFiniteSet(Paths)
    /\ \A p \in Paths : p \in Seq(STRING) /\ SplitPath(p) \in Seq(STRING)
<1>1. \A p \in Paths : p \in Seq(STRING)
  BY ViewsAssumption DEF Paths
<1>2. IsFiniteSet({k.path : k \in Kinds})
  <2> DEFINE path == [k \in Kinds |-> k.path]
  <2>1. path \in Surjection(Kinds, {k.path : k \in Kinds})
    BY DEF Surjection
  <2> HIDE DEF path
  <2>2. QED
    BY <2>1, ViewBounds, FS_Surjection
<1>3. QED
  BY <1>1, <1>2, SplitType DEF Paths

\* The nodes on the way to a node.
LEMMA PrefixTypes ==
    ASSUME NEW n \in Seq(STRING)
    PROVE  /\ IsFiniteSet(PathPrefixes(n))
           /\ n # <<>> => n \in PathPrefixes(n)
           /\ \A m \in PathPrefixes(n) :
                m \in Seq(STRING) /\ m # <<>> /\ PathPrefixes(m) \subseteq PathPrefixes(n)
<1>0. Len(n) \in Nat
  OBVIOUS
<1>1. IsFiniteSet(PathPrefixes(n))
  <2> DEFINE first == [i \in 1 .. Len(n) |-> SubSeq(n, 1, i)]
  <2>1. first \in Surjection(1 .. Len(n), PathPrefixes(n))
    BY DEF Surjection, PathPrefixes
  <2>2. IsFiniteSet(1 .. Len(n))
    BY <1>0, FS_Interval
  <2> HIDE DEF first
  <2>3. QED
    BY <2>1, <2>2, FS_Surjection
<1>2. n # <<>> => n \in PathPrefixes(n)
  <2>1. n # <<>> => Len(n) \in 1 .. Len(n)
    OBVIOUS
  <2>2. SubSeq(n, 1, Len(n)) = n
    OBVIOUS
  <2>3. QED
    BY <2>1, <2>2 DEF PathPrefixes
<1>3. ASSUME NEW m \in PathPrefixes(n)
      PROVE  m \in Seq(STRING) /\ m # <<>> /\ PathPrefixes(m) \subseteq PathPrefixes(n)
  <2>1. PICK i \in 1 .. Len(n) : m = SubSeq(n, 1, i)
    BY DEF PathPrefixes
  <2>2. m \in Seq(STRING) /\ Len(m) = i
    BY <1>0, <2>1
  <2>3. ASSUME NEW j \in 1 .. i
        PROVE  SubSeq(m, 1, j) = SubSeq(n, 1, j) /\ j \in 1 .. Len(n)
    BY <1>0, <2>1
  <2>4. PathPrefixes(m) \subseteq PathPrefixes(n)
    BY <2>2, <2>3 DEF PathPrefixes
  <2>5. m # <<>>
    BY <2>2
  <2>6. QED
    BY <2>2, <2>4, <2>5
<1>4. QED
  BY <1>1, <1>2, <1>3

-----------------------------------------------------------------------------
(***************************************************************************)
(* insertPath                                                              *)
(***************************************************************************)
\* The paths there are rows of.
WithRows(counts) == {p \in Paths : counts[p] > 0}

\* The paths `in` are in the tree.  A node has the count of one of them, and
\* of each, unless two share a node; while none leads through another,
\* everything is also counted by status.
Counted(tree, counts, in) ==
    /\ \A n \in DOMAIN tree : tree[n].count > 0 =>
         \E p \in in : SplitPath(p) = n /\ tree[n].count = counts[p]
    /\ (\A p, q \in WithRows(counts) : ~SameNode(p, q)) =>
         \A p \in in : ~NoNode(p) =>
           /\ SplitPath(p) \in DOMAIN tree
           /\ tree[SplitPath(p)].count = counts[p]
    /\ (\A p, q \in WithRows(counts) : ~Through(p, q)) =>
         \A n \in DOMAIN tree : tree[n].stats = tree[n].count

\* What InsertPath makes of each node: that of the path is new, those on the
\* way keep their count, and may lose what they had by status.
Inserted(new, tree, at, c) ==
    /\ new \in [DOMAIN tree \cup PathPrefixes(at) -> [leaf : BOOLEAN, count : Nat, stats : Nat]]
    /\ at \in DOMAIN new /\ new[at].count = c /\ new[at].stats = c
    /\ \A n \in DOMAIN new : n # at =>
         \/ /\ n \in DOMAIN tree /\ new[n].count = tree[n].count
            /\ \/ new[n].stats = tree[n].stats
               \/ new[n].stats = 0 /\ n \in PathPrefixes(at)
         \/ n \notin DOMAIN tree /\ new[n].count = 0 /\ new[n].stats = 0

\* This is what it does, unless the path has no node.
LEMMA InsertIs ==
    ASSUME NEW tree, TreeOK(tree),
           NEW q \in Paths, ~NoNode(q), NEW c \in Nat
    PROVE  Inserted(InsertPath(tree, q, c), tree, SplitPath(q), c)
<1> DEFINE new == InsertPath(tree, q, c)
           at == SplitPath(q)
           Pre == PathPrefixes(at)
           N == [leaf : BOOLEAN, count : Nat, stats : Nat]
           full == [leaf |-> TRUE, count |-> c, stats |-> c]
           old(n) == IF n \in DOMAIN tree THEN tree[n] ELSE NewNode
           In(n) == Inner(old(n))
<1>1. new = [n \in DOMAIN tree \cup Pre |->
                CASE n = at -> full
                  [] n # at /\ n \in Pre -> In(n)
                  [] OTHER -> tree[n]]
  <2>1. ~(SplitPath(q) = Root /\ q # RootPath)
    BY DEF NoNode
  <2>2. QED
    BY <2>1 DEF InsertPath
<1>2. at \in Seq(STRING) /\ at \in DOMAIN tree \cup Pre
  <2>1. at \in Seq(STRING)
    BY PathTypes
  <2>2. at = <<>> => at \in DOMAIN tree
    BY DEF TreeOK, Root
  <2>3. at # <<>> => at \in Pre
    BY <2>1, PrefixTypes
  <2>4. QED
    BY <2>1, <2>2, <2>3
<1>3. ASSUME NEW n \in DOMAIN tree PROVE tree[n] \in N
  BY <1>3 DEF TreeOK
<1>4. ASSUME NEW n
      PROVE  /\ In(n) \in N
             /\ n \in DOMAIN tree =>
                  /\ In(n).count = tree[n].count
                  /\ In(n).stats = tree[n].stats \/ In(n).stats = 0
             /\ n \notin DOMAIN tree => In(n).count = 0 /\ In(n).stats = 0
  BY <1>3 DEF Inner, NewNode
<1>5. full \in N /\ full.count = c /\ full.stats = c
  OBVIOUS
<1> HIDE DEF In, N, full, Pre, new, at
<1>6. DOMAIN new = DOMAIN tree \cup Pre /\ new[at] = full
  BY <1>1, <1>2
<1>7. ASSUME NEW n \in DOMAIN tree \cup Pre, n # at
      PROVE  /\ n \in Pre => new[n] = In(n)
             /\ n \notin Pre => n \in DOMAIN tree /\ new[n] = tree[n]
  BY <1>1, <1>7
<1>8. new \in [DOMAIN tree \cup Pre -> N]
  <2>1. \A n \in DOMAIN tree \cup Pre : new[n] \in N
    BY <1>3, <1>4, <1>5, <1>6, <1>7
  <2>2. QED
    BY <1>1, <2>1
<1>9. \A n \in DOMAIN new : n # at =>
         \/ /\ n \in DOMAIN tree /\ new[n].count = tree[n].count
            /\ \/ new[n].stats = tree[n].stats
               \/ new[n].stats = 0 /\ n \in Pre
         \/ n \notin DOMAIN tree /\ new[n].count = 0 /\ new[n].stats = 0
  BY <1>4, <1>6, <1>7
<1>10. QED
  BY <1>2, <1>5, <1>6, <1>8, <1>9 DEF N, Pre, new, at, Inserted

\* The tree stays one.
LEMMA InsertTree ==
    ASSUME NEW tree, TreeOK(tree), NEW q \in Paths, NEW c \in Nat
    PROVE  TreeOK(InsertPath(tree, q, c))
<1> DEFINE new == InsertPath(tree, q, c)
           at == SplitPath(q)
           Pre == PathPrefixes(at)
<1>1. CASE NoNode(q)
  BY <1>1 DEF NoNode, InsertPath
<1>2. CASE ~NoNode(q)
  <2>1. at \in Seq(STRING)
    BY PathTypes
  <2>2. /\ IsFiniteSet(Pre)
        /\ \A m \in Pre : m \in Seq(STRING) /\ PathPrefixes(m) \subseteq Pre
    BY <2>1, PrefixTypes
  <2>3. Inserted(new, tree, at, c)
    BY <1>2, InsertIs
  <2> HIDE DEF new, at, Pre
  <2>4. DOMAIN new = DOMAIN tree \cup Pre
    BY <2>3 DEF Inserted, Pre
  <2>5. IsFiniteSet(DOMAIN new) /\ Root \in DOMAIN new
    <3>1. IsFiniteSet(DOMAIN tree) /\ Root \in DOMAIN tree
      BY DEF TreeOK
    <3>2. IsFiniteSet(DOMAIN tree \cup Pre)
      BY <2>2, <3>1, FS_Union
    <3>3. QED
      BY <2>4, <3>1, <3>2
  <2>6. ASSUME NEW n \in DOMAIN new
        PROVE  n \in Seq(STRING) /\ PathPrefixes(n) \subseteq DOMAIN new
    BY <2>2, <2>4 DEF TreeOK
  <2>7. ASSUME NEW n \in DOMAIN new
        PROVE  new[n].stats <= new[n].count
    <3>1. n \in DOMAIN tree => tree[n].stats <= tree[n].count /\ tree[n].count \in Nat
      BY DEF TreeOK
    <3>2. CASE n = at
      BY <2>3, <3>2 DEF Inserted
    <3>3. CASE n # at
      BY <2>3, <3>1, <3>3 DEF Inserted
    <3>4. QED
      BY <3>2, <3>3
  <2>8. new \in [DOMAIN new -> [leaf : BOOLEAN, count : Nat, stats : Nat]]
    BY <2>3, <2>4 DEF Inserted, Pre
  <2>9. TreeOK(new)
    BY <2>5, <2>6, <2>7, <2>8 DEF TreeOK
  <2>10. QED
    BY <2>9 DEF new
<1>3. QED
  BY <1>1, <1>2

\* And the path is counted in it with the others.
LEMMA InsertCounted ==
    ASSUME NEW tree, TreeOK(tree),
           NEW counts \in [Paths -> Nat], NEW in \in SUBSET WithRows(counts),
           NEW q \in WithRows(counts), q \notin in, Counted(tree, counts, in)
    PROVE  Counted(InsertPath(tree, q, counts[q]), counts, in \cup {q})
<1> DEFINE new == InsertPath(tree, q, counts[q])
           at == SplitPath(q)
           Distinct == \A p, r \in WithRows(counts) : ~SameNode(p, r)
           Apart == \A p, r \in WithRows(counts) : ~Through(p, r)
<1>0. q \in Paths /\ counts[q] \in Nat /\ in \subseteq WithRows(counts)
  BY DEF WithRows
<1>1. CASE NoNode(q)
  <2>1. new = tree
    BY <1>1 DEF NoNode, InsertPath
  <2> HIDE DEF new
  <2>2. Counted(tree, counts, in \cup {q})
    BY <1>1 DEF Counted
  <2>3. QED
    BY <2>1, <2>2 DEF new
<1>2. CASE ~NoNode(q)
  <2>1. Inserted(new, tree, at, counts[q])
    BY <1>0, <1>2, InsertIs
  <2> HIDE DEF new
  <2>2. DOMAIN new = DOMAIN tree \cup PathPrefixes(at)
    BY <2>1 DEF Inserted
  <2>3. ASSUME NEW n \in DOMAIN new, new[n].count > 0
        PROVE  \E p \in in \cup {q} : SplitPath(p) = n /\ new[n].count = counts[p]
    <3>1. CASE n = at
      BY <2>1, <3>1 DEF Inserted
    <3>2. CASE n # at
      <4>1. n \in DOMAIN tree /\ new[n].count = tree[n].count
        BY <2>1, <2>3, <3>2 DEF Inserted
      <4>2. QED
        BY <2>3, <4>1 DEF Counted
    <3>3. QED
      BY <3>1, <3>2
  <2>4. ASSUME Distinct, NEW p \in in \cup {q}, ~NoNode(p)
        PROVE  SplitPath(p) \in DOMAIN new /\ new[SplitPath(p)].count = counts[p]
    <3>1. CASE p = q
      BY <2>1, <3>1 DEF Inserted
    <3>2. CASE p # q
      <4>1. SplitPath(p) # at
        BY <1>0, <2>4, <3>2 DEF SameNode
      <4>2. /\ SplitPath(p) \in DOMAIN tree
            /\ tree[SplitPath(p)].count = counts[p] /\ counts[p] > 0
        BY <1>0, <2>4, <3>2 DEF Counted, WithRows
      <4> DEFINE n == SplitPath(p)
      <4> HIDE DEF n
      <4>3. /\ n \in DOMAIN new /\ n # at /\ n \in DOMAIN tree
            /\ tree[n].count = counts[p] /\ counts[p] > 0
        BY <2>2, <4>1, <4>2 DEF n
      <4>4. new[n].count = tree[n].count
        BY <2>1, <4>3 DEF Inserted
      <4>5. QED
        BY <4>3, <4>4 DEF n
    <3>3. QED
      BY <3>1, <3>2
  <2>5. ASSUME Apart, NEW n \in DOMAIN new
        PROVE  new[n].stats = new[n].count
    <3>1. CASE n = at
      BY <2>1, <3>1 DEF Inserted
    <3>2. CASE n # at /\ n \in DOMAIN tree /\ new[n].count = tree[n].count
      <4>1. tree[n].stats = tree[n].count /\ tree[n].count \in Nat
        BY <2>5, <3>2 DEF Counted, TreeOK
      <4>2. CASE tree[n].count = 0
        BY <2>1, <3>2, <4>1, <4>2 DEF Inserted
      <4>3. CASE tree[n].count > 0
        <5>1. PICK p \in in : SplitPath(p) = n
          BY <3>2, <4>3 DEF Counted
        <5>2. p \in WithRows(counts)
          BY <1>0, <5>1
        <5>3. n \notin PathPrefixes(at)
          <6>1. SUFFICES ASSUME n \in PathPrefixes(at) PROVE FALSE
            OBVIOUS
          <6>2. at \in Seq(STRING)
            BY <1>0, PathTypes
          <6>3. n # Root
            BY <6>1, <6>2, PrefixTypes DEF Root
          <6>4. Through(p, q)
            BY <3>2, <5>1, <6>1, <6>3 DEF Through
          <6>5. QED
            BY <2>5, <5>2, <6>4
        <5>4. new[n].stats = tree[n].stats
          BY <2>1, <3>2, <4>3, <5>3 DEF Inserted
        <5>5. QED
          BY <3>2, <4>1, <5>4
      <4>4. QED
        BY <4>1, <4>2, <4>3
    <3>3. CASE n # at /\ ~(n \in DOMAIN tree /\ new[n].count = tree[n].count)
      BY <2>1, <3>3 DEF Inserted
    <3>4. QED
      BY <3>1, <3>2, <3>3
  <2>6. Counted(new, counts, in \cup {q})
    BY <2>3, <2>4, <2>5 DEF Counted
  <2>7. QED
    BY <2>6 DEF new
<1>3. QED
  BY <1>1, <1>2

-----------------------------------------------------------------------------
(***************************************************************************)
(* GetAPIMap                                                               *)
(***************************************************************************)
\* All nodes are under the root.
LEMMA BelowRoot ==
    ASSUME NEW tree, TreeOK(tree)
    PROVE  Below(tree, Root) = DOMAIN tree
<1>1. \A n \in DOMAIN tree : n \in Seq(STRING)
  BY DEF TreeOK
<1>2. Root = <<>> /\ Len(<<>>) = 0
  BY DEF Root
<1>3. \A n \in DOMAIN tree : Len(n) \in Nat /\ SubSeq(n, 1, 0) = <<>>
  BY <1>1
<1>4. \A n \in DOMAIN tree :
        Len(Root) <= Len(n) /\ SubSeq(n, 1, Len(Root)) = Root
  BY <1>2, <1>3
<1>5. QED
  BY <1>4 DEF Below

\* The nodes have no more counts than the paths, and no fewer if each path has
\* a node of its own.
LEMMA NodesAndPaths ==
    ASSUME NEW tree, TreeOK(tree),
           NEW counts \in [Paths -> Nat], Counted(tree, counts, WithRows(counts)),
           NEW cnt, cnt = Field(tree, "count")
    PROVE  /\ SumOf(cnt, DOMAIN tree) <= SumOf(counts, WithRows(counts))
           /\ (\A p, q \in WithRows(counts) : ~SameNode(p, q) /\ ~NoNode(p)) =>
                SumOf(cnt, DOMAIN tree) = SumOf(counts, WithRows(counts))
<1> DEFINE D == DOMAIN tree
           P == WithRows(counts)
           N == {n \in D : cnt[n] > 0}
           Z == D \ N
<1>1. cnt \in [D -> Nat] /\ \A n \in D : cnt[n] = tree[n].count
  BY DEF Field, TreeOK
<1>2. IsFiniteSet(D) /\ P \in SUBSET Paths
  BY DEF TreeOK, WithRows
<1>3. /\ N \in SUBSET D /\ Z \in SUBSET D /\ N \cap Z = {}
      /\ \A n \in Z : cnt[n] = 0
  <2>1. \A n \in Z : cnt[n] \in Nat /\ ~(cnt[n] > 0)
    BY <1>1
  <2>2. \A n \in Z : cnt[n] = 0
    BY <2>1
  <2>3. QED
    BY <2>2
<1> DEFINE all == N \cup Z
<1>4. all = D
  OBVIOUS
<1>5. /\ \A n \in N : \E p \in P : SplitPath(p) = n /\ cnt[n] = counts[p]
      /\ (\A p, q \in P : ~SameNode(p, q)) =>
           \A p \in P : ~NoNode(p) =>
             SplitPath(p) \in D /\ cnt[SplitPath(p)] = counts[p]
  BY <1>1 DEF Counted
<1> HIDE DEF D, P, N, Z, all
<1>6. IsFiniteSet(P) /\ IsFiniteSet(N) /\ IsFiniteSet(Z)
  <2>1. IsFiniteSet(P)
    BY <1>2, PathTypes, FS_Subset
  <2>2. QED
    BY <1>2, <1>3, <2>1, FS_Subset
<1>7. SumOf(cnt, D) = SumOf(cnt, N)
  <2>1. SumOf(cnt, all) = SumOf(cnt, N) + SumOf(cnt, Z)
    BY <1>1, <1>3, <1>6, SumAdd DEF all
  <2>2. SumOf(cnt, Z) = 0
    BY <1>3, <1>6, SumZero
  <2>3. SumOf(cnt, N) \in Nat
    BY <1>1, <1>3, <1>6, SumType
  <2>4. QED
    BY <1>4, <2>1, <2>2, <2>3
<1>8. SumOf(cnt, N) <= SumOf(counts, P)
  <2> DEFINE w == [n \in N |-> CHOOSE p \in P : SplitPath(p) = n /\ cnt[n] = counts[p]]
  <2>1. \A n \in N : w[n] \in P /\ SplitPath(w[n]) = n /\ cnt[n] = counts[w[n]]
    BY <1>5
  <2>2. w \in [N -> P]
    BY <2>1
  <2> HIDE DEF w
  <2>3. \A m, n \in N : w[m] = w[n] => m = n
    BY <2>1
  <2>4. \A n \in N : cnt[n] <= counts[w[n]]
    BY <1>1, <1>3, <2>1
  <2>5. QED
    BY <1>1, <1>2, <1>3, <1>6, <2>2, <2>3, <2>4, SumInto
<1>9. ASSUME \A p, q \in P : ~SameNode(p, q) /\ ~NoNode(p)
      PROVE  SumOf(counts, P) <= SumOf(cnt, D)
  <2> DEFINE w == [p \in P |-> SplitPath(p)]
  <2>1. \A p \in P : w[p] \in D /\ cnt[w[p]] = counts[p]
    BY <1>5, <1>9
  <2>2. w \in [P -> D]
    BY <2>1
  <2>3. \A p, q \in P : w[p] = w[q] => p = q
    BY <1>9 DEF SameNode
  <2> HIDE DEF w
  <2>4. \A p \in P : counts[p] <= cnt[w[p]]
    BY <1>1, <2>1
  <2>5. QED
    BY <1>1, <1>2, <1>6, <2>2, <2>3, <2>4, SumInto
<1>10. SumOf(cnt, D) \in Nat /\ SumOf(counts, P) \in Nat
  BY <1>1, <1>2, <1>6, SumType
<1>11. QED
  BY <1>7, <1>8, <1>9, <1>10 DEF D, P

\* What GetAPIMap returns when all paths are in the tree.
LEMMA RootIsExact ==
    ASSUME NEW tree, TreeOK(tree),
           NEW counts \in [Paths -> Nat], Counted(tree, counts, WithRows(counts)),
           NEW root, root = AggregateNodeStats(tree)[Root]
    PROVE  /\ root.stats <= root.count
           /\ root.count <= SumOf(counts, WithRows(counts))
           /\ (\A p, q \in WithRows(counts) : ~SameNode(p, q) /\ ~NoNode(p)) =>
                root.count = SumOf(counts, WithRows(counts))
           /\ (\A p, q \in WithRows(counts) : ~Through(p, q)) => root.stats = root.count
<1> DEFINE D == DOMAIN tree
           cnt == Field(tree, "count")
           st == Field(tree, "stats")
<1>1. root.count = SumOf(cnt, D) /\ root.stats = SumOf(st, D)
  <2>1. Root \in D
    BY DEF TreeOK
  <2>2. QED
    BY <2>1, AggregateIs, BelowRoot
<1>2. /\ cnt \in [D -> Nat] /\ st \in [D -> Nat] /\ IsFiniteSet(D)
      /\ \A n \in D : cnt[n] = tree[n].count /\ st[n] = tree[n].stats /\ st[n] <= cnt[n]
  BY DEF Field, TreeOK
<1>3. /\ SumOf(cnt, D) <= SumOf(counts, WithRows(counts))
      /\ (\A p, q \in WithRows(counts) : ~SameNode(p, q) /\ ~NoNode(p)) =>
           SumOf(cnt, D) = SumOf(counts, WithRows(counts))
  BY NodesAndPaths
<1> HIDE DEF cnt, st, D
<1>4. SumOf(st, D) <= SumOf(cnt, D) /\ SumOf(st, D) \in Nat /\ SumOf(cnt, D) \in Nat
  BY <1>2, SumAtMost
<1>5. ASSUME \A p, q \in WithRows(counts) : ~Through(p, q)
      PROVE  SumOf(st, D) = SumOf(cnt, D)
  <2>1. \A n \in D : cnt[n] <= st[n]
    <3>1. \A n \in D : tree[n].stats = tree[n].count
      BY <1>5 DEF Counted, D
    <3>2. QED
      BY <1>2, <3>1
  <2>2. SumOf(cnt, D) <= SumOf(st, D)
    BY <1>2, <2>1, SumAtMost
  <2>3. QED
    BY <1>4, <2>2
<1>6. QED
  BY <1>1, <1>3, <1>4, <1>5

\* The call of GetAPIMap under way: its tree has the paths that are not left.
MapInv ==
    apiMap # None =>
      LET paths == WithRows(apiMap.counts) IN
      /\ apiMap = [counts |-> apiMap.counts, tree |-> apiMap.tree, left |-> apiMap.left]
      /\ apiMap.counts \in [Paths -> 0 .. MaxRows]
      /\ apiMap.left \subseteq paths
      /\ TreeOK(apiMap.tree)
      /\ Counted(apiMap.tree, apiMap.counts, paths \ apiMap.left)

\* The empty tree.
LEMMA EmptyTreeOK ==
    ASSUME NEW counts
    PROVE  TreeOK(EmptyTree) /\ Counted(EmptyTree, counts, {})
<1> DEFINE T == EmptyTree
<1>1. /\ DOMAIN T = {<<>>} /\ T \in [{<<>>} -> [leaf : BOOLEAN, count : Nat, stats : Nat]]
      /\ T[<<>>].count = 0 /\ T[<<>>].stats = 0
  BY DEF EmptyTree, NewNode, Root
<1>2. <<>> \in Seq(STRING) /\ PathPrefixes(<<>>) = {}
  BY DEF PathPrefixes
<1>3. IsFiniteSet({<<>>})
  BY FS_Singleton
<1> HIDE DEF T
<1>4. TreeOK(T)
  BY <1>1, <1>2, <1>3 DEF TreeOK, Root
<1>5. Counted(T, counts, {})
  BY <1>1 DEF Counted
<1>6. QED
  BY <1>4, <1>5 DEF T

\* The steps of GetAPIMap: the query, one path after the other, the answer.
LEMMA MapStep ==
    ASSUME ViewTypes, MapInv,
           (\E h \in Hosts : MapQuery(h)) \/ MapInsert \/ MapReturn
    PROVE  MapInv'
<1>1. ASSUME NEW h \in Hosts, MapQuery(h) PROVE MapInv'
  <2> DEFINE asked == Asked(h)
             counts == [p \in Paths |-> SumOf(db, {k \in asked : k.path = p})]
             left == {p \in Paths : counts[p] > 0}
  <2>1. apiMap' = [counts |-> counts, tree |-> EmptyTree, left |-> left]
    BY <1>1 DEF MapQuery, SumOf, MapThenSumSet, MapThenFoldSet
  <2>2. counts \in [Paths -> 0 .. MaxRows]
    <3>1. db \in [Kinds -> Nat] /\ Rows(db) <= MaxRows
      BY ViewBounds DEF ViewTypes
    <3>2. asked \in SUBSET Kinds
      BY DEF Asked
    <3> HIDE DEF asked
    <3>3. \A p \in Paths : SumOf(db, {k \in asked : k.path = p}) \in 0 .. MaxRows
      BY <3>1, <3>2, PartOfRows
    <3>4. QED
      BY <3>3
  <2> HIDE DEF counts
  <2>3. left = WithRows(counts) /\ WithRows(counts) \ left = {}
    BY DEF WithRows
  <2> HIDE DEF left
  <2>4. /\ apiMap'.counts = counts /\ apiMap'.tree = EmptyTree /\ apiMap'.left = left
    BY <2>1
  <2>5. QED
    BY <2>1, <2>2, <2>3, <2>4, EmptyTreeOK DEF MapInv
<1>2. CASE MapInsert
  <2> DEFINE tree == apiMap.tree
             counts == apiMap.counts
             left == apiMap.left
             paths == WithRows(counts)
  <2>1. PICK p \in left :
          apiMap' = [apiMap EXCEPT !.left = @ \ {p},
                                   !.tree = InsertPath(@, p, counts[p])]
    BY <1>2 DEF MapInsert
  <2>2. /\ apiMap = [counts |-> counts, tree |-> tree, left |-> left]
        /\ counts \in [Paths -> 0 .. MaxRows]
        /\ left \subseteq paths
        /\ TreeOK(tree) /\ Counted(tree, counts, paths \ left)
    BY <1>2 DEF MapInsert, MapInv
  <2> DEFINE new == InsertPath(tree, p, counts[p])
  <2>3. apiMap'.counts = counts /\ apiMap'.tree = new /\ apiMap'.left = left \ {p}
        /\ apiMap' = [counts |-> counts, tree |-> new, left |-> left \ {p}]
    BY <2>1, <2>2
  <2>4. /\ counts \in [Paths -> Nat] /\ p \in paths /\ p \notin paths \ left
        /\ p \in Paths /\ counts[p] \in Nat
        /\ paths \ (left \ {p}) = (paths \ left) \cup {p}
    BY <2>1, <2>2, ViewBounds DEF WithRows
  <2> HIDE DEF tree, counts, left, new, paths
  <2>5. TreeOK(new)
    BY <2>2, <2>4, InsertTree DEF new
  <2>6. Counted(new, counts, (paths \ left) \cup {p})
    BY <2>2, <2>4, InsertCounted DEF new, paths
  <2>7. left \ {p} \subseteq paths
    BY <2>2
  <2>8. QED
    BY <2>2, <2>3, <2>4, <2>5, <2>6, <2>7 DEF MapInv, paths
<1>3. CASE MapReturn
  BY <1>3 DEF MapReturn, MapInv
<1>4. QED
  BY <1>1, <1>2, <1>3

-----------------------------------------------------------------------------
\* The inductive invariant.
ViewsIInv == ViewTypes /\ CacheInv /\ MapInv

\* It holds at the start ...
LEMMA ViewsBegin == ViewsInit => ViewsIInv
  BY InitViews DEF ViewsInit, ViewsIInv, MapInv

\* ... and after every step: of a writer, of a reader, of GetAPIMap.
LEMMA ViewsStep ==
    ASSUME ViewsIInv, [ViewsNext]_viewsVars
    PROVE  ViewsIInv'
<1> USE DEF listVars
<1>1. CASE UNCHANGED viewsVars
  <2>1. UNCHANGED <<db, mu, cache, pc, snap, raced, partial, apiMap>>
    BY <1>1 DEF viewsVars
  <2>2. Rows(db)' = Rows(db) /\ Merged(db)' = Merged(db)
    BY <2>1
  <2>3. QED
    BY <2>1, <2>2 DEF ViewsIInv, ViewTypes, CacheInv, MapInv
<1>2. CASE Save \/ Delete \/ SetStarred \/ Clear \/ Cleanup
  <2>1. apiMap' = apiMap
    BY <1>2 DEF Save, Delete, SetStarred, Clear, Cleanup
  <2>2. MapInv'
    BY <2>1 DEF ViewsIInv, MapInv
  <2>3. QED
    BY <1>2, <2>2, WriteStep DEF ViewsIInv
<1>3. CASE \/ DeleteLogs \/ Reset \/ Tick
           \/ \E r \in Readers : Look(r) \/ Query(r) \/ Fill(r)
  <2>1. apiMap' = apiMap
    BY <1>3 DEF DeleteLogs, Reset, Tick, Look, Query, Fill
  <2>2. MapInv'
    BY <2>1 DEF ViewsIInv, MapInv
  <2>3. QED
    BY <1>3, <2>2, ReadStep DEF ViewsIInv
<1>4. CASE (\E h \in Hosts : MapQuery(h)) \/ MapInsert \/ MapReturn
  <2>1. UNCHANGED <<db, mu, cache, pc, snap, raced, partial>>
    BY <1>4 DEF MapQuery, MapInsert, MapReturn
  <2>2. Rows(db)' = Rows(db) /\ Merged(db)' = Merged(db)
    BY <2>1
  <2>3. ViewTypes' /\ CacheInv'
    BY <2>1, <2>2 DEF ViewsIInv, ViewTypes, CacheInv
  <2>4. QED
    BY <1>4, <2>3, MapStep DEF ViewsIInv
<1>5. QED
  BY <1>1, <1>2, <1>3, <1>4 DEF ViewsNext

\* The inductive invariant holds in every state of the store and its readers.
THEOREM ViewsInvariance == ViewsSpec => []ViewsIInv
<1>1. ViewsInit => ViewsIInv
  BY ViewsBegin
<1>2. ViewsIInv /\ [ViewsNext]_viewsVars => ViewsIInv'
  BY ViewsStep
<1>3. QED
  BY <1>1, <1>2, PTL DEF ViewsSpec

\* ListHosts serves a list from the cache only if it is the one in the database,
\* or a write fell between the query and the fill, or a deletion failed halfway.
THEOREM HostsAreFresh == ViewsSpec => []ViewsInv
<1>1. ViewsIInv => ViewsInv
  <2>1. SUFFICES ASSUME ViewsIInv PROVE ViewsInv
    OBVIOUS
  <2>2. apiMap # None =>
          /\ apiMap.counts \in [Paths -> 0 .. MaxRows]
          /\ apiMap.left \subseteq Paths
          /\ Root \in DOMAIN apiMap.tree
    BY <2>1 DEF ViewsIInv, MapInv, WithRows, TreeOK
  <2>3. ViewsTypeOK
    BY <2>1, <2>2 DEF ViewsIInv, ViewTypes, ViewsTypeOK
  <2>4. FreshUnlessRaced
    BY <2>1 DEF ViewsIInv, CacheInv, FreshUnlessRaced, Servable
  <2>5. QED
    BY <2>3, <2>4 DEF ViewsInv
<1>2. QED
  BY <1>1, ViewsInvariance, PTL

\* GetAPIMap counts every request once, whatever the order in which Go walks the
\* map of the paths, unless paths share a node or have none; the numbers by
\* status are as many, unless one path leads through another.
THEOREM MapsAreExact == ViewsSpec => []MapIsExact
<1>1. ViewsIInv => MapIsExact
  <2> DEFINE counts == apiMap.counts
             tree == apiMap.tree
             paths == {p \in Paths : counts[p] > 0}
             root == AggregateNodeStats(tree)[Root]
             rows == MapThenSumSet(LAMBDA p : counts[p], paths)
             Exact == /\ root.stats <= root.count
                      /\ root.count <= rows
                      /\ (\A p, q \in paths : ~SameNode(p, q) /\ ~NoNode(p)) => root.count = rows
                      /\ (\A p, q \in paths : ~Through(p, q)) => root.stats = root.count
  <2>1. SUFFICES ASSUME ViewsIInv, apiMap # None, apiMap.left = {}
                 PROVE  Exact
    BY DEF MapIsExact
  <2>2. rows = SumOf(counts, paths)
    BY DEF SumOf, MapThenSumSet, MapThenFoldSet
  <2>3. paths = WithRows(counts)
    BY DEF WithRows
  <2>4. TreeOK(tree) /\ Counted(tree, counts, WithRows(counts)) /\ counts \in [Paths -> Nat]
    <3>1. WithRows(counts) \ apiMap.left = WithRows(counts)
      BY <2>1
    <3>2. QED
      BY <2>1, <3>1, ViewBounds DEF ViewsIInv, MapInv
  <2> HIDE DEF counts, tree, paths, rows, root
  <2>5. QED
    BY <2>2, <2>3, <2>4, RootIsExact DEF root
<1>2. QED
  BY <1>1, ViewsInvariance, PTL
=============================================================================
