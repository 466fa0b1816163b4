--------------------------- MODULE SequenceLemmas ---------------------------
(***************************************************************************)
(* What several proofs need of numbers and sequences: induction by a least *)
(* element, functions defined by recursion, elements of joined sequences.  *)
(***************************************************************************)
EXTENDS SequencesExt, WellFoundedInduction, SequenceTheorems, TLAPS

\* Every set of naturals that is not empty has a least element.
LEMMA Least ==
  ASSUME NEW T \in SUBSET Nat, T # {}
  PROVE  \E x \in T : \A y \in T : x <= y
<1> DEFINE R == {ss \in Nat \X Nat : ss[1] < ss[2]}
<1>1. IsWellFoundedOn(R, Nat)
  BY NatLessThanWellFounded DEF OpToRel
<1>2. \E x \in T : \A y \in T : <<y, x>> \notin R
  <2> HIDE DEF R
  <2> QED BY <1>1, WFMin
<1>3. \A x, y \in Nat : <<y, x>> \notin R => x <= y
  OBVIOUS
<1> HIDE DEF R
<1> QED BY <1>2, <1>3

\* A set that has 0, and with a number the next one, has all naturals.
LEMMA Everywhere ==
  ASSUME NEW H, 0 \in H, \A n \in Nat : n \in H => n + 1 \in H
  PROVE  Nat \subseteq H
<1> DEFINE T == Nat \ H
<1>1. SUFFICES ASSUME T # {} PROVE FALSE
  OBVIOUS
<1>2. PICK n \in T : \A m \in T : n <= m
  BY <1>1, Least
<1>3. n # 0 /\ n - 1 \in Nat /\ n - 1 \notin T
  BY <1>2
<1>4. (n - 1) + 1 \in H
  BY <1>3
<1> QED
  BY <1>2, <1>4

\* The functions on the naturals with that first value whose next value is what G
\* makes of the number and the value.
Recursion(S, first, G) ==
  {f \in [Nat -> S] : f[0] = first /\ \A n \in Nat : f[n + 1] = G[<<n, f[n]>>]}

\* A function on the naturals may be defined by its first value and by what makes
\* the next value out of a value.
LEMMA NatRecursion ==
  ASSUME NEW S, NEW first \in S, NEW G \in [Nat \X S -> S]
  PROVE  \E f : f \in Recursion(S, first, G)
<1> DEFINE Upto(k) == {f \in [0..k -> S] : /\ f[0] = first
                                           /\ \A n \in 0..(k - 1) : f[n + 1] = G[<<n, f[n]>>]}
<1>1. \A k \in Nat : Upto(k) # {}
  <2> DEFINE H == {k \in Nat : Upto(k) # {}}
  <2>1. 0 \in H
    <3> DEFINE f == [n \in 0..0 |-> first]
    <3>1. f \in Upto(0)
      OBVIOUS
    <3> QED
      BY <3>1
  <2>2. ASSUME NEW k \in Nat, k \in H PROVE k + 1 \in H
    <3>1. PICK f : f \in Upto(k)
      BY <2>2
    <3> DEFINE g == [n \in 0..(k + 1) |-> IF n = k + 1 THEN G[<<k, f[k]>>] ELSE f[n]]
    <3>2. f[k] \in S /\ G[<<k, f[k]>>] \in S
      BY <3>1
    <3>3. g \in [0..(k + 1) -> S]
      BY <3>1, <3>2
    <3>4. \A n \in 0..k : g[n] = f[n] /\ n # k + 1
      OBVIOUS
    <3>5. g[0] = first
      BY <3>1, <3>4
    <3>6. ASSUME NEW n \in 0..k PROVE g[n + 1] = G[<<n, g[n]>>]
      <4>1. CASE n = k
        <5>1. g[k + 1] = G[<<k, f[k]>>] /\ g[k] = f[k] /\ k \in 0..k
          BY <3>4
        <5> HIDE DEF g
        <5> QED
          BY <4>1, <5>1
      <4>2. CASE n # k
        <5>1. n \in 0..(k - 1) /\ n + 1 \in 0..k
          BY <4>2
        <5> QED
          BY <3>1, <3>4, <5>1
      <4> QED
        BY <4>1, <4>2
    <3> HIDE DEF g
    <3>7. (k + 1) - 1 = k /\ k + 1 \in Nat
      OBVIOUS
    <3>8. g \in Upto(k + 1)
      BY <3>3, <3>5, <3>6, <3>7
    <3> QED
      BY <3>7, <3>8
  <2> HIDE DEF H
  <2>3. Nat \subseteq H
    BY <2>1, <2>2, Everywhere
  <2> QED
    BY <2>3 DEF H
<1>2. ASSUME NEW j \in Nat, NEW k \in Nat, NEW f \in Upto(j), NEW g \in Upto(k),
             NEW n \in Nat, n <= j, n <= k
      PROVE  f[n] = g[n]
  <2> DEFINE H == {m \in Nat : m <= j /\ m <= k => f[m] = g[m]}
  <2>1. 0 \in H
    OBVIOUS
  <2>2. ASSUME NEW m \in Nat, m \in H PROVE m + 1 \in H
    <3>1. CASE m + 1 <= j /\ m + 1 <= k
      <4>1. m \in 0..(j - 1) /\ m \in 0..(k - 1) /\ f[m] = g[m]
        BY <2>2, <3>1
      <4>2. f[m + 1] = G[<<m, f[m]>>] /\ g[m + 1] = G[<<m, g[m]>>]
        BY <4>1
      <4> QED
        BY <4>1, <4>2
    <3>2. CASE ~(m + 1 <= j /\ m + 1 <= k)
      BY <3>2
    <3> QED
      BY <3>1, <3>2
  <2> HIDE DEF H
  <2>3. Nat \subseteq H
    BY <2>1, <2>2, Everywhere
  <2> QED
    BY <1>2, <2>3 DEF H
<1> DEFINE one == [k \in Nat |-> CHOOSE f : f \in Upto(k)]
           h == [n \in Nat |-> one[n][n]]
<1>3. \A k \in Nat : one[k] \in Upto(k)
  BY <1>1
<1> HIDE DEF one
<1>4. ASSUME NEW n \in Nat PROVE one[n] \in [0..n -> S] /\ one[n][0] = first /\ one[n][n] \in S
  BY <1>3, <1>4
<1>5. ASSUME NEW n \in Nat PROVE h[n + 1] = G[<<n, h[n]>>]
  <2>1. one[n + 1] \in Upto(n + 1) /\ one[n] \in Upto(n) /\ n + 1 \in Nat
    BY <1>3
  <2>2. n <= n + 1 /\ n <= n /\ n \in 0..((n + 1) - 1)
    OBVIOUS
  <2>3. one[n + 1][n] = one[n][n]
    <3> HIDE DEF Upto
    <3> QED
      BY <1>2, <2>1, <2>2
  <2>4. one[n + 1][n + 1] = G[<<n, one[n + 1][n]>>]
    BY <2>1, <2>2
  <2> QED
    BY <2>1, <2>3, <2>4
<1>6. h \in [Nat -> S] /\ h[0] = first
  BY <1>4
<1> HIDE DEF h
<1> QED
  BY <1>5, <1>6 DEF Recursion

\* The functions up to N with that first value whose nth value is what G makes of n
\* and the value before.
Rounds(S, N, first, G) ==
  {f \in [0..N -> S] : f[0] = first /\ \A n \in 1..N : f[n] = G[<<n, f[n - 1]>>]}

LEMMA UpToRecursion ==
  ASSUME NEW S, NEW first \in S, NEW N \in Nat, NEW G \in [Nat \X S -> S]
  PROVE  \E f : f \in Rounds(S, N, first, G)
<1> DEFINE Next1 == [x \in Nat \X S |-> G[<<x[1] + 1, x[2]>>]]
<1>1. Next1 \in [Nat \X S -> S] /\ \A n \in Nat, v \in S : Next1[<<n, v>>] = G[<<n + 1, v>>]
  OBVIOUS
<1> HIDE DEF Next1
<1>2. PICK h : h \in Recursion(S, first, Next1)
  BY <1>1, NatRecursion
<1>3. h \in [Nat -> S] /\ h[0] = first /\ \A n \in Nat : h[n + 1] = G[<<n + 1, h[n]>>]
  BY <1>1, <1>2 DEF Recursion
<1> DEFINE f == [n \in 0..N |-> h[n]]
<1>4. f \in [0..N -> S] /\ f[0] = first
  BY <1>3
<1>5. ASSUME NEW n \in 1..N PROVE f[n] = G[<<n, f[n - 1]>>]
  <2>1. n - 1 \in Nat /\ (n - 1) + 1 = n /\ n \in 0..N /\ n - 1 \in 0..N
    OBVIOUS
  <2>2. h[n] = G[<<n, h[n - 1]>>]
    BY <1>3, <2>1
  <2> QED
    BY <2>1, <2>2
<1> HIDE DEF f
<1> QED
  BY <1>4, <1>5 DEF Rounds
-----------------------------------------------------------------------------
(* Elements of joined sequences *)

LEMMA JoinedElements ==
  ASSUME NEW S, NEW s \in Seq(S), NEW t \in Seq(S)
  PROVE  s \o t \in Seq(S) /\ ToSet(s \o t) = ToSet(s) \cup ToSet(t)
<1>1. /\ s \o t \in Seq(S) /\ Len(s) \in Nat /\ Len(t) \in Nat
      /\ Len(s \o t) = Len(s) + Len(t)
      /\ \A i \in 1..(Len(s) + Len(t)) :
           (s \o t)[i] = IF i <= Len(s) THEN s[i] ELSE t[i - Len(s)]
  BY ConcatProperties
<1>2. DOMAIN s = 1..Len(s) /\ DOMAIN t = 1..Len(t) /\ DOMAIN (s \o t) = 1..(Len(s) + Len(t))
  BY <1>1
<1>3. ASSUME NEW i \in DOMAIN s PROVE s[i] \in ToSet(s \o t)
  <2>1. i \in DOMAIN (s \o t) /\ (s \o t)[i] = s[i]
    BY <1>1, <1>2
  <2> QED
    BY <2>1 DEF ToSet
<1>4. ASSUME NEW i \in DOMAIN t PROVE t[i] \in ToSet(s \o t)
  <2>1. i + Len(s) \in DOMAIN (s \o t) /\ ~(i + Len(s) <= Len(s)) /\ (i + Len(s)) - Len(s) = i
    BY <1>1, <1>2
  <2>2. (s \o t)[i + Len(s)] = t[i]
    BY <1>1, <1>2, <2>1
  <2> QED
    BY <2>1, <2>2 DEF ToSet
<1>5. ASSUME NEW i \in DOMAIN (s \o t) PROVE (s \o t)[i] \in ToSet(s) \cup ToSet(t)
  <2>1. CASE i <= Len(s)
    BY <1>1, <1>2, <2>1 DEF ToSet
  <2>2. CASE ~(i <= Len(s))
    <3>1. i - Len(s) \in DOMAIN t /\ (s \o t)[i] = t[i - Len(s)]
      BY <1>1, <1>2, <2>2
    <3> QED
      BY <3>1 DEF ToSet
  <2> QED
    BY <2>1, <2>2
<1> QED
  BY <1>1, <1>3, <1>4, <1>5 DEF ToSet

\* The functions from a number of sequences to what joining that many of them makes.
Joinings(S, n, seqs) ==
  {f \in [1..n -> Seq(S)] : /\ FlattenSeq(seqs) = f[n]
                            /\ f[1] = seqs[1]
                            /\ \A i \in 2..n : f[i] = f[i - 1] \o seqs[i]}

\* FlattenSeq joins from the left.
LEMMA FlattenedUpTo ==
  ASSUME NEW S, NEW n \in Nat, n # 0, NEW seqs \in [1..n -> Seq(S)]
  PROVE  \E f : f \in Joinings(S, n, seqs)
<1> DEFINE Body(f) == [i \in 1..n |-> IF i = 1 THEN seqs[i] ELSE f[i - 1] \o seqs[i]]
           G == [x \in Nat \X Seq(S) |-> IF x[1] + 2 \in 1..n THEN x[2] \o seqs[x[1] + 2] ELSE x[2]]
<1>1. PICK h \in [Nat -> Seq(S)] : h[0] = seqs[1] /\ \A k \in Nat : h[k + 1] = G[<<k, h[k]>>]
  <2>1. seqs[1] \in Seq(S)
    OBVIOUS
  <2>2. G \in [Nat \X Seq(S) -> Seq(S)]
    OBVIOUS
  <2> HIDE DEF G
  <2> PICK T, first : T = Seq(S) /\ first = seqs[1]
    OBVIOUS
  <2>3. first \in T /\ G \in [Nat \X T -> T]
    BY <2>1, <2>2
  <2>4. PICK h : h \in Recursion(T, first, G)
    BY <2>3, NatRecursion
  <2> QED
    BY <2>4 DEF Recursion
<1> DEFINE f == [i \in 1..n |-> h[i - 1]]
<1>2. f \in [1..n -> Seq(S)] /\ f[1] = seqs[1]
  <2>1. \A i \in 1..n : i - 1 \in Nat /\ h[i - 1] \in Seq(S)
    OBVIOUS
  <2>2. 1 \in 1..n /\ 1 - 1 = 0
    OBVIOUS
  <2> QED
    BY <1>1, <2>1, <2>2
<1>3. ASSUME NEW i \in 2..n PROVE f[i] = f[i - 1] \o seqs[i]
  <2>1. i - 2 \in Nat /\ (i - 2) + 1 = i - 1 /\ (i - 2) + 2 = i /\ i - 1 \in 1..n /\ (i - 1) - 1 = i - 2
        /\ i \in 1..n
    OBVIOUS
  <2>2. h[i - 1] = G[<<i - 2, h[i - 2]>>]
    BY <1>1, <2>1
  <2>3. h[i - 2] \in Seq(S)
    BY <2>1
  <2>4. G[<<i - 2, h[i - 2]>>] = h[i - 2] \o seqs[i]
    BY <2>1, <2>3
  <2> HIDE DEF G
  <2> QED
    BY <2>1, <2>2, <2>4
<1>4. f = Body(f)
  <2> HIDE DEF f
  <2>1. ASSUME NEW i \in 1..n
        PROVE  f[i] = IF i = 1 THEN seqs[i] ELSE f[i - 1] \o seqs[i]
    <3>1. i = 1 \/ i \in 2..n
      OBVIOUS
    <3>2. \A j \in 2..n : j # 1
      OBVIOUS
    <3> QED
      BY <1>2, <1>3, <3>1, <3>2
  <2>2. f = [i \in 1..n |-> f[i]]
    BY <1>2
  <2> QED
    BY <2>1, <2>2
<1>5. \A g : g = Body(g) => g = f
  <2> SUFFICES ASSUME NEW g, g = Body(g) PROVE g = f
    OBVIOUS
  <2> DEFINE H == {k \in Nat : k + 1 \in 1..n => g[k + 1] = f[k + 1]}
  <2>0. ASSUME NEW i \in 1..n PROVE g[i] = IF i = 1 THEN seqs[i] ELSE g[i - 1] \o seqs[i]
    OBVIOUS
  <2> HIDE DEF f
  <2>1. 0 \in H
    BY <1>2, <2>0
  <2>2. ASSUME NEW k \in Nat, k \in H PROVE k + 1 \in H
    <3>1. SUFFICES ASSUME (k + 1) + 1 \in 1..n PROVE g[(k + 1) + 1] = f[(k + 1) + 1]
      OBVIOUS
    <3>2. k + 1 \in 1..n /\ (k + 1) + 1 \in 2..n /\ (k + 1) + 1 # 1 /\ ((k + 1) + 1) - 1 = k + 1
      BY <3>1
    <3>3. g[k + 1] = f[k + 1]
      BY <2>2, <3>2
    <3> PICK i \in 2..n : i = (k + 1) + 1
      BY <3>2
    <3>4. i - 1 = k + 1 /\ i # 1 /\ i \in 1..n
      BY <3>2
    <3>5. g[i] = g[i - 1] \o seqs[i]
      BY <2>0, <3>4
    <3> QED
      BY <1>3, <3>3, <3>4, <3>5
  <2> HIDE DEF H
  <2>3. Nat \subseteq H
    BY <2>1, <2>2, Everywhere
  <2>4. ASSUME NEW i \in 1..n PROVE g[i] = f[i]
    <3>1. i - 1 \in H /\ (i - 1) + 1 = i
      BY <2>3
    <3> QED
      BY <3>1 DEF H
  <2>5. DOMAIN g = 1..n /\ g = [i \in DOMAIN g |-> g[i]]
    OBVIOUS
  <2>6. f = [i \in 1..n |-> f[i]]
    BY <1>2
  <2> HIDE DEF Body
  <2> QED
    BY <2>4, <2>5, <2>6
<1>6. FlattenSeq(seqs) = f[n]
  <2>1. Len(seqs) = n
    OBVIOUS
  <2>2. FlattenSeq(seqs) = (CHOOSE g : g = Body(g))[n]
    BY <2>1 DEF FlattenSeq
  <2>3. (CHOOSE g : g = Body(g)) = f
    <3> HIDE DEF f, Body
    <3> QED
      BY <1>4, <1>5
  <2> QED
    BY <2>2, <2>3
<1> HIDE DEF f
<1> QED
  BY <1>2, <1>3, <1>6 DEF Joinings
\* FlattenSeq has the elements of the sequences it joins, and no others.
LEMMA FlattenedElements ==
  ASSUME NEW S, NEW n \in Nat, NEW seqs \in [1..n -> Seq(S)]
  PROVE  /\ FlattenSeq(seqs) \in Seq(S)
         /\ \A x : x \in ToSet(FlattenSeq(seqs)) <=> \E j \in 1..n : x \in ToSet(seqs[j])
<1>1. CASE n = 0
  <2>1. seqs = <<>>
    BY <1>1
  <2>2. FlattenSeq(seqs) = <<>>
    BY <2>1 DEF FlattenSeq
  <2> QED
    BY <1>1, <2>2 DEF ToSet
<1>2. CASE n # 0
  <2>0. PICK f : f \in Joinings(S, n, seqs)
    BY <1>2, FlattenedUpTo
  <2>1. /\ f \in [1..n -> Seq(S)] /\ FlattenSeq(seqs) = f[n] /\ f[1] = seqs[1]
        /\ \A i \in 2..n : f[i] = f[i - 1] \o seqs[i]
    BY <2>0 DEF Joinings
  <2> DEFINE Has(i) == \A x : x \in ToSet(f[i]) <=> \E j \in 1..i : x \in ToSet(seqs[j])
             H == {k \in Nat : k + 1 \in 1..n => Has(k + 1)}
  <2>2. 0 \in H
    <3>1. 1..1 = {1} /\ 0 + 1 = 1
      OBVIOUS
    <3>2. Has(0 + 1)
      BY <2>1, <3>1
    <3> HIDE DEF Has
    <3> QED
      BY <3>2
  <2>3. ASSUME NEW k \in Nat, k \in H PROVE k + 1 \in H
    <3>1. SUFFICES ASSUME (k + 1) + 1 \in 1..n PROVE Has((k + 1) + 1)
      OBVIOUS
    <3> PICK i \in 2..n : i = (k + 1) + 1
      BY <3>1
    <3>2. i - 1 = k + 1 /\ i \in 1..n /\ i - 1 \in 1..n /\ k + 1 \in 1..n
      OBVIOUS
    <3>3. Has(i - 1)
      BY <2>3, <3>2
    <3>4. f[i] = f[i - 1] \o seqs[i] /\ f[i - 1] \in Seq(S) /\ seqs[i] \in Seq(S)
      BY <2>1, <3>2
    <3>5. ToSet(f[i]) = ToSet(f[i - 1]) \cup ToSet(seqs[i])
      BY <3>4, JoinedElements
    <3>6. 1..i = (1..(i - 1)) \cup {i}
      OBVIOUS
    <3>7. Has(i)
      BY <3>3, <3>5, <3>6
    <3> HIDE DEF Has
    <3> QED
      BY <3>7
  <2> HIDE DEF H
  <2>4. Nat \subseteq H
    BY <2>2, <2>3, Everywhere
  <2>5. n - 1 \in H /\ (n - 1) + 1 = n /\ n \in 1..n
    BY <1>2, <2>4
  <2>6. Has(n)
    <3> HIDE DEF Has
    <3> QED
      BY <2>5 DEF H
  <2> QED
    BY <2>1, <2>5, <2>6
<1> QED
  BY <1>1, <1>2
LEMMA JoinedPair ==
  ASSUME NEW S, NEW s \in Seq(S), NEW t \in Seq(S)
  PROVE  FlattenSeq(<<s, t>>) = s \o t
<1> PICK n, seqs : n = 2 /\ seqs = <<s, t>>
  OBVIOUS
<1>1. n \in Nat /\ n # 0 /\ seqs \in [1..n -> Seq(S)]
  OBVIOUS
<1>2. PICK f : f \in Joinings(S, n, seqs)
  BY <1>1, FlattenedUpTo
<1>3. f[1] = s /\ f[2] = f[2 - 1] \o t /\ FlattenSeq(seqs) = f[2]
  <2>1. f[1] = seqs[1] /\ FlattenSeq(seqs) = f[n] /\ \A i \in 2..n : f[i] = f[i - 1] \o seqs[i]
    BY <1>2 DEF Joinings
  <2>2. 2 \in 2..n
    OBVIOUS
  <2> QED
    BY <2>1, <2>2
<1>4. 2 - 1 = 1
  OBVIOUS
<1>5. f[2] = s \o t
  BY <1>3, <1>4
<1> QED
  BY <1>3, <1>5

=============================================================================
