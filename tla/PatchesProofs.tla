---------------------------- MODULE PatchesProofs ---------------------------
(***************************************************************************)
(* What diffLines, buildUnifiedDiffBody and applyUnifiedDiff compute, for  *)
(* files of any length, and with it the theorems of DiffRoundTrip and      *)
(* PatchApplier.                                                           *)
(***************************************************************************)
EXTENDS DiffRoundTrip, PatchApplier, SequenceLemmas, FiniteSetTheorems

-----------------------------------------------------------------------------
(* Counting places *)

\* The number of places before k starts at none, grows by one at each place and ends at all of them.
LEMMA BeforeCounts ==
  ASSUME NEW L \in Nat, NEW P \in SUBSET (1..L)
  PROVE  /\ Cardinality(P) \in Nat
         /\ \A k \in Nat : Before(P, k) \in Nat
         /\ Before(P, 1) = 0
         /\ Before(P, L + 1) = Cardinality(P)
         /\ \A k \in Nat : Before(P, k + 1) = Before(P, k) + (IF k \in P THEN 1 ELSE 0)
<1>0. IsFiniteSet(P) /\ Cardinality(P) \in Nat /\ \A p \in P : p \in Int /\ 1 <= p /\ p <= L
  <2>1. IsFiniteSet(1..L)
    BY FS_Interval
  <2>2. IsFiniteSet(P)
    BY <2>1, FS_Subset
  <2>3. Cardinality(P) \in Nat
    BY <2>2, FS_CardinalityType
  <2> QED
    BY <2>2, <2>3
<1> DEFINE Below(k) == {p \in P : p < k}
<1>1. \A k : IsFiniteSet(Below(k)) /\ Cardinality(Below(k)) \in Nat
  <2> SUFFICES ASSUME NEW k PROVE IsFiniteSet(Below(k)) /\ Cardinality(Below(k)) \in Nat
    OBVIOUS
  <2>1. Below(k) \in SUBSET P
    OBVIOUS
  <2> HIDE DEF Below
  <2>2. IsFiniteSet(Below(k))
    BY <1>0, <2>1, FS_Subset
  <2> QED
    BY <2>2, FS_CardinalityType
<1>2. Below(1) = {} /\ Below(L + 1) = P
  <2>1. \A p \in P : ~(p < 1) /\ p < L + 1
    BY <1>0
  <2> QED
    BY <2>1, Zenon
<1>3. ASSUME NEW k \in Nat
      PROVE  Cardinality(Below(k + 1)) = Cardinality(Below(k)) + (IF k \in P THEN 1 ELSE 0)
  <2>0. \A p \in P : p < k + 1 <=> p < k \/ p = k
    BY <1>0
  <2>1. CASE k \in P
    <3>1. Below(k + 1) = Below(k) \cup {k}
      BY <2>0, <2>1, Zenon
    <3>2. k \notin Below(k)
      OBVIOUS
    <3> HIDE DEF Below
    <3> QED
      BY <1>1, <2>1, <3>1, <3>2, FS_AddElement
  <2>2. CASE k \notin P
    <3>0. \A p \in P : p < k + 1 <=> p < k
      BY <2>0, <2>2
    <3>1. Below(k + 1) = Below(k)
      BY <3>0, Zenon
    <3> HIDE DEF Below
    <3> QED
      BY <1>1, <2>2, <3>1
  <2> QED
    BY <2>1, <2>2
<1>4. \A k : Before(P, k) = Cardinality(Below(k))
  BY DEF Before
<1> HIDE DEF Below
<1> QED
  BY <1>0, <1>1, <1>2, <1>3, <1>4, FS_EmptySet

\* From j to k the count grows by one at every place between, and so by k - j at most.
LEMMA BeforeGrows ==
  ASSUME NEW L \in Nat, NEW P \in SUBSET (1..L), NEW j \in Nat, NEW k \in Nat, j <= k
  PROVE  /\ Before(P, j) <= Before(P, k)
         /\ Before(P, k) <= Before(P, j) + (k - j)
         /\ j..(k - 1) \subseteq P => Before(P, k) = Before(P, j) + (k - j)
         /\ (\E i \in j..(k - 1) : i \in P) => Before(P, j) < Before(P, k)
<1> DEFINE B(i) == Before(P, i)
           Good(d) == /\ B(j) <= B(j + d)
                      /\ B(j + d) <= B(j) + d
                      /\ j..((j + d) - 1) \subseteq P => B(j + d) = B(j) + d
                      /\ (\E i \in j..((j + d) - 1) : i \in P) => B(j) < B(j + d)
           H == {d \in Nat : Good(d)}
<1>1. \A i \in Nat : B(i) \in Nat /\ B(i + 1) = B(i) + (IF i \in P THEN 1 ELSE 0)
  BY BeforeCounts
<1> HIDE DEF B
<1>2. 0 \in H
  BY <1>1
<1>3. ASSUME NEW d \in Nat, d \in H PROVE d + 1 \in H
  <2>1. /\ B(j) \in Nat /\ B(j + d) \in Nat /\ B(j + (d + 1)) \in Nat
        /\ B(j + (d + 1)) = B(j + d) + (IF j + d \in P THEN 1 ELSE 0)
    <3>1. j + d \in Nat /\ (j + d) + 1 = j + (d + 1)
      OBVIOUS
    <3> QED
      BY <1>1, <3>1
  <2>2. j..((j + (d + 1)) - 1) = (j..((j + d) - 1)) \cup {j + d}
    OBVIOUS
  <2>3. Good(d)
    BY <1>3
  <2>4. Good(d + 1)
    <3>1. B(j) <= B(j + (d + 1)) /\ B(j + (d + 1)) <= B(j) + (d + 1)
      BY <2>1, <2>3
    <3>2. j..((j + (d + 1)) - 1) \subseteq P => B(j + (d + 1)) = B(j) + (d + 1)
      BY <2>1, <2>2, <2>3
    <3>3. (\E i \in j..((j + (d + 1)) - 1) : i \in P) => B(j) < B(j + (d + 1))
      BY <2>1, <2>2, <2>3
    <3> QED
      BY <3>1, <3>2, <3>3
  <2> HIDE DEF Good
  <2> QED
    BY <2>4
<1> HIDE DEF H
<1>4. Nat \subseteq H
  BY <1>2, <1>3, Everywhere
<1>5. k - j \in H /\ j + (k - j) = k
  BY <1>4
<1>6. Good(k - j)
  <2> HIDE DEF Good
  <2> QED
    BY <1>5 DEF H
<1> QED
  BY <1>5, <1>6 DEF B

\* The nth of the places, and the number of a place.
LEMMA Numbered ==
  ASSUME NEW L \in Nat, NEW P \in SUBSET (1..L)
  PROVE  /\ \A n \in 1..Cardinality(P) : Nth(P, n) \in P /\ Before(P, Nth(P, n)) = n - 1
         /\ \A k \in P : /\ Before(P, k) + 1 \in 1..Cardinality(P)
                         /\ Nth(P, Before(P, k) + 1) = k
         /\ \A m, n \in 1..Cardinality(P) : m < n => Nth(P, m) < Nth(P, n)
         /\ \A j, k \in P : Before(P, j) = Before(P, k) => j = k
<1> DEFINE H == {k \in Nat : \A n \in 1..Before(P, k + 1) : \E p \in P : Before(P, p) = n - 1}
<1>0. /\ Cardinality(P) \in Nat /\ Before(P, 1) = 0 /\ Before(P, L + 1) = Cardinality(P)
      /\ \A k \in Nat : Before(P, k) \in Nat
      /\ \A k \in Nat : Before(P, k + 1) = Before(P, k) + (IF k \in P THEN 1 ELSE 0)
  BY BeforeCounts
<1>1. 0 \in H
  BY <1>0
<1>2. ASSUME NEW k \in Nat, k \in H PROVE k + 1 \in H
  <2>1. SUFFICES ASSUME NEW n \in 1..Before(P, (k + 1) + 1)
                 PROVE  \E p \in P : Before(P, p) = n - 1
    OBVIOUS
  <2>2. Before(P, (k + 1) + 1) = Before(P, k + 1) + (IF k + 1 \in P THEN 1 ELSE 0)
        /\ Before(P, k + 1) \in Nat
    BY <1>0
  <2>3. CASE n <= Before(P, k + 1)
    BY <1>2, <2>2, <2>3
  <2>4. CASE n > Before(P, k + 1)
    <3>1. k + 1 \in P /\ n - 1 = Before(P, k + 1)
      BY <2>2, <2>4
    <3> QED
      BY <3>1
  <2> QED
    BY <2>2, <2>3, <2>4
<1> HIDE DEF H
<1>3. Nat \subseteq H
  BY <1>1, <1>2, Everywhere
<1>4. \A n \in 1..Cardinality(P) : Nth(P, n) \in P /\ Before(P, Nth(P, n)) = n - 1
  <2>1. \A n \in 1..Cardinality(P) : \E p \in P : Before(P, p) = n - 1
    BY <1>0, <1>3 DEF H
  <2> QED
    BY <2>1 DEF Nth
<1>5. \A j, k \in P : j < k => Before(P, j) < Before(P, k)
  <2> SUFFICES ASSUME NEW j \in P, NEW k \in P, j < k PROVE Before(P, j) < Before(P, k)
    OBVIOUS
  <2>1. j \in Nat /\ k \in Nat /\ j <= k /\ j \in j..(k - 1)
    OBVIOUS
  <2> QED
    BY <2>1, BeforeGrows
<1>6. \A j, k \in P : Before(P, j) = Before(P, k) => j = k
  <2> SUFFICES ASSUME NEW j \in P, NEW k \in P, Before(P, j) = Before(P, k) PROVE j = k
    OBVIOUS
  <2>1. j \in Nat /\ k \in Nat /\ Before(P, j) \in Nat /\ Before(P, k) \in Nat
    BY <1>0
  <2> QED
    BY <1>5, <2>1
<1>7. ASSUME NEW k \in P PROVE /\ Before(P, k) + 1 \in 1..Cardinality(P)
                               /\ Nth(P, Before(P, k) + 1) = k
  <2>1. k \in Nat /\ L + 1 \in Nat /\ k <= L + 1 /\ k \in k..((L + 1) - 1)
    OBVIOUS
  <2>2. Before(P, k) < Before(P, L + 1)
    BY <2>1, BeforeGrows
  <2>3. Before(P, k) + 1 \in 1..Cardinality(P) /\ (Before(P, k) + 1) - 1 = Before(P, k)
    BY <1>0, <2>1, <2>2
  <2> QED
    BY <1>4, <1>6, <2>3
<1>8. ASSUME NEW m \in 1..Cardinality(P), NEW n \in 1..Cardinality(P), m < n
      PROVE  Nth(P, m) < Nth(P, n)
  <2>1. /\ Nth(P, m) \in P /\ Before(P, Nth(P, m)) = m - 1
        /\ Nth(P, n) \in P /\ Before(P, Nth(P, n)) = n - 1
    BY <1>4
  <2> PICK j \in P, k \in P : j = Nth(P, m) /\ k = Nth(P, n)
    BY <2>1
  <2>2. j \in Nat /\ k \in Nat /\ ~(k < j) /\ k # j
    BY <1>0, <1>5, <1>8, <2>1
  <2> QED
    BY <2>2
<1> QED
  BY <1>4, <1>6, <1>7, <1>8

-----------------------------------------------------------------------------
(* The table of Lcs *)

Corners(a, b) == (1..(Len(a) + 1)) \X (1..(Len(b) + 1))

\* What an entry is, from the entries after it.
Entry(a, b, table, i, j) ==
  IF i > Len(a) \/ j > Len(b) THEN 0
  ELSE IF a[i] = b[j] THEN table[<<i + 1, j + 1>>] + 1
  ELSE Larger(table[<<i + 1, j>>], table[<<i, j + 1>>])

Tables(a, b) ==
  {t \in [Corners(a, b) -> Nat] :
     \A i \in 1..(Len(a) + 1), j \in 1..(Len(b) + 1) : t[<<i, j>>] = Entry(a, b, t, i, j)}

\* What the table holds at a corner follows from its neighbours and is a number.
LEMMA EntryIsNat ==
  ASSUME NEW a, NEW b, Len(a) \in Nat, Len(b) \in Nat, NEW t \in [Corners(a, b) -> Nat],
         NEW i \in 1..(Len(a) + 1), NEW j \in 1..(Len(b) + 1)
  PROVE  Entry(a, b, t, i, j) \in Nat
<1> PICK n \in Nat, m \in Nat : n = Len(a) /\ m = Len(b)
  OBVIOUS
<1>1. CASE i > n \/ j > m
  BY <1>1 DEF Entry
<1>2. CASE ~(i > n \/ j > m)
  <2>1. /\ <<i + 1, j + 1>> \in Corners(a, b) /\ <<i + 1, j>> \in Corners(a, b)
        /\ <<i, j + 1>> \in Corners(a, b)
    BY <1>2 DEF Corners
  <2>2. /\ t[<<i + 1, j + 1>>] \in Nat /\ t[<<i + 1, j>>] \in Nat /\ t[<<i, j + 1>>] \in Nat
    BY <2>1
  <2> QED
    BY <1>2, <2>2 DEF Entry, Larger
<1> QED
  BY <1>1, <1>2

\* A table is filled in finitely many rounds, from the ends of the files on.
LEMMA TableExists ==
  ASSUME NEW a, NEW b, Len(a) \in Nat, Len(b) \in Nat
  PROVE  \E t : t \in Tables(a, b)
<1> PICK n \in Nat, m \in Nat : n = Len(a) /\ m = Len(b)
  OBVIOUS
<1> DEFINE D == Corners(a, b)
           S == [D -> Nat]
           Fill(t) == [p \in D |-> Entry(a, b, t, p[1], p[2])]
           G == [x \in Nat \X S |-> Fill(x[2])]
           first == [p \in D |-> 0]
<1>0. D = (1..(n + 1)) \X (1..(m + 1))
  BY DEF Corners
<1>1. ASSUME NEW t \in S PROVE Fill(t) \in S
  <2>1. ASSUME NEW p \in D PROVE Entry(a, b, t, p[1], p[2]) \in Nat
    <3>1. p[1] \in 1..(Len(a) + 1) /\ p[2] \in 1..(Len(b) + 1)
      BY <1>0
    <3> QED
      BY <3>1, EntryIsNat
  <2> QED
    BY <2>1
<1>2. /\ \A t, p : p \in D => Fill(t)[p] = Entry(a, b, t, p[1], p[2])
      /\ \A p : p \in D => first[p] = 0
      /\ first \in S
  OBVIOUS
<1> HIDE DEF Fill, first
<1>3. G \in [Nat \X S -> S] /\ \A k \in Nat, t \in S : G[<<k, t>>] = Fill(t)
  BY <1>1
<1> HIDE DEF G, S
<1>4. PICK h : h \in Recursion(S, first, G)
  BY <1>2, <1>3, NatRecursion
<1>5. h \in [Nat -> S] /\ h[0] = first /\ \A k \in Nat : h[k + 1] = Fill(h[k])
  BY <1>3, <1>4 DEF Recursion
<1> DEFINE Rank(i, j) == ((n + 1) - i) + ((m + 1) - j)
           Settled(k) == \A i \in 1..(n + 1), j \in 1..(m + 1) :
                           Rank(i, j) <= k => h[k + 1][<<i, j>>] = h[k][<<i, j>>]
           H == {k \in Nat : Settled(k)}
<1>6. ASSUME NEW k \in Nat, NEW i \in 1..(n + 1), NEW j \in 1..(m + 1)
      PROVE  h[k + 1][<<i, j>>] = Entry(a, b, h[k], i, j)
  <2>1. <<i, j>> \in D /\ <<i, j>>[1] = i /\ <<i, j>>[2] = j
    BY <1>0
  <2>2. h[k + 1] = Fill(h[k]) /\ Fill(h[k])[<<i, j>>] = Entry(a, b, h[k], <<i, j>>[1], <<i, j>>[2])
    BY <1>2, <1>5, <2>1
  <2> QED
    BY <2>1, <2>2
<1>7. 0 \in H
  <2> SUFFICES ASSUME NEW i \in 1..(n + 1), NEW j \in 1..(m + 1), Rank(i, j) <= 0
               PROVE  h[0 + 1][<<i, j>>] = h[0][<<i, j>>]
    OBVIOUS
  <2>1. i > n
    OBVIOUS
  <2>2. h[0 + 1][<<i, j>>] = 0
    BY <1>6, <2>1 DEF Entry
  <2>3. <<i, j>> \in D
    BY <1>0
  <2> QED
    BY <1>2, <1>5, <2>2, <2>3
<1>8. ASSUME NEW k \in Nat, k \in H PROVE k + 1 \in H
  <2>0. Settled(k) /\ k + 1 \in Nat
    BY <1>8
  <2> SUFFICES ASSUME NEW i \in 1..(n + 1), NEW j \in 1..(m + 1), Rank(i, j) <= k + 1
               PROVE  h[(k + 1) + 1][<<i, j>>] = h[k + 1][<<i, j>>]
    BY <2>0
  <2>1. /\ h[(k + 1) + 1][<<i, j>>] = Entry(a, b, h[k + 1], i, j)
        /\ h[k + 1][<<i, j>>] = Entry(a, b, h[k], i, j)
    BY <1>6, <2>0
  <2>2. CASE i > n \/ j > m
    BY <2>1, <2>2 DEF Entry
  <2>3. CASE ~(i > n \/ j > m)
    <3>1. /\ i + 1 \in 1..(n + 1) /\ j + 1 \in 1..(m + 1)
          /\ Rank(i + 1, j + 1) <= k /\ Rank(i + 1, j) <= k /\ Rank(i, j + 1) <= k
      BY <2>3
    <3>2. /\ h[k + 1][<<i + 1, j + 1>>] = h[k][<<i + 1, j + 1>>]
          /\ h[k + 1][<<i + 1, j>>] = h[k][<<i + 1, j>>]
          /\ h[k + 1][<<i, j + 1>>] = h[k][<<i, j + 1>>]
      BY <2>0, <3>1
    <3> QED
      BY <2>1, <3>2 DEF Entry
  <2> QED
    BY <2>2, <2>3
<1> HIDE DEF H
<1>9. Nat \subseteq H
  BY <1>7, <1>8, Everywhere
<1> DEFINE t == h[n + m]
<1>10. n + m \in Nat /\ t \in [D -> Nat]
  <2>1. n + m \in Nat
    OBVIOUS
  <2>2. t \in S
    BY <1>5, <2>1
  <2> QED
    BY <2>1, <2>2 DEF S
<1>11. ASSUME NEW i \in 1..(n + 1), NEW j \in 1..(m + 1)
       PROVE  t[<<i, j>>] = Entry(a, b, t, i, j)
  <2>1. Rank(i, j) <= n + m
    OBVIOUS
  <2>2. Settled(n + m)
    BY <1>9, <1>10 DEF H
  <2>3. h[(n + m) + 1][<<i, j>>] = t[<<i, j>>]
    BY <2>1, <2>2
  <2> QED
    BY <1>6, <1>10, <2>3
<1> HIDE DEF t
<1> QED
  BY <1>10, <1>11 DEF Tables

\* Lcs is such a table.
LEMMA LcsIsTable ==
  ASSUME NEW a, NEW b, Len(a) \in Nat, Len(b) \in Nat
  PROVE  Lcs(a, b) \in Tables(a, b)
<1> PICK n \in Nat, m \in Nat : n = Len(a) /\ m = Len(b)
  OBVIOUS
<1> DEFINE Fill(t) == [p \in (1..(Len(a) + 1)) \X (1..(Len(b) + 1)) |->
                         IF p[1] > Len(a) \/ p[2] > Len(b) THEN 0
                         ELSE IF a[p[1]] = b[p[2]] THEN t[<<p[1] + 1, p[2] + 1>>] + 1
                         ELSE Larger(t[<<p[1] + 1, p[2]>>], t[<<p[1], p[2] + 1>>])]
           z == Lcs(a, b)
<1>0. Corners(a, b) = (1..(n + 1)) \X (1..(m + 1))
  BY DEF Corners
<1>1. z = CHOOSE t : t = Fill(t)
  BY DEF Lcs
<1>2. PICK t : t \in Tables(a, b)
  BY TableExists
<1>3. t = Fill(t)
  <2>1. t \in [Corners(a, b) -> Nat]
    BY <1>2 DEF Tables
  <2>2. ASSUME NEW p \in Corners(a, b) PROVE t[p] = Fill(t)[p]
    <3>1. p[1] \in 1..(n + 1) /\ p[2] \in 1..(m + 1) /\ p = <<p[1], p[2]>>
      BY <1>0
    <3>2. t[<<p[1], p[2]>>] = Entry(a, b, t, p[1], p[2])
      BY <1>2, <3>1 DEF Tables
    <3> QED
      BY <3>1, <3>2 DEF Entry, Corners
  <2>3. Fill(t) = [p \in Corners(a, b) |-> Fill(t)[p]]
    BY DEF Corners
  <2>4. t = [p \in Corners(a, b) |-> t[p]]
    BY <2>1
  <2> HIDE DEF Fill
  <2> QED
    BY <2>2, <2>3, <2>4
<1>4. z = Fill(z)
  <2> HIDE DEF Fill, z
  <2> QED
    BY <1>1, <1>3
<1> HIDE DEF z
<1>5. DOMAIN z = Corners(a, b) /\ z = [p \in Corners(a, b) |-> z[p]]
  BY <1>4 DEF Corners
<1>6. ASSUME NEW i \in 1..(n + 1), NEW j \in 1..(m + 1) PROVE z[<<i, j>>] = Entry(a, b, z, i, j)
  <2>1. <<i, j>> \in (1..(Len(a) + 1)) \X (1..(Len(b) + 1))
    OBVIOUS
  <2>2. Fill(z)[<<i, j>>] = Entry(a, b, z, i, j)
    BY <2>1 DEF Entry
  <2> HIDE DEF Fill
  <2> QED
    BY <1>4, <2>2
<1> DEFINE Rank(i, j) == ((n + 1) - i) + ((m + 1) - j)
           Typed(k) == \A i \in 1..(n + 1), j \in 1..(m + 1) : Rank(i, j) <= k => z[<<i, j>>] \in Nat
           H == {k \in Nat : Typed(k)}
<1> HIDE DEF Fill
<1>7. 0 \in H
  <2> SUFFICES ASSUME NEW i \in 1..(n + 1), NEW j \in 1..(m + 1), Rank(i, j) <= 0
               PROVE  z[<<i, j>>] \in Nat
    OBVIOUS
  <2>1. i > n
    OBVIOUS
  <2>2. z[<<i, j>>] = Entry(a, b, z, i, j)
    BY <1>6
  <2>3. Entry(a, b, z, i, j) = 0
    BY <2>1 DEF Entry
  <2> QED
    BY <2>2, <2>3
<1>8. ASSUME NEW k \in Nat, k \in H PROVE k + 1 \in H
  <2>0. Typed(k)
    BY <1>8
  <2> SUFFICES ASSUME NEW i \in 1..(n + 1), NEW j \in 1..(m + 1), Rank(i, j) <= k + 1
               PROVE  z[<<i, j>>] \in Nat
    OBVIOUS
  <2>5. z[<<i, j>>] = Entry(a, b, z, i, j)
    BY <1>6
  <2>1. CASE i > n \/ j > m
    <3>1. Entry(a, b, z, i, j) = 0
      BY <2>1 DEF Entry
    <3> QED
      BY <2>5, <3>1
  <2>2. CASE ~(i > n \/ j > m)
    <3>1. /\ i + 1 \in 1..(n + 1) /\ j + 1 \in 1..(m + 1)
          /\ Rank(i + 1, j + 1) <= k /\ Rank(i + 1, j) <= k /\ Rank(i, j + 1) <= k
      BY <2>2
    <3>2. z[<<i + 1, j + 1>>] \in Nat /\ z[<<i + 1, j>>] \in Nat /\ z[<<i, j + 1>>] \in Nat
      BY <2>0, <3>1
    <3>3. Entry(a, b, z, i, j) \in Nat
      BY <2>2, <3>2 DEF Entry, Larger
    <3> QED
      BY <2>5, <3>3
  <2> QED
    BY <2>1, <2>2
<1> HIDE DEF H
<1>9. Nat \subseteq H
  BY <1>7, <1>8, Everywhere
<1>10. ASSUME NEW p \in Corners(a, b) PROVE z[p] \in Nat
  <2>1. p[1] \in 1..(n + 1) /\ p[2] \in 1..(m + 1) /\ p = <<p[1], p[2]>>
    BY <1>0
  <2>2. Rank(p[1], p[2]) \in Nat
    BY <2>1
  <2>3. Typed(Rank(p[1], p[2]))
    BY <1>9, <2>2 DEF H
  <2> QED
    BY <2>1, <2>2, <2>3
<1>11. z \in [Corners(a, b) -> Nat]
  BY <1>5, <1>10
<1>12. z \in Tables(a, b)
  BY <1>6, <1>11 DEF Tables
<1> QED
  BY <1>12 DEF z

\* Lines that two files have in common, in the order of both, are no more than the
\* table says.
LEMMA LcsBounds ==
  ASSUME NEW a, NEW b, Len(a) \in Nat, Len(b) \in Nat, NEW r \in Nat,
         NEW x \in [1..r -> 1..Len(a)], NEW y \in [1..r -> 1..Len(b)],
         \A u \in 1..r : a[x[u]] = b[y[u]],
         \A u, w \in 1..r : u < w => x[u] < x[w] /\ y[u] < y[w]
  PROVE  r <= Lcs(a, b)[<<1, 1>>]
<1> PICK n \in Nat, m \in Nat : n = Len(a) /\ m = Len(b)
  OBVIOUS
<1>0. \A u \in 1..r : x[u] \in 1..n /\ y[u] \in 1..m
  OBVIOUS
<1> PICK z : z = Lcs(a, b)
  OBVIOUS
<1>1. z \in Tables(a, b)
  BY LcsIsTable
<1> DEFINE Rank(i, j) == ((n + 1) - i) + ((m + 1) - j)
           Beyond(u, i, j) == u <= r => x[u] >= i /\ y[u] >= j
           Bounds(k) == \A i \in 1..(n + 1), j \in 1..(m + 1), u \in 1..(r + 1) :
                          Rank(i, j) <= k /\ Beyond(u, i, j) => (r + 1) - u <= z[<<i, j>>]
           H == {k \in Nat : Bounds(k)}
<1>2. ASSUME NEW i \in 1..(n + 1), NEW j \in 1..(m + 1)
      PROVE  z[<<i, j>>] = Entry(a, b, z, i, j) /\ z[<<i, j>>] \in Nat
  <2>1. <<i, j>> \in Corners(a, b)
    BY DEF Corners
  <2> QED
    BY <1>1, <2>1 DEF Tables
<1>3. ASSUME NEW i \in 1..(n + 1), NEW j \in 1..(m + 1), NEW u \in 1..(r + 1), Beyond(u, i, j),
             u > r \/ i > n \/ j > m
      PROVE  (r + 1) - u <= z[<<i, j>>]
  <2>1. u = r + 1
    BY <1>0, <1>3
  <2>2. z[<<i, j>>] \in Nat
    BY <1>2
  <2> QED
    BY <2>1, <2>2
<1>4. 0 \in H
  <2> SUFFICES ASSUME NEW i \in 1..(n + 1), NEW j \in 1..(m + 1), NEW u \in 1..(r + 1),
                      Rank(i, j) <= 0, Beyond(u, i, j)
               PROVE  (r + 1) - u <= z[<<i, j>>]
    OBVIOUS
  <2>1. i > n
    OBVIOUS
  <2> HIDE DEF Beyond
  <2> QED
    BY <1>3, <2>1
<1>5. ASSUME NEW k \in Nat, k \in H PROVE k + 1 \in H
  <2>0. Bounds(k)
    BY <1>5
  <2> SUFFICES ASSUME NEW i \in 1..(n + 1), NEW j \in 1..(m + 1), NEW u \in 1..(r + 1),
                      Rank(i, j) <= k + 1, Beyond(u, i, j)
               PROVE  (r + 1) - u <= z[<<i, j>>]
    OBVIOUS
  <2>1. CASE u > r \/ i > n \/ j > m
    <3> HIDE DEF Beyond
    <3> QED
      BY <1>3, <2>1
  <2>2. CASE ~(u > r \/ i > n \/ j > m)
    <3>1. /\ i + 1 \in 1..(n + 1) /\ j + 1 \in 1..(m + 1) /\ u + 1 \in 1..(r + 1) /\ u \in 1..r
          /\ Rank(i + 1, j + 1) <= k /\ Rank(i + 1, j) <= k /\ Rank(i, j + 1) <= k
      BY <2>2
    <3>2. z[<<i, j>>] = Entry(a, b, z, i, j)
      BY <1>2
    <3>3. x[u] \in 1..n /\ y[u] \in 1..m /\ x[u] >= i /\ y[u] >= j /\ a[x[u]] = b[y[u]]
      BY <1>0, <3>1
    <3>4. CASE a[i] = b[j]
      <4>1. Beyond(u + 1, i + 1, j + 1)
        <5>1. CASE u + 1 <= r
          <6>1. u + 1 \in 1..r /\ u < u + 1
            BY <3>1, <5>1
          <6> PICK v \in 1..r : v = u + 1
            BY <6>1
          <6>2. x[u] < x[v] /\ y[u] < y[v] /\ x[v] \in 1..n /\ y[v] \in 1..m
            BY <1>0, <3>1, <6>1
          <6>3. x[v] >= i + 1 /\ y[v] >= j + 1
            <7>1. \A p, q, t \in Int : p >= t /\ p < q => q >= t + 1
              OBVIOUS
            <7>2. /\ x[u] \in Int /\ y[u] \in Int /\ x[v] \in Int /\ y[v] \in Int
                  /\ i \in Int /\ j \in Int
              BY <3>3, <6>2
            <7> QED
              BY <3>3, <6>2, <7>1, <7>2
          <6> QED
            BY <6>3
        <5> QED
          BY <5>1
      <4>2. (r + 1) - (u + 1) <= z[<<i + 1, j + 1>>]
        <5> HIDE DEF Beyond
        <5> QED
          BY <2>0, <3>1, <4>1
      <4>3. Entry(a, b, z, i, j) = z[<<i + 1, j + 1>>] + 1 /\ z[<<i + 1, j + 1>>] \in Nat
        BY <1>2, <2>2, <3>1, <3>4 DEF Entry
      <4> PICK one \in Nat : one = z[<<i + 1, j + 1>>]
        BY <4>3
      <4>4. z[<<i, j>>] = one + 1 /\ (r + 1) - (u + 1) <= one
        BY <3>2, <4>2, <4>3
      <4>5. (r + 1) - u <= one + 1
        BY <4>4
      <4> QED
        BY <4>4, <4>5
    <3>5. CASE a[i] # b[j]
      <4>1. Entry(a, b, z, i, j) = Larger(z[<<i + 1, j>>], z[<<i, j + 1>>])
        BY <2>2, <3>5 DEF Entry
      <4>2. z[<<i + 1, j>>] \in Nat /\ z[<<i, j + 1>>] \in Nat
        BY <1>2, <3>1
      <4>3. x[u] # i \/ y[u] # j
        BY <3>3, <3>5
      <4>4. Beyond(u, i + 1, j) \/ Beyond(u, i, j + 1)
        BY <3>3, <4>3
      <4>5. (r + 1) - u <= z[<<i + 1, j>>] \/ (r + 1) - u <= z[<<i, j + 1>>]
        <5> HIDE DEF Beyond
        <5> QED
          BY <2>0, <3>1, <4>4
      <4> PICK one, two : one = z[<<i + 1, j>>] /\ two = z[<<i, j + 1>>]
        OBVIOUS
      <4>6. one \in Nat /\ two \in Nat /\ z[<<i, j>>] = Larger(one, two)
        BY <3>2, <4>1, <4>2
      <4>7. (r + 1) - u <= one \/ (r + 1) - u <= two
        BY <4>5
      <4>8. (r + 1) - u <= Larger(one, two)
        <5>1. \A low \in Int, p, q \in Nat : low <= p \/ low <= q => low <= Larger(p, q)
          BY DEF Larger
        <5>2. (r + 1) - u \in Int
          OBVIOUS
        <5> QED
          BY <4>6, <4>7, <5>1, <5>2
      <4> QED
        BY <4>6, <4>8
    <3> QED
      BY <3>4, <3>5
  <2> QED
    BY <2>1, <2>2
<1> HIDE DEF H
<1>6. Nat \subseteq H
  BY <1>4, <1>5, Everywhere
<1>7. n + m \in Nat /\ 1 \in 1..(n + 1) /\ 1 \in 1..(m + 1) /\ 1 \in 1..(r + 1)
      /\ Rank(1, 1) <= n + m
  OBVIOUS
<1>8. Beyond(1, 1, 1)
  <2>1. 1 <= r => x[1] \in 1..n /\ y[1] \in 1..m
    BY <1>0
  <2> QED
    BY <2>1
<1>9. Bounds(n + m)
  BY <1>6, <1>7 DEF H
<1>10. (r + 1) - 1 <= z[<<1, 1>>] /\ z[<<1, 1>>] \in Nat
  <2> HIDE DEF Beyond
  <2> QED
    BY <1>2, <1>7, <1>8, <1>9
<1> QED
  BY <1>10

-----------------------------------------------------------------------------
(* The walk of DiffLines *)

Ops(V) == [type : OpType, value : V]

\* Which lines a script stands for, when the lines before i and before j are done.
Explains(script, a, b, i, j) ==
  /\ OldLineAt(script, Len(script) + 1) = i
  /\ NewLineAt(script, Len(script) + 1) = j
  /\ \A k \in DOMAIN script :
       /\ script[k].type # "add" => script[k].value = a[OldLineAt(script, k)]
       /\ script[k].type # "remove" => script[k].value = b[NewLineAt(script, k)]

\* How many lines a script keeps.
KeptBy(script) == Before(OldOps(script) \cap NewOps(script), Len(script) + 1)

\* The places of the old file, of the new one and of both are places of the script.
LEMMA SidesOfScript ==
  ASSUME NEW V, NEW script \in Seq(Ops(V))
  PROVE  /\ Len(script) \in Nat /\ DOMAIN script = 1..Len(script)
         /\ OldOps(script) \in SUBSET (1..Len(script))
         /\ NewOps(script) \in SUBSET (1..Len(script))
         /\ OldOps(script) \cap NewOps(script) \in SUBSET (1..Len(script))
         /\ \A k \in 1..Len(script) :
              /\ script[k].type \in OpType /\ script[k].value \in V
              /\ k \in OldOps(script) <=> script[k].type # "add"
              /\ k \in NewOps(script) <=> script[k].type # "remove"
<1>1. Len(script) \in Nat /\ DOMAIN script = 1..Len(script)
  OBVIOUS
<1>2. \A k \in 1..Len(script) : script[k] \in Ops(V)
  BY <1>1
<1> QED
  BY <1>1, <1>2 DEF OldOps, NewOps, Ops

\* Lines, and the lines kept, are counted in naturals.
LEMMA LinesAreNat ==
  ASSUME NEW V, NEW script \in Seq(Ops(V))
  PROVE  /\ KeptBy(script) \in Nat
         /\ \A k \in Nat : OldLineAt(script, k) \in Nat \ {0} /\ NewLineAt(script, k) \in Nat \ {0}
<1>1. /\ Len(script) \in Nat /\ Len(script) + 1 \in Nat
      /\ OldOps(script) \in SUBSET (1..Len(script))
      /\ NewOps(script) \in SUBSET (1..Len(script))
      /\ OldOps(script) \cap NewOps(script) \in SUBSET (1..Len(script))
  BY SidesOfScript
<1>2. ASSUME NEW P \in SUBSET (1..Len(script)) PROVE \A k \in Nat : Before(P, k) \in Nat
  BY <1>1, BeforeCounts
<1>3. \A k \in Nat : Before(OldOps(script), k) \in Nat /\ Before(NewOps(script), k) \in Nat
  BY <1>1, <1>2
<1>4. KeptBy(script) \in Nat
  BY <1>1, <1>2 DEF KeptBy
<1>5. \A k \in Nat : OldLineAt(script, k) \in Nat \ {0} /\ NewLineAt(script, k) \in Nat \ {0}
  <2>1. \A p \in Nat : 1 + p \in Nat \ {0}
    OBVIOUS
  <2> QED
    BY <1>3, <2>1 DEF OldLineAt, NewLineAt
<1> QED
  BY <1>4, <1>5

\* Nothing after a place counts before it.
LEMMA BeforeAgrees ==
  ASSUME NEW L \in Nat, NEW P \in SUBSET (1..L), NEW Q \in SUBSET (1..(L + 1)),
         \A k \in 1..L : k \in P <=> k \in Q, NEW k \in 1..(L + 1)
  PROVE  Before(Q, k) = Before(P, k)
<1>1. \A p \in Q : p < k => p \in P
  OBVIOUS
<1>2. P \subseteq Q
  OBVIOUS
<1>3. {p \in Q : p < k} = {p \in P : p < k}
  BY <1>1, <1>2, Zenon
<1> QED
  BY <1>3 DEF Before

\* An op put at the end of a script counts for the sides its type says, and moves no other.
LEMMA AppendedOp ==
  ASSUME NEW V, NEW script \in Seq(Ops(V)), NEW x \in Ops(V)
  PROVE  LET longer == Append(script, x)
             L == Len(script)
         IN /\ longer \in Seq(Ops(V)) /\ Len(longer) = L + 1 /\ longer[L + 1] = x
            /\ \A k \in 1..L : longer[k] = script[k]
            /\ \A k \in 1..(L + 1) : /\ OldLineAt(longer, k) = OldLineAt(script, k)
                                     /\ NewLineAt(longer, k) = NewLineAt(script, k)
            /\ OldLineAt(longer, L + 2) = OldLineAt(script, L + 1) + (IF x.type = "add" THEN 0 ELSE 1)
            /\ NewLineAt(longer, L + 2) = NewLineAt(script, L + 1) + (IF x.type = "remove" THEN 0 ELSE 1)
            /\ KeptBy(longer) = KeptBy(script) + (IF x.type = "equal" THEN 1 ELSE 0)
            /\ OldLineAt(script, L + 1) \in Nat /\ NewLineAt(script, L + 1) \in Nat
            /\ KeptBy(script) \in Nat
<1> PICK longer, L : longer = Append(script, x) /\ L = Len(script)
  OBVIOUS
<1>1. /\ longer \in Seq(Ops(V)) /\ L \in Nat /\ Len(longer) = L + 1 /\ longer[L + 1] = x
      /\ \A k \in 1..L : longer[k] = script[k]
  OBVIOUS
<1>2. /\ OldOps(script) \in SUBSET (1..L) /\ NewOps(script) \in SUBSET (1..L)
      /\ OldOps(script) \cap NewOps(script) \in SUBSET (1..L)
      /\ \A k \in 1..L : /\ k \in OldOps(script) <=> script[k].type # "add"
                         /\ k \in NewOps(script) <=> script[k].type # "remove"
  BY SidesOfScript
<1>3. /\ OldOps(longer) \in SUBSET (1..(L + 1)) /\ NewOps(longer) \in SUBSET (1..(L + 1))
      /\ OldOps(longer) \cap NewOps(longer) \in SUBSET (1..(L + 1))
      /\ \A k \in 1..(L + 1) : /\ k \in OldOps(longer) <=> longer[k].type # "add"
                               /\ k \in NewOps(longer) <=> longer[k].type # "remove"
  BY <1>1, SidesOfScript
<1>4. \A k \in 1..L : k \in 1..(L + 1) /\ (k \in OldOps(script) <=> k \in OldOps(longer))
                      /\ (k \in NewOps(script) <=> k \in NewOps(longer))
  BY <1>1, <1>2, <1>3
<1>5. L + 1 \in 1..(L + 1) /\ L + 1 \in Nat /\ (L + 1) + 1 = L + 2 /\ x.type \in OpType
      /\ (L + 1 \in OldOps(longer) <=> x.type # "add")
      /\ (L + 1 \in NewOps(longer) <=> x.type # "remove")
  BY <1>1, <1>3 DEF Ops
<1>6. \A k \in 1..(L + 1) : Before(OldOps(longer), k) = Before(OldOps(script), k)
  BY <1>1, <1>2, <1>3, <1>4, BeforeAgrees
<1>7. \A k \in 1..(L + 1) : Before(NewOps(longer), k) = Before(NewOps(script), k)
  BY <1>1, <1>2, <1>3, <1>4, BeforeAgrees
<1> PICK P, Q : P = OldOps(script) \cap NewOps(script) /\ Q = OldOps(longer) \cap NewOps(longer)
  OBVIOUS
<1>8. /\ P \in SUBSET (1..L) /\ Q \in SUBSET (1..(L + 1)) /\ \A k \in 1..L : k \in P <=> k \in Q
      /\ (L + 1 \in Q <=> x.type = "equal")
  BY <1>2, <1>3, <1>4, <1>5 DEF OpType
<1>9. Before(Q, L + 1) = Before(P, L + 1)
  <2>1. \A k \in 1..(L + 1) : Before(Q, k) = Before(P, k)
    BY <1>1, <1>8, BeforeAgrees
  <2> QED
    BY <1>5, <2>1
<1>10. /\ Before(OldOps(longer), L + 2) = Before(OldOps(longer), L + 1) + (IF x.type = "add" THEN 0 ELSE 1)
       /\ Before(NewOps(longer), L + 2) = Before(NewOps(longer), L + 1) + (IF x.type = "remove" THEN 0 ELSE 1)
       /\ Before(Q, L + 2) = Before(Q, L + 1) + (IF x.type = "equal" THEN 1 ELSE 0)
  <2>1. \A R \in SUBSET (1..(L + 1)) :
          Before(R, L + 2) = Before(R, L + 1) + (IF L + 1 \in R THEN 1 ELSE 0)
    <3> SUFFICES ASSUME NEW R \in SUBSET (1..(L + 1))
                 PROVE  Before(R, L + 2) = Before(R, L + 1) + (IF L + 1 \in R THEN 1 ELSE 0)
      OBVIOUS
    <3>1. \A k \in Nat : Before(R, k + 1) = Before(R, k) + (IF k \in R THEN 1 ELSE 0)
      BY <1>5, BeforeCounts
    <3> QED
      BY <1>5, <3>1
  <2> QED
    BY <1>3, <1>5, <1>8, <2>1
<1>11. \A R \in SUBSET (1..L) : Before(R, L + 1) \in Nat
  BY <1>1, <1>5, BeforeCounts
<1>12. /\ Before(OldOps(script), L + 1) \in Nat /\ Before(NewOps(script), L + 1) \in Nat
       /\ Before(P, L + 1) \in Nat
  BY <1>2, <1>8, <1>11
<1>13. KeptBy(script) = Before(P, L + 1) /\ KeptBy(longer) = Before(Q, L + 2)
  BY <1>1, <1>5 DEF KeptBy
<1>14. /\ \A k \in 1..(L + 1) : /\ OldLineAt(longer, k) = OldLineAt(script, k)
                                /\ NewLineAt(longer, k) = NewLineAt(script, k)
       /\ OldLineAt(longer, L + 2) = OldLineAt(script, L + 1) + (IF x.type = "add" THEN 0 ELSE 1)
       /\ NewLineAt(longer, L + 2) = NewLineAt(script, L + 1) + (IF x.type = "remove" THEN 0 ELSE 1)
       /\ OldLineAt(script, L + 1) \in Nat /\ NewLineAt(script, L + 1) \in Nat
  BY <1>5, <1>6, <1>7, <1>10, <1>12 DEF OldLineAt, NewLineAt
<1>15. KeptBy(longer) = KeptBy(script) + (IF x.type = "equal" THEN 1 ELSE 0) /\ KeptBy(script) \in Nat
  BY <1>9, <1>10, <1>12, <1>13
<1> QED
  BY <1>1, <1>14, <1>15

\* A script that explains two files explains one line more of each side it is of.
LEMMA ExplainsOneMore ==
  ASSUME NEW V, NEW a, NEW b, NEW script \in Seq(Ops(V)), NEW x \in Ops(V), NEW i \in Nat, NEW j \in Nat,
         Explains(script, a, b, i, j),
         x.type # "add" => x.value = a[i],
         x.type # "remove" => x.value = b[j]
  PROVE  Explains(Append(script, x), a, b, i + (IF x.type = "add" THEN 0 ELSE 1),
                  j + (IF x.type = "remove" THEN 0 ELSE 1))
<1> PICK longer, L : longer = Append(script, x) /\ L = Len(script)
  OBVIOUS
<1>1. /\ longer \in Seq(Ops(V)) /\ Len(longer) = L + 1 /\ longer[L + 1] = x
      /\ \A k \in 1..L : longer[k] = script[k]
      /\ \A k \in 1..(L + 1) : /\ OldLineAt(longer, k) = OldLineAt(script, k)
                               /\ NewLineAt(longer, k) = NewLineAt(script, k)
      /\ OldLineAt(longer, L + 2) = OldLineAt(script, L + 1) + (IF x.type = "add" THEN 0 ELSE 1)
      /\ NewLineAt(longer, L + 2) = NewLineAt(script, L + 1) + (IF x.type = "remove" THEN 0 ELSE 1)
  BY AppendedOp
<1>2. /\ L \in Nat /\ DOMAIN script = 1..L /\ DOMAIN longer = 1..(L + 1)
      /\ Len(longer) + 1 = L + 2
  BY <1>1
<1>3. OldLineAt(script, L + 1) = i /\ NewLineAt(script, L + 1) = j
  BY DEF Explains
<1>4. ASSUME NEW k \in 1..(L + 1)
      PROVE  /\ longer[k].type # "add" => longer[k].value = a[OldLineAt(longer, k)]
             /\ longer[k].type # "remove" => longer[k].value = b[NewLineAt(longer, k)]
  <2>0. OldLineAt(longer, k) = OldLineAt(script, k) /\ NewLineAt(longer, k) = NewLineAt(script, k)
    BY <1>1
  <2>1. CASE k = L + 1
    BY <1>1, <1>3, <2>0, <2>1
  <2>2. CASE k # L + 1
    <3>1. k \in 1..L
      BY <1>2, <2>2
    <3>2. /\ script[k].type # "add" => script[k].value = a[OldLineAt(script, k)]
          /\ script[k].type # "remove" => script[k].value = b[NewLineAt(script, k)]
      BY <1>2, <3>1 DEF Explains
    <3> QED
      BY <1>1, <2>0, <3>1, <3>2
  <2> QED
    BY <2>1, <2>2
<1>5. /\ OldLineAt(longer, Len(longer) + 1) = i + (IF x.type = "add" THEN 0 ELSE 1)
      /\ NewLineAt(longer, Len(longer) + 1) = j + (IF x.type = "remove" THEN 0 ELSE 1)
  BY <1>1, <1>2, <1>3
<1>6. \A k \in DOMAIN longer :
        /\ longer[k].type # "add" => longer[k].value = a[OldLineAt(longer, k)]
        /\ longer[k].type # "remove" => longer[k].value = b[NewLineAt(longer, k)]
  BY <1>2, <1>4
<1> QED
  BY <1>5, <1>6 DEF Explains

WalkStates(V) == [i : Nat \ {0}, j : Nat \ {0}, ops : Seq(Ops(V))]

\* The walk has come to w: its script explains the lines before w.i and w.j and has
\* kept as many as the table still allows.
Come(a, b, V, table, w) ==
  /\ w \in WalkStates(V)
  /\ w.i <= Len(a) + 1 /\ w.j <= Len(b) + 1
  /\ Explains(w.ops, a, b, w.i, w.j)
  /\ KeptBy(w.ops) + table[<<w.i, w.j>>] = table[<<1, 1>>]

\* The turns: a line is kept, removed or added, or there is none left.
Keeps(a, b, w, t) ==
  /\ w.i <= Len(a) /\ w.j <= Len(b) /\ a[w.i] = b[w.j]
  /\ t = [i |-> w.i + 1, j |-> w.j + 1, ops |-> Append(w.ops, [type |-> "equal", value |-> a[w.i]])]
Removes(a, b, table, w, t) ==
  /\ w.i <= Len(a)
  /\ w.j <= Len(b) => a[w.i] # b[w.j] /\ table[<<w.i + 1, w.j>>] >= table[<<w.i, w.j + 1>>]
  /\ t = [i |-> w.i + 1, j |-> w.j, ops |-> Append(w.ops, [type |-> "remove", value |-> a[w.i]])]
Adds(a, b, table, w, t) ==
  /\ w.j <= Len(b)
  /\ w.i <= Len(a) => a[w.i] # b[w.j] /\ ~(table[<<w.i + 1, w.j>>] >= table[<<w.i, w.j + 1>>])
  /\ t = [i |-> w.i, j |-> w.j + 1, ops |-> Append(w.ops, [type |-> "add", value |-> b[w.j]])]
Rests(a, b, w, t) == w.i > Len(a) /\ w.j > Len(b) /\ t = w

\* A turn of the walk keeps a line, removes one, adds one, or has none left.
LEMMA TurnTakes ==
  ASSUME NEW V, NEW a \in Seq(V), NEW b \in Seq(V), NEW table, NEW w \in WalkStates(V)
  PROVE  /\ Turn(a, b, table, w) \in WalkStates(V)
         /\ \/ Keeps(a, b, w, Turn(a, b, table, w))
            \/ Removes(a, b, table, w, Turn(a, b, table, w))
            \/ Adds(a, b, table, w, Turn(a, b, table, w))
            \/ Rests(a, b, w, Turn(a, b, table, w))
<1> PICK i \in Nat \ {0}, j \in Nat \ {0} : i = w.i /\ j = w.j
  BY DEF WalkStates
<1>0. w.ops \in Seq(Ops(V)) /\ Len(a) \in Nat /\ Len(b) \in Nat
      /\ (i <= Len(a) => a[i] \in V) /\ (j <= Len(b) => b[j] \in V)
  BY DEF WalkStates
<1>1. ASSUME NEW v \in V, NEW ty \in OpType
      PROVE  Append(w.ops, [type |-> ty, value |-> v]) \in Seq(Ops(V))
  <2>1. [type |-> ty, value |-> v] \in Ops(V)
    BY DEF Ops
  <2> QED
    BY <1>0, <2>1
<1>2. i + 1 \in Nat \ {0} /\ j + 1 \in Nat \ {0} /\ "equal" \in OpType /\ "remove" \in OpType
      /\ "add" \in OpType
  BY DEF OpType
<1>3. CASE i <= Len(a) /\ j <= Len(b) /\ a[i] = b[j]
  <2>1. Turn(a, b, table, w) = [i |-> i + 1, j |-> j + 1,
                                ops |-> Append(w.ops, [type |-> "equal", value |-> a[i]])]
    BY <1>3 DEF Turn
  <2>2. Append(w.ops, [type |-> "equal", value |-> a[i]]) \in Seq(Ops(V))
    BY <1>0, <1>1, <1>2, <1>3
  <2>3. Turn(a, b, table, w) \in WalkStates(V)
    BY <1>2, <2>1, <2>2 DEF WalkStates
  <2> QED
    BY <1>0, <1>3, <2>1, <2>3 DEF Keeps
<1>4. CASE /\ ~(i <= Len(a) /\ j <= Len(b) /\ a[i] = b[j])
           /\ i <= Len(a) /\ (j > Len(b) \/ table[<<i + 1, j>>] >= table[<<i, j + 1>>])
  <2>1. Turn(a, b, table, w) = [i |-> i + 1, j |-> j,
                                ops |-> Append(w.ops, [type |-> "remove", value |-> a[i]])]
    BY <1>4 DEF Turn
  <2>2. Append(w.ops, [type |-> "remove", value |-> a[i]]) \in Seq(Ops(V))
    BY <1>0, <1>1, <1>2, <1>4
  <2>3. Turn(a, b, table, w) \in WalkStates(V)
    BY <1>2, <2>1, <2>2 DEF WalkStates
  <2> QED
    BY <1>0, <1>4, <2>1, <2>3 DEF Removes
<1>5. CASE /\ ~(i <= Len(a) /\ j <= Len(b) /\ a[i] = b[j])
           /\ ~(i <= Len(a) /\ (j > Len(b) \/ table[<<i + 1, j>>] >= table[<<i, j + 1>>]))
           /\ j <= Len(b)
  <2>1. Turn(a, b, table, w) = [i |-> i, j |-> j + 1,
                                ops |-> Append(w.ops, [type |-> "add", value |-> b[j]])]
    BY <1>5 DEF Turn
  <2>2. Append(w.ops, [type |-> "add", value |-> b[j]]) \in Seq(Ops(V))
    BY <1>0, <1>1, <1>2, <1>5
  <2>3. Turn(a, b, table, w) \in WalkStates(V)
    BY <1>2, <2>1, <2>2 DEF WalkStates
  <2> QED
    BY <1>0, <1>5, <2>1, <2>3 DEF Adds
<1>6. CASE i > Len(a) /\ j > Len(b)
  <2>1. Turn(a, b, table, w) = w
    BY <1>0, <1>6 DEF Turn
  <2> QED
    BY <1>6, <2>1 DEF Rests
<1> QED
  BY <1>0, <1>3, <1>4, <1>5, <1>6

\* A turn goes one line further, or the walk is at its end.
LEMMA TurnComes ==
  ASSUME NEW V, NEW a \in Seq(V), NEW b \in Seq(V), NEW table \in Tables(a, b), NEW w,
         Come(a, b, V, table, w)
  PROVE  LET t == Turn(a, b, table, w)
         IN /\ Come(a, b, V, table, t)
            /\ \/ t.i + t.j >= w.i + w.j + 1
               \/ w.i = Len(a) + 1 /\ w.j = Len(b) + 1 /\ t = w
<1> PICK n \in Nat, m \in Nat : n = Len(a) /\ m = Len(b)
  OBVIOUS
<1>0. /\ w \in WalkStates(V) /\ w.i \in Nat \ {0} /\ w.j \in Nat \ {0} /\ w.ops \in Seq(Ops(V))
      /\ w.i <= n + 1 /\ w.j <= m + 1
      /\ Explains(w.ops, a, b, w.i, w.j)
      /\ KeptBy(w.ops) + table[<<w.i, w.j>>] = table[<<1, 1>>]
  BY DEF Come, WalkStates
<1> PICK i \in 1..(n + 1), j \in 1..(m + 1) : i = w.i /\ j = w.j
  BY <1>0
<1> PICK t : t = Turn(a, b, table, w)
  OBVIOUS
<1>1. /\ t \in WalkStates(V)
      /\ Keeps(a, b, w, t) \/ Removes(a, b, table, w, t) \/ Adds(a, b, table, w, t) \/ Rests(a, b, w, t)
  BY <1>0, TurnTakes
<1>9. (i <= n => a[i] \in V) /\ (j <= m => b[j] \in V)
  OBVIOUS
<1>2. ASSUME NEW p \in 1..(n + 1), NEW q \in 1..(m + 1)
      PROVE  table[<<p, q>>] = Entry(a, b, table, p, q) /\ table[<<p, q>>] \in Nat
  <2>1. <<p, q>> \in Corners(a, b)
    BY DEF Corners
  <2> QED
    BY <2>1 DEF Tables
<1>3. ASSUME NEW x \in Ops(V)
      PROVE  /\ KeptBy(Append(w.ops, x)) = KeptBy(w.ops) + (IF x.type = "equal" THEN 1 ELSE 0)
             /\ KeptBy(w.ops) \in Nat
  BY <1>0, AppendedOp
<1>4. CASE Keeps(a, b, w, t)
  <2>0. /\ i <= n /\ j <= m /\ a[i] = b[j] /\ a[i] \in V
        /\ t = [i |-> i + 1, j |-> j + 1,
                ops |-> Append(w.ops, [type |-> "equal", value |-> a[i]])]
    BY <1>4, <1>9 DEF Keeps
  <2> PICK x \in Ops(V) : x = [type |-> "equal", value |-> a[i]]
    BY <2>0 DEF Ops, OpType
  <2>1. x.type = "equal" /\ x.value = a[i] /\ x.value = b[j]
    BY <2>0
  <2>2. Explains(Append(w.ops, x), a, b, i + (IF x.type = "add" THEN 0 ELSE 1),
                 j + (IF x.type = "remove" THEN 0 ELSE 1))
    BY <1>0, <2>1, ExplainsOneMore
  <2>3. Explains(t.ops, a, b, t.i, t.j) /\ t.i = i + 1 /\ t.j = j + 1 /\ t.ops = Append(w.ops, x)
    BY <2>0, <2>1, <2>2
  <2>4. table[<<i, j>>] = table[<<i + 1, j + 1>>] + 1 /\ table[<<i + 1, j + 1>>] \in Nat
    <3>1. i + 1 \in 1..(n + 1) /\ j + 1 \in 1..(m + 1)
      BY <2>0
    <3>2. Entry(a, b, table, i, j) = table[<<i + 1, j + 1>>] + 1
      BY <2>0 DEF Entry
    <3> QED
      BY <1>2, <3>1, <3>2
  <2>5. KeptBy(t.ops) = KeptBy(w.ops) + 1 /\ KeptBy(w.ops) \in Nat
    BY <1>3, <2>1, <2>3
  <2>6. KeptBy(t.ops) + table[<<t.i, t.j>>] = table[<<1, 1>>]
    <3> PICK p \in Nat, q \in Nat : p = KeptBy(w.ops) /\ q = table[<<i + 1, j + 1>>]
      BY <2>4, <2>5
    <3>1. \A k, l \in Nat : (k + 1) + l = k + (l + 1)
      OBVIOUS
    <3>2. KeptBy(t.ops) + table[<<t.i, t.j>>] = (p + 1) + q
      BY <2>3, <2>5
    <3>3. table[<<1, 1>>] = p + (q + 1)
      BY <1>0, <2>4
    <3> QED
      BY <3>1, <3>2, <3>3
  <2>7. t.i <= n + 1 /\ t.j <= m + 1 /\ t.i + t.j >= w.i + w.j + 1
    BY <2>0, <2>3
  <2>8. Come(a, b, V, table, t)
    BY <1>1, <2>3, <2>6, <2>7 DEF Come
  <2> QED
    BY <2>7, <2>8
<1>5. CASE Removes(a, b, table, w, t)
  <2>0. /\ i <= n /\ a[i] \in V
        /\ j <= m => a[i] # b[j] /\ table[<<i + 1, j>>] >= table[<<i, j + 1>>]
        /\ t = [i |-> i + 1, j |-> j,
                ops |-> Append(w.ops, [type |-> "remove", value |-> a[i]])]
    BY <1>5, <1>9 DEF Removes
  <2> PICK x \in Ops(V) : x = [type |-> "remove", value |-> a[i]]
    BY <2>0 DEF Ops, OpType
  <2>1. x.type = "remove" /\ x.value = a[i]
    OBVIOUS
  <2>2. Explains(Append(w.ops, x), a, b, i + (IF x.type = "add" THEN 0 ELSE 1),
                 j + (IF x.type = "remove" THEN 0 ELSE 1))
    BY <1>0, <2>1, ExplainsOneMore
  <2>3. Explains(t.ops, a, b, t.i, t.j) /\ t.i = i + 1 /\ t.j = j /\ t.ops = Append(w.ops, x)
    BY <2>0, <2>1, <2>2
  <2>4. table[<<i, j>>] = table[<<i + 1, j>>]
    <3>0. i + 1 \in 1..(n + 1)
      BY <2>0
    <3>1. CASE j > m
      <4>1. Entry(a, b, table, i, j) = 0 /\ Entry(a, b, table, i + 1, j) = 0
        BY <3>1 DEF Entry
      <4> QED
        BY <1>2, <3>0, <4>1
    <3>2. CASE ~(j > m)
      <4>0. j + 1 \in 1..(m + 1)
        BY <3>2
      <4>1. Entry(a, b, table, i, j) = Larger(table[<<i + 1, j>>], table[<<i, j + 1>>])
        BY <2>0, <3>2 DEF Entry
      <4>2. Larger(table[<<i + 1, j>>], table[<<i, j + 1>>]) = table[<<i + 1, j>>]
        BY <2>0, <3>2 DEF Larger
      <4> QED
        BY <1>2, <4>1, <4>2
    <3> QED
      BY <3>1, <3>2
  <2>5. KeptBy(t.ops) = KeptBy(w.ops)
    BY <1>3, <2>1, <2>3
  <2>6. KeptBy(t.ops) + table[<<t.i, t.j>>] = table[<<1, 1>>]
    BY <1>0, <2>3, <2>4, <2>5
  <2>7. t.i <= n + 1 /\ t.j <= m + 1 /\ t.i + t.j >= w.i + w.j + 1
    BY <2>0, <2>3
  <2>8. Come(a, b, V, table, t)
    BY <1>1, <2>3, <2>6, <2>7 DEF Come
  <2> QED
    BY <2>7, <2>8
<1>6. CASE Adds(a, b, table, w, t)
  <2>0. /\ j <= m /\ b[j] \in V
        /\ i <= n => a[i] # b[j] /\ ~(table[<<i + 1, j>>] >= table[<<i, j + 1>>])
        /\ t = [i |-> i, j |-> j + 1,
                ops |-> Append(w.ops, [type |-> "add", value |-> b[j]])]
    BY <1>6, <1>9 DEF Adds
  <2> PICK x \in Ops(V) : x = [type |-> "add", value |-> b[j]]
    BY <2>0 DEF Ops, OpType
  <2>1. x.type = "add" /\ x.value = b[j]
    OBVIOUS
  <2>2. Explains(Append(w.ops, x), a, b, i + (IF x.type = "add" THEN 0 ELSE 1),
                 j + (IF x.type = "remove" THEN 0 ELSE 1))
    BY <1>0, <2>1, ExplainsOneMore
  <2>3. Explains(t.ops, a, b, t.i, t.j) /\ t.i = i /\ t.j = j + 1 /\ t.ops = Append(w.ops, x)
    BY <2>0, <2>1, <2>2
  <2>4. table[<<i, j>>] = table[<<i, j + 1>>]
    <3>0. j + 1 \in 1..(m + 1)
      BY <2>0
    <3>1. CASE i > n
      <4>1. Entry(a, b, table, i, j) = 0 /\ Entry(a, b, table, i, j + 1) = 0
        BY <3>1 DEF Entry
      <4> QED
        BY <1>2, <3>0, <4>1
    <3>2. CASE ~(i > n)
      <4>0. i + 1 \in 1..(n + 1) /\ i <= n
        BY <3>2
      <4>1. Entry(a, b, table, i, j) = Larger(table[<<i + 1, j>>], table[<<i, j + 1>>])
        BY <2>0, <4>0 DEF Entry
      <4>2. Larger(table[<<i + 1, j>>], table[<<i, j + 1>>]) = table[<<i, j + 1>>]
        BY <2>0, <4>0 DEF Larger
      <4> QED
        BY <1>2, <4>1, <4>2
    <3> QED
      BY <3>1, <3>2
  <2>5. KeptBy(t.ops) = KeptBy(w.ops)
    BY <1>3, <2>1, <2>3
  <2>6. KeptBy(t.ops) + table[<<t.i, t.j>>] = table[<<1, 1>>]
    BY <1>0, <2>3, <2>4, <2>5
  <2>7. t.i <= n + 1 /\ t.j <= m + 1 /\ t.i + t.j >= w.i + w.j + 1
    BY <2>0, <2>3
  <2>8. Come(a, b, V, table, t)
    BY <1>1, <2>3, <2>6, <2>7 DEF Come
  <2> QED
    BY <2>7, <2>8
<1>7. CASE Rests(a, b, w, t)
  <2>1. w.i = Len(a) + 1 /\ w.j = Len(b) + 1 /\ t = w
    BY <1>0, <1>7 DEF Rests
  <2>2. Come(a, b, V, table, t)
    BY <2>1
  <2> QED
    BY <2>1, <2>2
<1> QED
  BY <1>1, <1>4, <1>5, <1>6, <1>7

\* diffLines: the script explains both files, and it keeps as many lines as the table
\* says that they have in common.
LEMMA DiffLinesExplains ==
  ASSUME NEW V, NEW a \in Seq(V), NEW b \in Seq(V)
  PROVE  /\ DiffLines(a, b) \in Seq(Ops(V))
         /\ Explains(DiffLines(a, b), a, b, Len(a) + 1, Len(b) + 1)
         /\ KeptBy(DiffLines(a, b)) = Lcs(a, b)[<<1, 1>>]
<1> PICK n \in Nat, m \in Nat : n = Len(a) /\ m = Len(b)
  OBVIOUS
<1> PICK z : z = Lcs(a, b)
  OBVIOUS
<1> DEFINE N == Len(a) + Len(b)
           S == WalkStates(V)
           first == [i |-> 1, j |-> 1, ops |-> <<>>]
           Walk(f) == [k \in 0..(Len(a) + Len(b)) |->
                         IF k = 0 THEN [i |-> 1, j |-> 1, ops |-> <<>>]
                         ELSE Turn(a, b, z, f[k - 1])]
           G == [x \in Nat \X S |-> Turn(a, b, z, x[2])]
<1>0. z \in Tables(a, b) /\ N \in Nat
  BY LcsIsTable
<1>1. first \in S
  BY DEF WalkStates
<1>2. G \in [Nat \X S -> S] /\ \A k \in Nat, w \in S : G[<<k, w>>] = Turn(a, b, z, w)
  <2>1. \A w \in S : Turn(a, b, z, w) \in S
    BY TurnTakes
  <2> HIDE DEF S
  <2> QED
    BY <2>1
<1> HIDE DEF G, S
<1>3. PICK h : h \in Rounds(S, N, first, G)
  <2> HIDE DEF N, first
  <2> QED
    BY <1>0, <1>1, <1>2, UpToRecursion
<1>4. h \in [0..N -> S] /\ h[0] = first /\ \A k \in 1..N : h[k] = Turn(a, b, z, h[k - 1])
  <2>1. h \in [0..N -> S] /\ h[0] = first /\ \A k \in 1..N : h[k] = G[<<k, h[k - 1]>>]
    BY <1>3 DEF Rounds
  <2>2. \A k \in 1..N : k \in Nat /\ k - 1 \in 0..N
    BY <1>0
  <2>3. \A k \in 1..N : h[k - 1] \in S
    BY <2>1, <2>2
  <2> QED
    BY <1>2, <2>1, <2>2, <2>3
<1>5. h = Walk(h)
  <2>1. \A k \in 0..N : k = 0 \/ k \in 1..N
    BY <1>0
  <2>2. \A k \in 1..N : k # 0
    BY <1>0
  <2>3. \A k \in 0..N : h[k] = IF k = 0 THEN first ELSE Turn(a, b, z, h[k - 1])
    BY <1>4, <2>1, <2>2
  <2>4. h = [k \in 0..N |-> h[k]]
    BY <1>4
  <2> QED
    BY <2>3, <2>4
<1> DEFINE w == CHOOSE f : f = Walk(f)
<1>6. DiffLines(a, b) = w[N].ops
  BY DEF DiffLines
<1>7. w = Walk(w)
  <2> HIDE DEF Walk
  <2> QED
    BY <1>5
<1> HIDE DEF w
<1>8. w[0] = first /\ \A k \in 1..N : w[k] = Turn(a, b, z, w[k - 1])
  <2>1. 0 \in 0..N
    BY <1>0
  <2>2. w[0] = first
    BY <1>7, <2>1
  <2>3. ASSUME NEW k \in 1..N PROVE w[k] = Turn(a, b, z, w[k - 1])
    <3>1. k \in 0..N /\ k # 0
      BY <1>0
    <3>2. Walk(w)[k] = Turn(a, b, z, w[k - 1])
      BY <3>1
    <3> HIDE DEF Walk
    <3> QED
      BY <1>7, <3>2
  <2> QED
    BY <2>2, <2>3
<1> HIDE DEF Walk
<1> DEFINE Far(v, k) == v.i + v.j >= k + 2 \/ (v.i = n + 1 /\ v.j = m + 1)
           H == {k \in Nat : k <= N => Come(a, b, V, z, w[k]) /\ Far(w[k], k)}
<1>9. 0 \in H
  <2>1. first.ops \in Seq(Ops(V)) /\ Len(first.ops) = 0 /\ DOMAIN first.ops = {}
        /\ first.i = 1 /\ first.j = 1
    OBVIOUS
  <2>2. OldOps(first.ops) = {} /\ NewOps(first.ops) = {}
    BY <2>1 DEF OldOps, NewOps
  <2>3. Before({}, 0 + 1) = 0
    BY FS_EmptySet DEF Before
  <2>4. OldLineAt(first.ops, 0 + 1) = 1 + 0 /\ NewLineAt(first.ops, 0 + 1) = 1 + 0
    BY <2>2, <2>3 DEF OldLineAt, NewLineAt
  <2>5. Explains(first.ops, a, b, 1, 1)
    BY <2>1, <2>4 DEF Explains
  <2>6. KeptBy(first.ops) = 0
    BY <2>1, <2>2, <2>3 DEF KeptBy
  <2>7. z[<<1, 1>>] \in Nat
    <3>1. <<1, 1>> \in Corners(a, b)
      BY DEF Corners
    <3> QED
      BY <1>0, <3>1 DEF Tables
  <2>8. Come(a, b, V, z, first)
    <3> HIDE DEF first
    <3> QED
      BY <1>1, <2>1, <2>5, <2>6, <2>7 DEF Come, S
  <2>9. Far(first, 0)
    BY <2>1
  <2> HIDE DEF first, Far
  <2> QED
    BY <1>8, <2>8, <2>9
<1>10. ASSUME NEW k \in Nat, k \in H PROVE k + 1 \in H
  <2> SUFFICES ASSUME k + 1 <= N PROVE Come(a, b, V, z, w[k + 1]) /\ Far(w[k + 1], k + 1)
    OBVIOUS
  <2>1. k + 1 \in 1..N /\ (k + 1) - 1 = k /\ k <= N
    BY <1>0
  <2>2. Come(a, b, V, z, w[k]) /\ Far(w[k], k)
    BY <1>10, <2>1
  <2>3. w[k + 1] = Turn(a, b, z, w[k])
    BY <1>8, <2>1
  <2> PICK u, v : u = w[k] /\ v = w[k + 1]
    OBVIOUS
  <2>4. Come(a, b, V, z, v) /\ (v.i + v.j >= u.i + u.j + 1 \/ (u.i = n + 1 /\ u.j = m + 1 /\ v = u))
    BY <1>0, <2>2, <2>3, TurnComes
  <2>5. u.i \in Nat /\ u.j \in Nat /\ v.i \in Nat /\ v.j \in Nat
    BY <2>2, <2>4 DEF Come, WalkStates
  <2>6. v.i <= n + 1 /\ v.j <= m + 1
    BY <2>4 DEF Come
  <2>7. Far(u, k)
    BY <2>2
  <2>8. Far(v, k + 1)
    <3>1. \A p, q, e, f \in Nat :
            /\ e <= n + 1 /\ f <= m + 1
            /\ p + q >= k + 2 \/ (p = n + 1 /\ q = m + 1)
            /\ e + f >= p + q + 1 \/ (p = n + 1 /\ q = m + 1 /\ e = p /\ f = q)
            => e + f >= (k + 1) + 2 \/ (e = n + 1 /\ f = m + 1)
      OBVIOUS
    <3>2. PICK p \in Nat, q \in Nat, e \in Nat, f \in Nat :
            p = u.i /\ q = u.j /\ e = v.i /\ f = v.j
      BY <2>5
    <3>3. e + f >= p + q + 1 \/ (p = n + 1 /\ q = m + 1 /\ e = p /\ f = q)
      BY <2>4, <3>2
    <3>4. e <= n + 1 /\ f <= m + 1 /\ (p + q >= k + 2 \/ (p = n + 1 /\ q = m + 1))
      BY <2>6, <2>7, <3>2
    <3>5. e + f >= (k + 1) + 2 \/ (e = n + 1 /\ f = m + 1)
      BY <3>1, <3>3, <3>4
    <3> QED
      BY <3>2, <3>5
  <2> HIDE DEF Far
  <2> QED
    BY <2>4, <2>8
<1> HIDE DEF H
<1>11. Nat \subseteq H
  BY <1>9, <1>10, Everywhere
<1>12. Come(a, b, V, z, w[N]) /\ Far(w[N], N)
  <2> HIDE DEF Far
  <2> QED
    BY <1>0, <1>11 DEF H
<1> PICK v : v = w[N]
  OBVIOUS
<1>13. /\ v \in WalkStates(V) /\ v.i <= n + 1 /\ v.j <= m + 1
       /\ Explains(v.ops, a, b, v.i, v.j) /\ KeptBy(v.ops) + z[<<v.i, v.j>>] = z[<<1, 1>>]
  BY <1>12 DEF Come
<1>14. v.i = n + 1 /\ v.j = m + 1 /\ v.ops \in Seq(Ops(V))
  <2>1. v.i \in Nat /\ v.j \in Nat /\ v.ops \in Seq(Ops(V))
    BY <1>13 DEF WalkStates
  <2>2. v.i + v.j >= (n + m) + 2 \/ (v.i = n + 1 /\ v.j = m + 1)
    BY <1>12
  <2> QED
    BY <1>13, <2>1, <2>2
<1>15. z[<<n + 1, m + 1>>] = 0
  <2>1. n + 1 \in 1..(Len(a) + 1) /\ m + 1 \in 1..(Len(b) + 1)
    OBVIOUS
  <2>2. z[<<n + 1, m + 1>>] = Entry(a, b, z, n + 1, m + 1)
    BY <1>0, <2>1 DEF Tables
  <2>3. Entry(a, b, z, n + 1, m + 1) = 0
    BY DEF Entry
  <2> QED
    BY <2>2, <2>3
<1>16. KeptBy(v.ops) \in Nat
  BY <1>14, LinesAreNat
<1>17. KeptBy(v.ops) = z[<<1, 1>>]
  BY <1>13, <1>14, <1>15, <1>16
<1> QED
  BY <1>6, <1>13, <1>14, <1>17

\* Read in order, the script's ops are the lines of the two files.
ReadsBack(script, a, b) ==
  At(OldOps(script), ValuesOf(script)) = a /\ At(NewOps(script), ValuesOf(script)) = b

\* A script that explains two whole files has an op for every line of either.
LEMMA SidesRead ==
  ASSUME NEW V, NEW a \in Seq(V), NEW b \in Seq(V), NEW script \in Seq(Ops(V)),
         Explains(script, a, b, Len(a) + 1, Len(b) + 1)
  PROVE  /\ Cardinality(OldOps(script)) = Len(a) /\ Cardinality(NewOps(script)) = Len(b)
         /\ Cardinality(OldOps(script) \cap NewOps(script)) = KeptBy(script)
         /\ ReadsBack(script, a, b)
<1> PICK L : L = Len(script)
  OBVIOUS
<1>1. /\ L \in Nat /\ DOMAIN script = 1..L
      /\ OldOps(script) \in SUBSET (1..L) /\ NewOps(script) \in SUBSET (1..L)
      /\ OldOps(script) \cap NewOps(script) \in SUBSET (1..L)
      /\ \A k \in 1..L : /\ k \in OldOps(script) <=> script[k].type # "add"
                         /\ k \in NewOps(script) <=> script[k].type # "remove"
  BY SidesOfScript
<1>2. ASSUME NEW P \in SUBSET (1..L)
      PROVE  Before(P, L + 1) = Cardinality(P) /\ Cardinality(P) \in Nat
  BY <1>1, BeforeCounts
<1>3. /\ 1 + Before(OldOps(script), L + 1) = Len(a) + 1 /\ 1 + Before(NewOps(script), L + 1) = Len(b) + 1
      /\ \A k \in 1..L :
           /\ script[k].type # "add" => script[k].value = a[1 + Before(OldOps(script), k)]
           /\ script[k].type # "remove" => script[k].value = b[1 + Before(NewOps(script), k)]
  BY <1>1 DEF Explains, OldLineAt, NewLineAt
<1>4. Len(a) \in Nat /\ Len(b) \in Nat
  OBVIOUS
<1>5. Cardinality(OldOps(script)) = Len(a) /\ Cardinality(NewOps(script)) = Len(b)
  BY <1>1, <1>2, <1>3, <1>4
<1>6. Cardinality(OldOps(script) \cap NewOps(script)) = KeptBy(script)
  BY <1>1, <1>2 DEF KeptBy
<1>7. ASSUME NEW P \in SUBSET (1..L), NEW f \in Seq(V), Cardinality(P) = Len(f),
             \A k \in P : script[k].value = f[1 + Before(P, k)]
      PROVE  At(P, ValuesOf(script)) = f
  <2>1. \A u \in 1..Cardinality(P) : Nth(P, u) \in P /\ Before(P, Nth(P, u)) = u - 1
    BY <1>1, <1>7, Numbered
  <2>2. ASSUME NEW u \in 1..Len(f) PROVE ValuesOf(script)[Nth(P, u)] = f[u]
    <3>1. Nth(P, u) \in P /\ Before(P, Nth(P, u)) = u - 1 /\ 1 + (u - 1) = u
      BY <1>7, <2>1
    <3>2. script[Nth(P, u)].value = f[1 + (u - 1)]
      BY <1>7, <3>1
    <3>3. ValuesOf(script)[Nth(P, u)] = script[Nth(P, u)].value
      BY <1>1, <3>1 DEF ValuesOf
    <3> QED
      BY <3>1, <3>2, <3>3
  <2>3. At(P, ValuesOf(script)) = [u \in 1..Len(f) |-> ValuesOf(script)[Nth(P, u)]]
    BY <1>7 DEF At
  <2>4. f = [u \in 1..Len(f) |-> f[u]]
    OBVIOUS
  <2> QED
    BY <2>2, <2>3, <2>4
<1>8. /\ \A k \in OldOps(script) : script[k].value = a[1 + Before(OldOps(script), k)]
      /\ \A k \in NewOps(script) : script[k].value = b[1 + Before(NewOps(script), k)]
  BY <1>1, <1>3
<1>9. At(OldOps(script), ValuesOf(script)) = a /\ At(NewOps(script), ValuesOf(script)) = b
  BY <1>1, <1>5, <1>7, <1>8
<1> QED
  BY <1>5, <1>6, <1>9 DEF ReadsBack

\* What two files have in common is no longer than what the script keeps.
LEMMA SelectionsBounded ==
  ASSUME NEW V, NEW a \in Seq(V), NEW b \in Seq(V), NEW s \in Selections(a) \cap Selections(b)
  PROVE  Len(s) <= Lcs(a, b)[<<1, 1>>]
<1>0. Len(a) \in Nat /\ Len(b) \in Nat /\ DOMAIN a = 1..Len(a) /\ DOMAIN b = 1..Len(b)
  OBVIOUS
<1>1. PICK P \in SUBSET DOMAIN a : s = At(P, a)
  BY DEF Selections
<1>2. PICK Q \in SUBSET DOMAIN b : s = At(Q, b)
  BY DEF Selections
<1>3. P \in SUBSET (1..Len(a)) /\ Q \in SUBSET (1..Len(b))
  BY <1>0
<1>4. /\ Cardinality(P) \in Nat /\ Cardinality(Q) \in Nat
      /\ \A u \in 1..Cardinality(P) : Nth(P, u) \in P
      /\ \A u \in 1..Cardinality(Q) : Nth(Q, u) \in Q
      /\ \A u, w \in 1..Cardinality(P) : u < w => Nth(P, u) < Nth(P, w)
      /\ \A u, w \in 1..Cardinality(Q) : u < w => Nth(Q, u) < Nth(Q, w)
  <2>1. /\ Cardinality(P) \in Nat
        /\ \A u \in 1..Cardinality(P) : Nth(P, u) \in P
        /\ \A u, w \in 1..Cardinality(P) : u < w => Nth(P, u) < Nth(P, w)
    BY <1>0, <1>3, BeforeCounts, Numbered
  <2>2. /\ Cardinality(Q) \in Nat
        /\ \A u \in 1..Cardinality(Q) : Nth(Q, u) \in Q
        /\ \A u, w \in 1..Cardinality(Q) : u < w => Nth(Q, u) < Nth(Q, w)
    BY <1>0, <1>3, BeforeCounts, Numbered
  <2> QED
    BY <2>1, <2>2
<1>5. /\ s = [u \in 1..Cardinality(P) |-> a[Nth(P, u)]]
      /\ s = [u \in 1..Cardinality(Q) |-> b[Nth(Q, u)]]
  BY <1>1, <1>2 DEF At
<1>6. PICK r \in Nat : r = Cardinality(P)
  BY <1>4
<1>7. Len(s) = r /\ Cardinality(Q) = r
  <2>1. DOMAIN s = 1..Cardinality(P) /\ DOMAIN s = 1..Cardinality(Q)
    BY <1>5
  <2>2. \A p, q \in Nat : 1..p = 1..q => p = q
    OBVIOUS
  <2>3. Cardinality(Q) = r
    BY <1>4, <1>6, <2>1, <2>2
  <2>4. Len(s) = r
    BY <1>5, <1>6
  <2> QED
    BY <2>3, <2>4
<1> DEFINE x == [u \in 1..r |-> Nth(P, u)]
           y == [u \in 1..r |-> Nth(Q, u)]
<1>8. /\ x \in [1..r -> 1..Len(a)] /\ y \in [1..r -> 1..Len(b)]
      /\ \A u \in 1..r : a[x[u]] = b[y[u]]
      /\ \A u, w \in 1..r : u < w => x[u] < x[w] /\ y[u] < y[w]
  <2>1. \A u \in 1..r : x[u] = Nth(P, u) /\ y[u] = Nth(Q, u)
    OBVIOUS
  <2>2. \A u \in 1..r : Nth(P, u) \in 1..Len(a) /\ Nth(Q, u) \in 1..Len(b)
    BY <1>3, <1>4, <1>6, <1>7
  <2>3. x \in [1..r -> 1..Len(a)] /\ y \in [1..r -> 1..Len(b)]
    BY <2>2
  <2>4. ASSUME NEW u \in 1..r PROVE a[Nth(P, u)] = b[Nth(Q, u)]
    <3>1. s[u] = a[Nth(P, u)]
      BY <1>5, <1>6
    <3>2. s[u] = b[Nth(Q, u)]
      BY <1>5, <1>7
    <3> QED
      BY <3>1, <3>2
  <2> HIDE DEF x, y
  <2> QED
    BY <1>4, <1>6, <1>7, <2>1, <2>3, <2>4
<1> HIDE DEF x, y
<1>9. r <= Lcs(a, b)[<<1, 1>>]
  BY <1>0, <1>8, LcsBounds
<1> QED
  BY <1>7, <1>9

-----------------------------------------------------------------------------
(* Hunks *)

\* The op is shown in the hunk of the change that begins at s; in one of the hunks.
Covers(s, script, c, k) == FirstOp(s, c) <= k /\ k <= LastOp(s, script, c)
InHunkOp(script, c, k) == \E s \in Starts(script, c) : Covers(s, script, c, k)

\* A set of numbers up to N that is not empty has a greatest one.
LEMMA Greatest ==
  ASSUME NEW N \in Nat, NEW T \in SUBSET (1..N), T # {}
  PROVE  \E x \in T : \A y \in T : x >= y
<1> DEFINE R == {d \in 0..N : N - d \in T}
<1>1. \A y \in T : N - y \in R
  <2>1. \A y \in 1..N : N - y \in 0..N /\ N - (N - y) = y
    OBVIOUS
  <2> QED
    BY <2>1
<1>2. R \in SUBSET Nat /\ R # {} /\ \A d \in R : N - d \in T /\ d \in 0..N
  <2>1. PICK y : y \in T
    OBVIOUS
  <2>2. R # {}
    BY <1>1, <2>1
  <2>3. \A d \in R : N - d \in T /\ d \in 0..N
    OBVIOUS
  <2>4. R \in SUBSET Nat
    BY <2>3
  <2> QED
    BY <2>2, <2>3, <2>4
<1> HIDE DEF R
<1>3. PICK d \in R : \A e \in R : d <= e
  BY <1>2, Least
<1>4. \A y \in T : d <= N - y
  BY <1>1, <1>3
<1>5. \A y \in 1..N : d <= N - y => N - d >= y
  BY <1>2
<1>6. \A y \in T : N - d >= y
  BY <1>4, <1>5
<1> QED
  BY <1>2, <1>6

\* The cluster of a start ends at a change, before the next start.
LEMMA EndOfCluster ==
  ASSUME NEW V, NEW script \in Seq(Ops(V)), NEW c \in Nat, NEW s \in Starts(script, c)
  PROVE  LET e == EndOf(s, script, c)
         IN /\ s \in 1..Len(script) /\ e \in Changed(script) /\ e \in 1..Len(script) /\ s <= e
            /\ \A t \in Starts(script, c) : t > s => e < t
            /\ \A k \in Changed(script) :
                 k >= s /\ (\A t \in Starts(script, c) : t > s => k < t) => k <= e
<1> PICK N : N = Len(script)
  OBVIOUS
<1>0. N \in Nat /\ DOMAIN script = 1..N
  OBVIOUS
<1>1. Changed(script) \in SUBSET (1..N) /\ Starts(script, c) \in SUBSET Changed(script)
  BY <1>0 DEF Changed, Starts
<1> PICK T : T = Cluster(s, script, c)
  OBVIOUS
<1>2. \A k : k \in T <=> k \in Changed(script) /\ k >= s
                         /\ \A t \in Starts(script, c) : t > s => k < t
  BY DEF Cluster
<1>3. s \in T
  <2>1. s \in Changed(script) /\ s \in 1..N /\ s >= s /\ \A t \in 1..N : t > s => s < t
    BY <1>1
  <2> QED
    BY <1>1, <1>2, <2>1
<1>4. T \in SUBSET (1..N)
  BY <1>1, <1>2
<1>5. \E x \in T : \A y \in T : x >= y
  BY <1>0, <1>3, <1>4, Greatest
<1>6. EndOf(s, script, c) = CHOOSE x \in T : \A y \in T : x >= y
  BY DEF EndOf, Max
<1>7. PICK e : e = EndOf(s, script, c)
  OBVIOUS
<1>8. e \in T /\ \A y \in T : e >= y
  BY <1>5, <1>6, <1>7
<1>9. e \in 1..N /\ s \in 1..N /\ s <= e
  BY <1>3, <1>4, <1>8
<1>10. ASSUME NEW k \in Changed(script), k >= s, \A t \in Starts(script, c) : t > s => k < t
       PROVE  k <= e
  <2>1. k \in T /\ k \in 1..N
    BY <1>1, <1>2, <1>10
  <2>2. e >= k
    BY <1>8, <2>1
  <2> QED
    BY <1>9, <2>1, <2>2
<1> QED
  BY <1>2, <1>7, <1>8, <1>9, <1>10

\* Hunks lie in the script and one after the other, and every change is in one.
LEMMA HunksApart ==
  ASSUME NEW V, NEW script \in Seq(Ops(V)), NEW c \in Nat
  PROVE  /\ Starts(script, c) \in SUBSET (1..Len(script))
         /\ \A s \in Starts(script, c) :
              /\ FirstOp(s, c) \in 1..Len(script) /\ LastOp(s, script, c) \in 1..Len(script)
              /\ FirstOp(s, c) <= LastOp(s, script, c)
         /\ \A s, t \in Starts(script, c) : s < t => LastOp(s, script, c) < FirstOp(t, c)
         /\ \A k \in Changed(script) : InHunkOp(script, c, k)
<1> PICK N \in Nat : N = Len(script)
  OBVIOUS
<1>1. /\ DOMAIN script = 1..N /\ Changed(script) \in SUBSET (1..N)
      /\ Starts(script, c) \in SUBSET Changed(script)
      /\ Starts(script, c) \in SUBSET (1..N)
  BY DEF Changed, Starts
<1>2. ASSUME NEW s \in Starts(script, c)
      PROVE  /\ FirstOp(s, c) \in 1..N /\ LastOp(s, script, c) \in 1..N
             /\ FirstOp(s, c) <= s /\ s <= LastOp(s, script, c)
             /\ EndOf(s, script, c) <= LastOp(s, script, c)
             /\ s \in 1..N /\ EndOf(s, script, c) \in 1..N
  <2>1. PICK e \in 1..N : e = EndOf(s, script, c) /\ s <= e /\ s \in 1..N
    BY EndOfCluster
  <2>2. \A p \in 1..N : /\ Larger(1, p - c) \in 1..N /\ Larger(1, p - c) <= p
                        /\ Smaller(N, p + c) \in 1..N /\ p <= Smaller(N, p + c)
    BY DEF Larger, Smaller
  <2>3. FirstOp(s, c) = Larger(1, s - c) /\ LastOp(s, script, c) = Smaller(N, e + c)
    BY <2>1 DEF FirstOp, LastOp
  <2>4. e <= Smaller(N, e + c) /\ Smaller(N, e + c) \in 1..N /\ Larger(1, s - c) \in 1..N
        /\ Larger(1, s - c) <= s
    BY <2>1, <2>2
  <2>5. \A p, q, t \in 1..N : p <= q /\ q <= t => p <= t
    OBVIOUS
  <2>6. s <= Smaller(N, e + c)
    BY <2>1, <2>4, <2>5
  <2> QED
    BY <2>1, <2>3, <2>4, <2>6
<1>3. ASSUME NEW s \in Starts(script, c), NEW t \in Starts(script, c), s < t
      PROVE  LastOp(s, script, c) < FirstOp(t, c)
  <2>1. PICK e \in 1..N : /\ e = EndOf(s, script, c) /\ e \in Changed(script) /\ e < t
                          /\ s \in 1..N /\ t \in 1..N
    BY <1>1, <1>3, EndOfCluster
  <2>2. t - e > c * 2
    BY <2>1 DEF Starts, Apart
  <2>3. LastOp(s, script, c) = Smaller(N, e + c) /\ FirstOp(t, c) = Larger(1, t - c)
    BY <2>1 DEF LastOp, FirstOp
  <2>4. e + c < t - c
    BY <2>1, <2>2
  <2>5. Smaller(N, e + c) <= e + c /\ t - c <= Larger(1, t - c)
    <3>1. \A p, q \in Int : Smaller(p, q) <= q /\ q <= Larger(p, q)
      BY DEF Smaller, Larger
    <3>2. e + c \in Int /\ t - c \in Int
      BY <2>1
    <3> QED
      BY <3>1, <3>2
  <2>6. Smaller(N, e + c) \in Int /\ Larger(1, t - c) \in Int /\ e + c \in Int /\ t - c \in Int
    BY <2>1 DEF Smaller, Larger
  <2>7. \A p, q, r, u \in Int : p <= q /\ q < r /\ r <= u => p < u
    OBVIOUS
  <2> QED
    BY <2>3, <2>4, <2>5, <2>6, <2>7
<1>4. ASSUME NEW k \in Changed(script) PROVE InHunkOp(script, c, k)
  <2>0. k \in 1..N
    BY <1>1
  <2> DEFINE T == {s \in Starts(script, c) : s <= k}
  <2>1. T # {}
    <3>1. Changed(script) \in SUBSET Nat /\ Changed(script) # {}
      BY <1>1
    <3>2. PICK p \in Changed(script) : \A q \in Changed(script) : p <= q
      BY <3>1, Least
    <3>3. \A q \in Changed(script) : ~(q < p)
      BY <1>1, <3>2
    <3>4. p \in Starts(script, c)
      BY <3>3 DEF Starts
    <3> QED
      BY <3>2, <3>4
  <2>2. T \in SUBSET (1..N)
    BY <1>1
  <2>3. PICK s \in T : \A t \in T : s >= t
    BY <2>1, <2>2, Greatest
  <2>4. s \in Starts(script, c) /\ s \in 1..N /\ s <= k
    BY <1>1, <2>3
  <2>5. ASSUME NEW t \in Starts(script, c), t > s PROVE k < t
    <3>1. t \in 1..N /\ ~(s >= t)
      BY <1>1, <2>4, <2>5
    <3>2. t \notin T
      BY <2>3, <3>1
    <3>3. ~(t <= k)
      BY <3>2
    <3> QED
      BY <2>0, <3>1, <3>3
  <2>6. k >= s
    BY <2>0, <2>4
  <2>7. k <= EndOf(s, script, c)
    BY <2>4, <2>5, <2>6, EndOfCluster
  <2>8. FirstOp(s, c) \in 1..N /\ LastOp(s, script, c) \in 1..N /\ EndOf(s, script, c) \in 1..N
        /\ FirstOp(s, c) <= s /\ EndOf(s, script, c) <= LastOp(s, script, c)
    BY <1>2, <2>4
  <2>9. \A p, q, r \in 1..N : p <= q /\ q <= r => p <= r
    OBVIOUS
  <2>10. FirstOp(s, c) <= k /\ k <= LastOp(s, script, c)
    BY <2>0, <2>4, <2>7, <2>8, <2>9
  <2> QED
    BY <2>4, <2>10 DEF InHunkOp, Covers
<1>5. ASSUME NEW s \in Starts(script, c)
      PROVE  /\ FirstOp(s, c) \in 1..N /\ LastOp(s, script, c) \in 1..N
             /\ FirstOp(s, c) <= LastOp(s, script, c)
  <2>1. \A p, q, r \in 1..N : p <= q /\ q <= r => p <= r
    OBVIOUS
  <2> QED
    BY <1>2, <2>1
<1> QED
  BY <1>1, <1>3, <1>4, <1>5

\* Where hunk n begins, and the op after it; an op no hunk shows.
HunkFrom(script, c, n) == FirstOp(Nth(Starts(script, c), n), c)
Edge(script, c, n) == IF n = 0 THEN 1 ELSE LastOp(Nth(Starts(script, c), n), script, c) + 1
Unshown(script, c, k) == k \in OldOps(script) /\ k \in NewOps(script) /\ ~InHunkOp(script, c, k)

\* The ops from j to the one before k are not shown.
Gap(script, c, j, k) == \A i \in j..(k - 1) : Unshown(script, c, i)

\* The hunks of a body in order: each shows the ops from its start to its edge, nothing
\* is changed between them or after the last, and none reaches back into another.
LEMMA Layout ==
  ASSUME NEW V, NEW script \in Seq(Ops(V)), NEW c \in Nat
  PROVE  LET N == Len(script)
             K == Cardinality(Starts(script, c))
         IN /\ K \in Nat /\ N \in Nat /\ Len(Body(script, c)) = K
            /\ Body(script, c) \in [1..K -> {Hunk(s, script, c) : s \in Starts(script, c)}]
            /\ Edge(script, c, 0) = 1
            /\ \A n \in 0..K : Edge(script, c, n) \in 1..(N + 1)
            /\ \A n \in 1..K :
                 /\ Nth(Starts(script, c), n) \in Starts(script, c)
                 /\ Body(script, c)[n] = Hunk(Nth(Starts(script, c), n), script, c)
                 /\ HunkFrom(script, c, n) \in 1..N
                 /\ Edge(script, c, n - 1) <= HunkFrom(script, c, n)
                 /\ HunkFrom(script, c, n) < Edge(script, c, n)
                 /\ Gap(script, c, Edge(script, c, n - 1), HunkFrom(script, c, n))
                 /\ \A k \in HunkFrom(script, c, n)..(Edge(script, c, n) - 1) : InHunkOp(script, c, k)
            /\ Gap(script, c, Edge(script, c, K), N + 1)
<1> PICK N, K, S : N = Len(script) /\ K = Cardinality(Starts(script, c)) /\ S = Starts(script, c)
  OBVIOUS
<1>1. /\ S \in SUBSET (1..N) /\ N \in Nat
      /\ \A s \in S : /\ FirstOp(s, c) \in 1..N /\ LastOp(s, script, c) \in 1..N
                      /\ FirstOp(s, c) <= LastOp(s, script, c)
      /\ \A s, t \in S : s < t => LastOp(s, script, c) < FirstOp(t, c)
      /\ \A k \in Changed(script) : InHunkOp(script, c, k)
  BY HunksApart
<1>2. /\ K \in Nat
      /\ \A n \in 1..K : Nth(S, n) \in S
      /\ \A k \in S : Before(S, k) + 1 \in 1..K /\ Nth(S, Before(S, k) + 1) = k
      /\ \A m, n \in 1..K : m < n => Nth(S, m) < Nth(S, n)
  BY <1>1, BeforeCounts, Numbered
<1>3. ASSUME NEW n \in 1..K
      PROVE  /\ Edge(script, c, n) = LastOp(Nth(S, n), script, c) + 1
             /\ HunkFrom(script, c, n) = FirstOp(Nth(S, n), c)
  BY <1>2 DEF Edge, HunkFrom
<1>4. Edge(script, c, 0) = 1
  BY DEF Edge
<1>5. ASSUME NEW n \in 0..K PROVE Edge(script, c, n) \in 1..(N + 1)
  <2>1. CASE n = 0
    BY <1>1, <1>4, <2>1
  <2>2. CASE n # 0
    <3>1. n \in 1..K
      BY <1>2, <2>2
    <3>2. LastOp(Nth(S, n), script, c) \in 1..N
      BY <1>1, <1>2, <3>1
    <3> QED
      BY <1>1, <1>3, <3>1, <3>2
  <2> QED
    BY <2>1, <2>2
\* no hunk shows an op that lies between two of them
<1>6. ASSUME NEW n \in 0..K, NEW k \in 1..N, Edge(script, c, n) <= k,
             n < K => k < HunkFrom(script, c, n + 1)
      PROVE  Unshown(script, c, k)
  <2>1. ASSUME NEW s \in S PROVE ~Covers(s, script, c, k)
    <3> PICK m : m = Before(S, s) + 1
      OBVIOUS
    <3>1. m \in 1..K /\ Nth(S, m) = s
      BY <1>2
    <3>2. FirstOp(s, c) \in 1..N /\ LastOp(s, script, c) \in 1..N
      BY <1>1
    <3>3. CASE m <= n
      <4>1. n \in 1..K /\ Nth(S, n) \in S /\ FirstOp(Nth(S, n), c) \in 1..N
            /\ LastOp(Nth(S, n), script, c) \in 1..N
            /\ FirstOp(Nth(S, n), c) <= LastOp(Nth(S, n), script, c)
        BY <1>1, <1>2, <3>1, <3>3
      <4>2. LastOp(s, script, c) <= LastOp(Nth(S, n), script, c)
        <5>1. CASE m = n
          BY <3>1, <4>1, <5>1
        <5>2. CASE m < n
          <6>1. LastOp(s, script, c) < FirstOp(Nth(S, n), c)
            BY <1>1, <1>2, <3>1, <4>1, <5>2
          <6>2. \A p, q, r \in 1..N : p < q /\ q <= r => p <= r
            OBVIOUS
          <6> QED
            BY <3>2, <4>1, <6>1, <6>2
        <5> QED
          BY <3>1, <3>3, <5>1, <5>2
      <4>3. LastOp(Nth(S, n), script, c) + 1 <= k
        BY <1>3, <1>6, <4>1
      <4>4. \A p, q \in 1..N : p <= q /\ q + 1 <= k => ~(k <= p)
        OBVIOUS
      <4>5. ~(k <= LastOp(s, script, c))
        BY <3>2, <4>1, <4>2, <4>3, <4>4
      <4> QED
        BY <4>5 DEF Covers
    <3>4. CASE n < m
      <4>1. n + 1 \in 1..K /\ Nth(S, n + 1) \in S /\ FirstOp(Nth(S, n + 1), c) \in 1..N
            /\ LastOp(Nth(S, n + 1), script, c) \in 1..N
            /\ FirstOp(Nth(S, n + 1), c) <= LastOp(Nth(S, n + 1), script, c)
        <5>1. n + 1 \in 1..K
          BY <1>2, <3>1, <3>4
        <5> QED
          BY <1>1, <1>2, <5>1
      <4>2. FirstOp(Nth(S, n + 1), c) <= FirstOp(s, c)
        <5>1. CASE m = n + 1
          BY <3>1, <4>1, <5>1
        <5>2. CASE n + 1 < m
          <6>1. LastOp(Nth(S, n + 1), script, c) < FirstOp(s, c)
            BY <1>1, <1>2, <3>1, <4>1, <5>2
          <6>2. \A p, q, r \in 1..N : p <= q /\ q < r => p <= r
            OBVIOUS
          <6> QED
            BY <3>2, <4>1, <6>1, <6>2
        <5> QED
          BY <1>2, <3>1, <3>4, <5>1, <5>2
      <4>3. k < FirstOp(Nth(S, n + 1), c)
        <5>1. n < K
          BY <1>2, <3>1, <3>4
        <5> QED
          BY <1>3, <1>6, <4>1, <5>1
      <4>4. \A p, q \in 1..N : p <= q /\ k < p => ~(q <= k)
        OBVIOUS
      <4>5. ~(FirstOp(s, c) <= k)
        BY <3>2, <4>1, <4>2, <4>3, <4>4
      <4> QED
        BY <4>5 DEF Covers
    <3> QED
      BY <1>2, <3>1, <3>3, <3>4
  <2>2. ~InHunkOp(script, c, k)
    BY <2>1 DEF InHunkOp
  <2>3. k \notin Changed(script)
    BY <1>1, <2>2
  <2>4. k \in OldOps(script) /\ k \in NewOps(script)
    BY <2>3 DEF Changed, OldOps, NewOps
  <2> QED
    BY <2>2, <2>4 DEF Unshown
<1>7. ASSUME NEW n \in 1..K
      PROVE  /\ HunkFrom(script, c, n) \in 1..N
             /\ Edge(script, c, n - 1) <= HunkFrom(script, c, n)
             /\ HunkFrom(script, c, n) < Edge(script, c, n)
             /\ Gap(script, c, Edge(script, c, n - 1), HunkFrom(script, c, n))
             /\ \A k \in HunkFrom(script, c, n)..(Edge(script, c, n) - 1) : InHunkOp(script, c, k)
  <2> PICK f \in 1..N, l \in 1..N :
        /\ f = FirstOp(Nth(S, n), c) /\ l = LastOp(Nth(S, n), script, c) /\ f <= l
    BY <1>1, <1>2
  <2>1. HunkFrom(script, c, n) = f /\ Edge(script, c, n) = l + 1
    BY <1>3
  <2>2. n - 1 \in 0..K /\ (n - 1) + 1 = n
    BY <1>2
  <2>3. Edge(script, c, n - 1) <= f
    <3>1. CASE n = 1
      BY <1>4, <3>1
    <3>2. CASE n # 1
      <4>1. n - 1 \in 1..K /\ n - 1 < n
        BY <1>2, <3>2
      <4>2. LastOp(Nth(S, n - 1), script, c) < f /\ LastOp(Nth(S, n - 1), script, c) \in 1..N
        BY <1>1, <1>2, <4>1
      <4> QED
        BY <1>3, <4>1, <4>2
    <3> QED
      BY <3>1, <3>2
  <2>4. Edge(script, c, n - 1) \in 1..(N + 1)
    BY <1>5, <2>2
  <2>5. ASSUME NEW k \in Edge(script, c, n - 1)..(f - 1) PROVE Unshown(script, c, k)
    <3>1. k \in 1..N /\ Edge(script, c, n - 1) <= k /\ k < HunkFrom(script, c, (n - 1) + 1)
      BY <1>1, <2>1, <2>2, <2>4
    <3> QED
      BY <1>6, <2>2, <3>1
  <2>6. ASSUME NEW k \in f..((l + 1) - 1) PROVE InHunkOp(script, c, k)
    <3>1. f <= k /\ k <= l
      BY <1>1
    <3>2. Covers(Nth(S, n), script, c, k) /\ Nth(S, n) \in S
      BY <1>2, <3>1 DEF Covers
    <3> QED
      BY <3>2 DEF InHunkOp
  <2> QED
    BY <2>1, <2>3, <2>5, <2>6 DEF Gap
<1>8. Gap(script, c, Edge(script, c, K), N + 1)
  <2> SUFFICES ASSUME NEW k \in Edge(script, c, K)..((N + 1) - 1) PROVE Unshown(script, c, k)
    BY DEF Gap
  <2>1. K \in 0..K /\ Edge(script, c, K) \in 1..(N + 1)
    BY <1>2, <1>5
  <2>2. k \in 1..N /\ Edge(script, c, K) <= k
    BY <1>1, <2>1
  <2> QED
    BY <1>6, <1>2, <2>1, <2>2
<1>9. /\ Body(script, c) = [n \in 1..K |-> Hunk(Nth(S, n), script, c)]
      /\ Len(Body(script, c)) = K
  BY <1>2 DEF Body
<1>10. Body(script, c) \in [1..K -> {Hunk(s, script, c) : s \in S}]
  BY <1>2, <1>9
<1> QED
  BY <1>1, <1>2, <1>4, <1>5, <1>7, <1>8, <1>9, <1>10

\* The places of P from f to l, counted from f.
LEMMA ShiftedCounts ==
  ASSUME NEW L \in Nat, NEW P \in SUBSET (1..L), NEW f \in 1..L, NEW l \in 1..L, f <= l,
         NEW Q \in SUBSET (1..(l - f + 1)), \A u \in 1..(l - f + 1) : u \in Q <=> f + u - 1 \in P
  PROVE  /\ Cardinality(Q) \in Nat /\ Cardinality(Q) = Before(P, l + 1) - Before(P, f)
         /\ \A k \in P : f <= k /\ k <= l =>
              /\ Before(P, k) - Before(P, f) + 1 \in 1..Cardinality(Q)
              /\ Nth(Q, Before(P, k) - Before(P, f) + 1) = k - f + 1
         /\ \A u \in 1..Cardinality(Q) :
              \E k \in P : /\ f <= k /\ k <= l /\ Nth(Q, u) = k - f + 1
                           /\ Before(P, k) = Before(P, f) + u - 1
<1>m. PICK M \in Nat : M = l - f + 1
  OBVIOUS
<1>0. Q \in SUBSET (1..M) /\ \A u \in 1..M : u \in Q <=> f + u - 1 \in P
  BY <1>m
<1>1. /\ Cardinality(Q) \in Nat /\ Before(Q, 1) = 0 /\ Before(Q, M + 1) = Cardinality(Q)
      /\ \A k \in Nat : Before(Q, k) \in Nat
      /\ \A k \in Nat : Before(Q, k + 1) = Before(Q, k) + (IF k \in Q THEN 1 ELSE 0)
  <2>1. ASSUME NEW R \in SUBSET (1..M)
        PROVE  /\ Cardinality(R) \in Nat /\ Before(R, 1) = 0 /\ Before(R, M + 1) = Cardinality(R)
               /\ \A k \in Nat : Before(R, k) \in Nat
               /\ \A k \in Nat : Before(R, k + 1) = Before(R, k) + (IF k \in R THEN 1 ELSE 0)
    BY BeforeCounts
  <2> QED
    BY <1>0, <2>1
<1>2. /\ \A k \in Nat : Before(P, k) \in Nat
      /\ \A k \in Nat : Before(P, k + 1) = Before(P, k) + (IF k \in P THEN 1 ELSE 0)
  BY BeforeCounts
<1> DEFINE H == {u \in Nat : u <= M => Before(Q, u + 1) = Before(P, f + u) - Before(P, f)}
<1>3. 0 \in H
  <2>1. f + 0 = f /\ f \in Nat /\ 0 + 1 = 1
    OBVIOUS
  <2>2. Before(P, f) \in Nat
    BY <1>2, <2>1
  <2> QED
    BY <1>1, <2>1, <2>2
<1>4. ASSUME NEW u \in Nat, u \in H PROVE u + 1 \in H
  <2> SUFFICES ASSUME u + 1 <= M
               PROVE  Before(Q, (u + 1) + 1) = Before(P, f + (u + 1)) - Before(P, f)
    OBVIOUS
  <2>1. /\ u + 1 \in 1..M /\ f + u \in Nat /\ f + (u + 1) = (f + u) + 1 /\ f + (u + 1) - 1 = f + u
        /\ f \in Nat /\ u <= M
    OBVIOUS
  <2>2. Before(Q, u + 1) = Before(P, f + u) - Before(P, f)
    BY <1>4, <2>1
  <2>3. u + 1 \in Q <=> f + u \in P
    BY <1>0, <2>1
  <2>4. /\ Before(Q, (u + 1) + 1) = Before(Q, u + 1) + (IF u + 1 \in Q THEN 1 ELSE 0)
        /\ Before(P, (f + u) + 1) = Before(P, f + u) + (IF f + u \in P THEN 1 ELSE 0)
        /\ Before(P, f) \in Nat /\ Before(P, f + u) \in Nat
    BY <1>1, <1>2, <2>1
  <2>5. \A p, q, d \in Nat : (p - q) + d = (p + d) - q
    OBVIOUS
  <2> QED
    BY <2>1, <2>2, <2>3, <2>4, <2>5
<1> HIDE DEF H
<1>5. Nat \subseteq H
  BY <1>3, <1>4, Everywhere
<1>6. \A u \in 0..M : Before(Q, u + 1) = Before(P, f + u) - Before(P, f)
  BY <1>5 DEF H
<1>7. Cardinality(Q) = Before(P, l + 1) - Before(P, f)
  <2>1. M \in 0..M /\ f + M = l + 1
    BY <1>m
  <2> QED
    BY <1>1, <1>6, <2>1
<1>8. /\ \A n \in 1..Cardinality(Q) : Nth(Q, n) \in Q /\ Before(Q, Nth(Q, n)) = n - 1
      /\ \A k \in Q : /\ Before(Q, k) + 1 \in 1..Cardinality(Q)
                      /\ Nth(Q, Before(Q, k) + 1) = k
  <2>1. ASSUME NEW R \in SUBSET (1..M)
        PROVE  /\ \A n \in 1..Cardinality(R) : Nth(R, n) \in R /\ Before(R, Nth(R, n)) = n - 1
               /\ \A k \in R : /\ Before(R, k) + 1 \in 1..Cardinality(R)
                               /\ Nth(R, Before(R, k) + 1) = k
    BY Numbered
  <2> QED
    BY <1>0, <2>1
<1>9. ASSUME NEW k \in P, f <= k, k <= l
      PROVE  /\ Before(P, k) - Before(P, f) + 1 \in 1..Cardinality(Q)
             /\ Nth(Q, Before(P, k) - Before(P, f) + 1) = k - f + 1
  <2> PICK u \in 0..M : u = k - f
    BY <1>m, <1>9
  <2>1. f + u = k /\ u + 1 \in 1..M /\ f + (u + 1) - 1 = k /\ k - f + 1 = u + 1
    BY <1>m, <1>9
  <2>2. Before(Q, u + 1) = Before(P, k) - Before(P, f)
    BY <1>6, <2>1
  <2>3. u + 1 \in Q
    BY <1>0, <2>1
  <2> QED
    BY <1>8, <2>1, <2>2, <2>3
<1>10. ASSUME NEW u \in 1..Cardinality(Q)
       PROVE  \E k \in P : /\ f <= k /\ k <= l /\ Nth(Q, u) = k - f + 1
                           /\ Before(P, k) = Before(P, f) + u - 1
  <2>1. PICK v \in Q : v = Nth(Q, u) /\ Before(Q, v) = u - 1
    BY <1>8
  <2>2. v \in 1..M /\ v - 1 \in 0..M /\ (v - 1) + 1 = v
    <3>1. v \in 1..M
      BY <1>0, <2>1
    <3> QED
      BY <3>1
  <2> PICK k : k = f + v - 1
    OBVIOUS
  <2>3. k \in P /\ f <= k /\ k <= l /\ v = k - f + 1 /\ k = f + (v - 1) /\ k \in Nat
    BY <1>m, <1>0, <2>2
  <2>4. u - 1 = Before(P, k) - Before(P, f)
    BY <1>6, <2>1, <2>2, <2>3
  <2>5. Before(P, k) \in Nat /\ Before(P, f) \in Nat /\ u \in Nat
    BY <1>1, <1>2, <2>3
  <2>6. \A p, q, n \in Nat : n - 1 = p - q => p = q + n - 1
    OBVIOUS
  <2>7. Before(P, k) = Before(P, f) + u - 1
    BY <2>4, <2>5, <2>6
  <2> QED
    BY <2>1, <2>3, <2>7
<1> QED
  BY <1>m, <1>0, <1>1, <1>7, <1>9, <1>10

\* The numbers of lines grow with the ops.
LEMMA LinesGrow ==
  ASSUME NEW V, NEW script \in Seq(Ops(V)), NEW j \in 1..(Len(script) + 1),
         NEW k \in 1..(Len(script) + 1), j <= k
  PROVE  /\ OldLineAt(script, j) <= OldLineAt(script, k)
         /\ NewLineAt(script, j) <= NewLineAt(script, k)
         /\ j < k /\ j \in OldOps(script) => OldLineAt(script, j) < OldLineAt(script, k)
         /\ j < k /\ j \in NewOps(script) => NewLineAt(script, j) < NewLineAt(script, k)
<1>1. /\ Len(script) \in Nat /\ j \in Nat /\ k \in Nat
      /\ OldOps(script) \in SUBSET (1..Len(script)) /\ NewOps(script) \in SUBSET (1..Len(script))
  BY SidesOfScript
<1>2. j < k => j \in j..(k - 1)
  BY <1>1
<1>3. ASSUME NEW P \in SUBSET (1..Len(script))
      PROVE  /\ Before(P, j) \in Nat /\ Before(P, k) \in Nat
             /\ Before(P, j) <= Before(P, k)
             /\ j < k /\ j \in P => Before(P, j) < Before(P, k)
  <2>1. Before(P, j) \in Nat /\ Before(P, k) \in Nat
    BY <1>1, BeforeCounts
  <2>2. /\ Before(P, j) <= Before(P, k)
        /\ (\E i \in j..(k - 1) : i \in P) => Before(P, j) < Before(P, k)
    BY <1>1, BeforeGrows
  <2> QED
    BY <1>2, <2>1, <2>2
<1>5. \A p, q \in Nat : /\ p <= q => 1 + p <= 1 + q
                        /\ p < q => 1 + p < 1 + q
  OBVIOUS
<1>6. /\ Before(OldOps(script), j) \in Nat /\ Before(OldOps(script), k) \in Nat
      /\ Before(OldOps(script), j) <= Before(OldOps(script), k)
      /\ j < k /\ j \in OldOps(script) => Before(OldOps(script), j) < Before(OldOps(script), k)
  BY <1>1, <1>3
<1>7. /\ Before(NewOps(script), j) \in Nat /\ Before(NewOps(script), k) \in Nat
      /\ Before(NewOps(script), j) <= Before(NewOps(script), k)
      /\ j < k /\ j \in NewOps(script) => Before(NewOps(script), j) < Before(NewOps(script), k)
  BY <1>1, <1>3
<1> QED
  BY <1>5, <1>6, <1>7 DEF OldLineAt, NewLineAt

\* They grow by one per op where nothing is shown.
LEMMA GapLines ==
  ASSUME NEW V, NEW script \in Seq(Ops(V)), NEW c, NEW j \in 1..(Len(script) + 1),
         NEW k \in 1..(Len(script) + 1), j <= k, Gap(script, c, j, k)
  PROVE  /\ OldLineAt(script, k) = OldLineAt(script, j) + (k - j)
         /\ NewLineAt(script, k) = NewLineAt(script, j) + (k - j)
<1>1. /\ Len(script) \in Nat /\ j \in Nat /\ k \in Nat
      /\ OldOps(script) \in SUBSET (1..Len(script)) /\ NewOps(script) \in SUBSET (1..Len(script))
  BY SidesOfScript
<1>2. ASSUME NEW P \in SUBSET (1..Len(script)), \A i \in j..(k - 1) : i \in P
      PROVE  1 + Before(P, k) = (1 + Before(P, j)) + (k - j)
  <2>1. Before(P, j) \in Nat /\ Before(P, k) \in Nat
    BY <1>1, BeforeCounts
  <2>2. Before(P, k) = Before(P, j) + (k - j)
    BY <1>1, <1>2, BeforeGrows
  <2>3. \A p \in Nat : 1 + (p + (k - j)) = (1 + p) + (k - j)
    BY <1>1
  <2> QED
    BY <2>1, <2>2, <2>3
<1>3. (\A i \in j..(k - 1) : i \in OldOps(script)) /\ (\A i \in j..(k - 1) : i \in NewOps(script))
  BY DEF Gap, Unshown
<1> QED
  BY <1>1, <1>2, <1>3 DEF OldLineAt, NewLineAt

\* Lines at the ends of a script, and the op of a line.
LEMMA LinesBounded ==
  ASSUME NEW V, NEW script \in Seq(Ops(V))
  PROVE  /\ Cardinality(OldOps(script)) \in Nat /\ Cardinality(NewOps(script)) \in Nat
         /\ OldLineAt(script, 1) = 1 /\ NewLineAt(script, 1) = 1
         /\ OldLineAt(script, Len(script) + 1) = Cardinality(OldOps(script)) + 1
         /\ NewLineAt(script, Len(script) + 1) = Cardinality(NewOps(script)) + 1
         /\ \A k \in OldOps(script) : /\ k \in 1..Len(script)
                                      /\ OldLineAt(script, k) \in 1..Cardinality(OldOps(script))
         /\ \A k \in NewOps(script) : /\ k \in 1..Len(script)
                                      /\ NewLineAt(script, k) \in 1..Cardinality(NewOps(script))
         /\ \A i \in 1..Cardinality(OldOps(script)) : \E k \in OldOps(script) : OldLineAt(script, k) = i
         /\ \A i \in 1..Cardinality(NewOps(script)) : \E k \in NewOps(script) : NewLineAt(script, k) = i
         /\ \A j, k \in OldOps(script) : OldLineAt(script, j) = OldLineAt(script, k) => j = k
         /\ \A j, k \in NewOps(script) : NewLineAt(script, j) = NewLineAt(script, k) => j = k
<1>1. /\ Len(script) \in Nat
      /\ OldOps(script) \in SUBSET (1..Len(script)) /\ NewOps(script) \in SUBSET (1..Len(script))
  BY SidesOfScript
<1>2. ASSUME NEW P \in SUBSET (1..Len(script))
      PROVE  /\ Cardinality(P) \in Nat
             /\ Before(P, 1) = 0 /\ Before(P, Len(script) + 1) = Cardinality(P)
             /\ \A k \in P : /\ k \in 1..Len(script)
                             /\ Before(P, k) + 1 \in 1..Cardinality(P) /\ Before(P, k) \in Nat
             /\ \A i \in 1..Cardinality(P) : \E k \in P : Before(P, k) = i - 1
             /\ \A j, k \in P : Before(P, j) = Before(P, k) => j = k
  <2>1. /\ Cardinality(P) \in Nat /\ Before(P, 1) = 0 /\ Before(P, Len(script) + 1) = Cardinality(P)
        /\ \A k \in Nat : Before(P, k) \in Nat
    BY <1>1, BeforeCounts
  <2>2. /\ \A k \in P : Before(P, k) + 1 \in 1..Cardinality(P)
        /\ \A i \in 1..Cardinality(P) : Nth(P, i) \in P /\ Before(P, Nth(P, i)) = i - 1
        /\ \A j, k \in P : Before(P, j) = Before(P, k) => j = k
    BY <1>1, Numbered
  <2>3. \A k \in P : k \in 1..Len(script) /\ k \in Nat
    OBVIOUS
  <2> QED
    BY <2>1, <2>2, <2>3
<1>3. /\ \A p \in Nat : 1 + p = p + 1
      /\ \A i \in Nat : 1 + (i - 1) = i
      /\ \A p, q \in Nat : 1 + p = 1 + q => p = q
  OBVIOUS
<1>4. ASSUME NEW P \in SUBSET (1..Len(script))
      PROVE  /\ Cardinality(P) \in Nat
             /\ 1 + Before(P, 1) = 1 /\ 1 + Before(P, Len(script) + 1) = Cardinality(P) + 1
             /\ \A k \in P : k \in 1..Len(script) /\ 1 + Before(P, k) \in 1..Cardinality(P)
             /\ \A i \in 1..Cardinality(P) : \E k \in P : 1 + Before(P, k) = i
             /\ \A j, k \in P : 1 + Before(P, j) = 1 + Before(P, k) => j = k
  <2>1. Cardinality(P) \in Nat /\ 1 + Before(P, 1) = 1
        /\ 1 + Before(P, Len(script) + 1) = Cardinality(P) + 1
    BY <1>2, <1>3
  <2>2. \A k \in P : k \in 1..Len(script) /\ 1 + Before(P, k) \in 1..Cardinality(P)
    BY <1>2, <1>3
  <2>3. ASSUME NEW i \in 1..Cardinality(P) PROVE \E k \in P : 1 + Before(P, k) = i
    <3>1. PICK k \in P : Before(P, k) = i - 1
      BY <1>2
    <3> QED
      BY <1>3, <3>1
  <2>4. ASSUME NEW j \in P, NEW k \in P, 1 + Before(P, j) = 1 + Before(P, k) PROVE j = k
    <3>1. Before(P, j) \in Nat /\ Before(P, k) \in Nat
      BY <1>2
    <3>2. Before(P, j) = Before(P, k)
      BY <1>3, <2>4, <3>1
    <3> QED
      BY <1>2, <3>2
  <2> QED
    BY <2>1, <2>2, <2>3, <2>4
<1>5. PICK old1, new1 : old1 = OldOps(script) /\ new1 = NewOps(script)
  OBVIOUS
<1>6. /\ \A k : OldLineAt(script, k) = 1 + Before(old1, k)
      /\ \A k : NewLineAt(script, k) = 1 + Before(new1, k)
      /\ old1 \in SUBSET (1..Len(script)) /\ new1 \in SUBSET (1..Len(script))
  BY <1>1, <1>5 DEF OldLineAt, NewLineAt
<1>7. /\ Cardinality(old1) \in Nat
      /\ OldLineAt(script, 1) = 1 /\ OldLineAt(script, Len(script) + 1) = Cardinality(old1) + 1
      /\ \A k \in old1 : k \in 1..Len(script) /\ OldLineAt(script, k) \in 1..Cardinality(old1)
      /\ \A i \in 1..Cardinality(old1) : \E k \in old1 : OldLineAt(script, k) = i
      /\ \A j, k \in old1 : OldLineAt(script, j) = OldLineAt(script, k) => j = k
  BY <1>4, <1>6
<1>8. /\ Cardinality(new1) \in Nat
      /\ NewLineAt(script, 1) = 1 /\ NewLineAt(script, Len(script) + 1) = Cardinality(new1) + 1
      /\ \A k \in new1 : k \in 1..Len(script) /\ NewLineAt(script, k) \in 1..Cardinality(new1)
      /\ \A i \in 1..Cardinality(new1) : \E k \in new1 : NewLineAt(script, k) = i
      /\ \A j, k \in new1 : NewLineAt(script, j) = NewLineAt(script, k) => j = k
  BY <1>4, <1>6
<1> QED
  BY <1>5, <1>7, <1>8

-----------------------------------------------------------------------------
(* What a hunk shows *)

\* The sequence has the lines of one side, from op f to op l.
Reads(P, script, f, l, seq) ==
  /\ seq = [u \in 1..(Before(P, l + 1) - Before(P, f)) |-> seq[u]]
  /\ \A k \in P : f <= k /\ k <= l =>
       /\ Before(P, k) - Before(P, f) + 1 \in 1..(Before(P, l + 1) - Before(P, f))
       /\ seq[Before(P, k) - Before(P, f) + 1] = HunkLine(script, k)
  /\ \A u \in 1..(Before(P, l + 1) - Before(P, f)) :
       \E k \in P : /\ f <= k /\ k <= l /\ Before(P, k) = Before(P, f) + u - 1
                    /\ seq[u] = HunkLine(script, k)

ConsumedBy(h) == Cardinality({k \in DOMAIN h.lines : Consumes(h.lines[k])})

\* The hunk stands for the ops from f to l.
StandsFor(h, script, f, l) ==
  /\ h.oldStart = OldLineAt(script, f) /\ h.newStart = NewLineAt(script, f)
  /\ h.oldLen = OldLineAt(script, l + 1) - OldLineAt(script, f)
  /\ h.newLen = NewLineAt(script, l + 1) - NewLineAt(script, f)
  /\ h.lines = [u \in 1..(l - f + 1) |-> HunkLine(script, f + u - 1)]
  /\ Reads(OldOps(script), script, f, l, Shown(h, "add"))
  /\ Reads(NewOps(script), script, f, l, Shown(h, "remove"))
  /\ ConsumedBy(h) = OldLineAt(script, l + 1) - OldLineAt(script, f)

\* What a hunk shows of either side is that side of its ops, and its header counts them.
LEMMA HunkReads ==
  ASSUME NEW V, NEW script \in Seq(Ops(V)), NEW c \in Nat, NEW s \in Starts(script, c)
  PROVE  StandsFor(Hunk(s, script, c), script, FirstOp(s, c), LastOp(s, script, c))
<1> PICK N \in Nat : N = Len(script)
  OBVIOUS
<1>0. PICK f \in 1..N, l \in 1..N : f = FirstOp(s, c) /\ l = LastOp(s, script, c) /\ f <= l
  BY HunksApart
<1>1. PICK h : h = Hunk(s, script, c)
  OBVIOUS
<1>2. /\ h.oldStart = OldLineAt(script, f) /\ h.newStart = NewLineAt(script, f)
      /\ h.oldLen = OldLineAt(script, l + 1) - OldLineAt(script, f)
      /\ h.newLen = NewLineAt(script, l + 1) - NewLineAt(script, f)
      /\ h.lines = [u \in 1..(l - f + 1) |-> HunkLine(script, f + u - 1)]
  BY <1>0, <1>1 DEF Hunk
<1>3. /\ OldOps(script) \in SUBSET (1..N) /\ NewOps(script) \in SUBSET (1..N)
      /\ \A k \in 1..N : /\ k \in OldOps(script) <=> script[k].type # "add"
                         /\ k \in NewOps(script) <=> script[k].type # "remove"
  BY SidesOfScript
<1>4. /\ DOMAIN h.lines = 1..(l - f + 1)
      /\ \A u \in 1..(l - f + 1) : /\ h.lines[u] = HunkLine(script, f + u - 1)
                                   /\ f + u - 1 \in 1..N
                                   /\ h.lines[u].type = script[f + u - 1].type
  <2>1. \A u \in 1..(l - f + 1) : f + u - 1 \in 1..N
    BY <1>0
  <2> QED
    BY <1>2, <2>1 DEF HunkLine
<1>5. ASSUME NEW P \in SUBSET (1..N), NEW Q, Q = {u \in 1..(l - f + 1) : f + u - 1 \in P}
      PROVE  /\ Cardinality(Q) = Before(P, l + 1) - Before(P, f)
             /\ Reads(P, script, f, l, At(Q, h.lines))
  <2>1. /\ Cardinality(Q) \in Nat /\ Cardinality(Q) = Before(P, l + 1) - Before(P, f)
        /\ \A k \in P : f <= k /\ k <= l =>
             /\ Before(P, k) - Before(P, f) + 1 \in 1..Cardinality(Q)
             /\ Nth(Q, Before(P, k) - Before(P, f) + 1) = k - f + 1
        /\ \A u \in 1..Cardinality(Q) :
             \E k \in P : /\ f <= k /\ k <= l /\ Nth(Q, u) = k - f + 1
                          /\ Before(P, k) = Before(P, f) + u - 1
    <3>1. Q \in SUBSET (1..(l - f + 1)) /\ \A u \in 1..(l - f + 1) : u \in Q <=> f + u - 1 \in P
      BY <1>5
    <3>2. f \in 1..N /\ l \in 1..N /\ f <= l
      BY <1>0
    <3> QED
      BY <3>1, <3>2, ShiftedCounts
  <2>2. PICK m \in Nat : m = Cardinality(Q)
    BY <2>1
  <2>3. PICK seq : seq = At(Q, h.lines)
    OBVIOUS
  <2>4. seq = [u \in 1..m |-> h.lines[Nth(Q, u)]]
    BY <2>2, <2>3 DEF At
  <2>5. \A k \in P : f <= k /\ k <= l => k - f + 1 \in 1..(l - f + 1) /\ f + (k - f + 1) - 1 = k
    BY <1>0
  <2>6. seq = [u \in 1..m |-> seq[u]]
    BY <2>4
  <2>7. ASSUME NEW k \in P, f <= k, k <= l
        PROVE  /\ Before(P, k) - Before(P, f) + 1 \in 1..m
               /\ seq[Before(P, k) - Before(P, f) + 1] = HunkLine(script, k)
    <3>1. PICK u \in 1..m : u = Before(P, k) - Before(P, f) + 1 /\ Nth(Q, u) = k - f + 1
      BY <2>1, <2>2, <2>7
    <3>2. seq[u] = h.lines[k - f + 1]
      BY <2>4, <3>1
    <3>3. h.lines[k - f + 1] = HunkLine(script, k)
      BY <1>4, <2>5, <2>7
    <3> QED
      BY <3>1, <3>2, <3>3
  <2>8. ASSUME NEW u \in 1..m
        PROVE  \E k \in P : /\ f <= k /\ k <= l /\ Before(P, k) = Before(P, f) + u - 1
                            /\ seq[u] = HunkLine(script, k)
    <3>1. PICK k \in P : /\ f <= k /\ k <= l /\ Nth(Q, u) = k - f + 1
                         /\ Before(P, k) = Before(P, f) + u - 1
      BY <2>1, <2>2
    <3>2. seq[u] = h.lines[k - f + 1]
      BY <2>4, <3>1
    <3>3. h.lines[k - f + 1] = HunkLine(script, k)
      BY <1>4, <2>5, <3>1
    <3> QED
      BY <3>1, <3>2, <3>3
  <2>9. Reads(P, script, f, l, seq)
    BY <2>1, <2>2, <2>6, <2>7, <2>8 DEF Reads
  <2> QED
    BY <2>1, <2>3, <2>9
<1>6. /\ {k \in DOMAIN h.lines : h.lines[k].type # "add"}
           = {u \in 1..(l - f + 1) : f + u - 1 \in OldOps(script)}
      /\ {k \in DOMAIN h.lines : h.lines[k].type # "remove"}
           = {u \in 1..(l - f + 1) : f + u - 1 \in NewOps(script)}
      /\ {k \in DOMAIN h.lines : Consumes(h.lines[k])}
           = {u \in 1..(l - f + 1) : f + u - 1 \in OldOps(script)}
  <2>1. \A u \in 1..(l - f + 1) :
          /\ h.lines[u].type # "add" <=> f + u - 1 \in OldOps(script)
          /\ h.lines[u].type # "remove" <=> f + u - 1 \in NewOps(script)
    BY <1>3, <1>4
  <2> QED
    BY <1>4, <2>1, Zenon DEF Consumes
<1>7. Reads(OldOps(script), script, f, l, Shown(h, "add"))
  BY <1>3, <1>5, <1>6 DEF Shown
<1>8. Reads(NewOps(script), script, f, l, Shown(h, "remove"))
  BY <1>3, <1>5, <1>6 DEF Shown
<1>9. ConsumedBy(h) = OldLineAt(script, l + 1) - OldLineAt(script, f)
  <2>1. Cardinality({k \in DOMAIN h.lines : Consumes(h.lines[k])})
          = Before(OldOps(script), l + 1) - Before(OldOps(script), f)
    BY <1>3, <1>5, <1>6
  <2>2. Before(OldOps(script), l + 1) \in Nat /\ Before(OldOps(script), f) \in Nat
    <3>1. \A k \in Nat : Before(OldOps(script), k) \in Nat
      BY <1>3, BeforeCounts
    <3>2. l + 1 \in Nat /\ f \in Nat
      BY <1>0
    <3> QED
      BY <3>1, <3>2
  <2>3. \A p, q \in Nat : (1 + p) - (1 + q) = p - q
    OBVIOUS
  <2> QED
    BY <2>1, <2>2, <2>3 DEF OldLineAt, ConsumedBy
<1> QED
  BY <1>0, <1>1, <1>2, <1>7, <1>8, <1>9 DEF StandsFor

-----------------------------------------------------------------------------
(* What applying a diff writes *)

\* What becomes of op k: a hunk writes the line it shows, any other line is the file's.
Given(script, c, file, k) ==
  IF InHunkOp(script, c, k) THEN Written(HunkLine(script, k)) ELSE file[OldLineAt(script, k)]

\* The output has the new file's lines before op e.
Emitted(script, c, file, X, out, e) ==
  /\ out \in Seq(X) /\ Len(out) = NewLineAt(script, e) - 1
  /\ \A k \in NewOps(script) : k < e => out[NewLineAt(script, k)] = Given(script, c, file, k)

\* Copying the lines of the file that no hunk shows.
LEMMA CopiedGap ==
  ASSUME NEW V, NEW X, NEW script \in Seq(Ops(V)), NEW c, NEW file \in Seq(X),
         Len(file) = Cardinality(OldOps(script)),
         NEW e \in 1..(Len(script) + 1), NEW f \in 1..(Len(script) + 1), e <= f,
         Gap(script, c, e, f), NEW out, Emitted(script, c, file, X, out, e)
  PROVE  Emitted(script, c, file, X,
                 out \o SubSeq(file, OldLineAt(script, e), OldLineAt(script, f) - 1), f)
<1> PICK N \in Nat : N = Len(script)
  OBVIOUS
<1>1. /\ OldLineAt(script, f) = OldLineAt(script, e) + (f - e)
      /\ NewLineAt(script, f) = NewLineAt(script, e) + (f - e)
  BY GapLines
<1>2. PICK p \in Nat \ {0}, q \in Nat \ {0}, d \in Nat :
        p = OldLineAt(script, e) /\ q = NewLineAt(script, e) /\ d = f - e
  <2>1. e \in Nat /\ f - e \in Nat
    OBVIOUS
  <2> QED
    BY <2>1, LinesAreNat
<1>3. p + d - 1 <= Len(file)
  <2>1. N + 1 \in 1..(N + 1) /\ f <= N + 1
    OBVIOUS
  <2>2. OldLineAt(script, f) <= OldLineAt(script, N + 1)
    BY <2>1, LinesGrow
  <2>3. OldLineAt(script, N + 1) = Len(file) + 1 /\ Len(file) \in Nat
    BY LinesBounded
  <2> QED
    BY <1>1, <1>2, <2>2, <2>3
<1>4. PICK part : part = SubSeq(file, p, p + d - 1)
  OBVIOUS
<1>5. part \in Seq(X) /\ Len(part) = d /\ \A i \in 1..d : part[i] = file[p + i - 1]
  <2>1. \A i \in p..(p + d - 1) : i \in 1..Len(file)
    BY <1>3
  <2>2. \A i \in p..(p + d - 1) : file[i] \in X
    BY <2>1, ElementOfSeq
  <2>3. p \in Int /\ p + d - 1 \in Int
    OBVIOUS
  <2>4. /\ SubSeq(file, p, p + d - 1) \in Seq(X)
        /\ Len(SubSeq(file, p, p + d - 1)) = IF p <= p + d - 1 THEN (p + d - 1) - p + 1 ELSE 0
        /\ \A i \in 1..((p + d - 1) - p + 1) : SubSeq(file, p, p + d - 1)[i] = file[p + i - 1]
    BY <2>2, <2>3, SubSeqProperties
  <2>5. (p + d - 1) - p + 1 = d /\ (IF p <= p + d - 1 THEN (p + d - 1) - p + 1 ELSE 0) = d
    OBVIOUS
  <2> QED
    BY <1>4, <2>4, <2>5
<1>6. /\ out \in Seq(X) /\ Len(out) = q - 1
      /\ \A k \in NewOps(script) : k < e => out[NewLineAt(script, k)] = Given(script, c, file, k)
  BY <1>2 DEF Emitted
<1>7. /\ out \o part \in Seq(X) /\ Len(out \o part) = (q - 1) + d
      /\ \A i \in 1..((q - 1) + d) :
           (out \o part)[i] = IF i <= q - 1 THEN out[i] ELSE part[i - (q - 1)]
  <2>1. /\ out \o part \in Seq(X) /\ Len(out \o part) = Len(out) + Len(part)
        /\ \A i \in 1..(Len(out) + Len(part)) :
             (out \o part)[i] = IF i <= Len(out) THEN out[i] ELSE part[i - Len(out)]
    BY <1>5, <1>6, ConcatProperties
  <2> QED
    BY <1>5, <1>6, <2>1, Zenon
<1>8. ASSUME NEW k \in NewOps(script), k < f
      PROVE  (out \o part)[NewLineAt(script, k)] = Given(script, c, file, k)
  <2>0. k \in 1..N /\ k \in 1..(N + 1)
    BY LinesBounded
  <2>1. CASE k < e
    <3>0. NewLineAt(script, k) < NewLineAt(script, e)
      <4>1. k <= e
        BY <2>0, <2>1
      <4> QED
        BY <2>0, <2>1, <4>1, LinesGrow
    <3>1. NewLineAt(script, k) < q /\ NewLineAt(script, k) \in Nat \ {0}
      BY <1>2, <2>0, <3>0, LinesAreNat
    <3>2. NewLineAt(script, k) \in 1..((q - 1) + d) /\ NewLineAt(script, k) <= q - 1
      BY <3>1
    <3> QED
      BY <1>6, <1>7, <2>1, <3>2
  <2>2. CASE ~(k < e)
    <3>1. e <= k /\ k \in e..(f - 1) /\ k - e \in Nat /\ k - e < d
      BY <1>2, <1>8, <2>0, <2>2
    <3>2. Gap(script, c, e, k)
      BY <1>8, <2>0 DEF Gap
    <3>3. OldLineAt(script, k) = p + (k - e) /\ NewLineAt(script, k) = q + (k - e)
      BY <1>2, <2>0, <3>1, <3>2, GapLines
    <3>4. PICK i \in 1..d : i = k - e + 1
      BY <3>1
    <3>5. q + (k - e) = (q - 1) + i /\ p + (k - e) = p + i - 1
      BY <2>0, <3>4
    <3>6. (q - 1) + i \in 1..((q - 1) + d) /\ ~((q - 1) + i <= q - 1) /\ (q - 1) + i - (q - 1) = i
      OBVIOUS
    <3>7. (out \o part)[NewLineAt(script, k)] = part[i]
      <4>1. PICK j \in 1..((q - 1) + d) : j = (q - 1) + i
        BY <3>6
      <4>2. (out \o part)[j] = IF j <= q - 1 THEN out[j] ELSE part[j - (q - 1)]
        BY <1>7
      <4>3. ~(j <= q - 1) /\ j - (q - 1) = i
        BY <3>6, <4>1
      <4>4. NewLineAt(script, k) = j
        BY <3>3, <3>5, <4>1
      <4> QED
        BY <4>2, <4>3, <4>4
    <3>8. part[i] = file[OldLineAt(script, k)]
      BY <1>5, <3>3, <3>5
    <3>9. ~InHunkOp(script, c, k)
      BY <3>1 DEF Gap, Unshown
    <3> QED
      BY <3>7, <3>8, <3>9 DEF Given
  <2> QED
    BY <2>1, <2>2
<1>9. Len(out \o part) = NewLineAt(script, f) - 1
  BY <1>1, <1>2, <1>7
<1>10. SubSeq(file, OldLineAt(script, e), OldLineAt(script, f) - 1) = part
  <2>1. OldLineAt(script, f) - 1 = p + d - 1
    BY <1>1, <1>2
  <2> QED
    BY <1>2, <1>4, <2>1
<1> QED
  BY <1>7, <1>8, <1>9, <1>10 DEF Emitted

\* Writing a hunk.
LEMMA WrittenHunk ==
  ASSUME NEW V, NEW X, NEW script \in Seq(Ops(V)), NEW c \in Nat, NEW file,
         NEW f \in 1..Len(script), NEW l \in 1..Len(script), f <= l,
         \A k \in f..l : InHunkOp(script, c, k),
         \A k \in NewOps(script) : Written(HunkLine(script, k)) \in X,
         NEW out, Emitted(script, c, file, X, out, f),
         NEW shown, Reads(NewOps(script), script, f, l, shown)
  PROVE  Emitted(script, c, file, X, out \o [n \in DOMAIN shown |-> Written(shown[n])], l + 1)
<1> PICK N \in Nat : N = Len(script)
  OBVIOUS
<1>0. f \in 1..(N + 1) /\ l + 1 \in 1..(N + 1) /\ f <= l + 1
  OBVIOUS
<1>1. PICK p \in Nat, q \in Nat, d \in Nat :
        /\ p = Before(NewOps(script), f) /\ q = Before(NewOps(script), l + 1) /\ d = q - p
        /\ NewLineAt(script, f) = 1 + p /\ NewLineAt(script, l + 1) = 1 + q
  <2>1. NewOps(script) \in SUBSET (1..N)
    BY SidesOfScript
  <2>2. \A k \in Nat : Before(NewOps(script), k) \in Nat
    BY <2>1, BeforeCounts
  <2>3. f \in Nat /\ l + 1 \in Nat
    BY <1>0
  <2>4. Before(NewOps(script), f) \in Nat /\ Before(NewOps(script), l + 1) \in Nat
    BY <2>2, <2>3
  <2>5. NewLineAt(script, f) <= NewLineAt(script, l + 1)
    BY <1>0, LinesGrow
  <2>6. \A i, j \in Nat : 1 + i <= 1 + j => j - i \in Nat
    OBVIOUS
  <2>7. Before(NewOps(script), l + 1) - Before(NewOps(script), f) \in Nat
    BY <2>4, <2>5, <2>6 DEF NewLineAt
  <2> QED
    BY <2>4, <2>7 DEF NewLineAt
<1>2. /\ shown = [u \in 1..d |-> shown[u]]
      /\ \A k \in NewOps(script) : f <= k /\ k <= l =>
           /\ Before(NewOps(script), k) - p + 1 \in 1..d
           /\ shown[Before(NewOps(script), k) - p + 1] = HunkLine(script, k)
      /\ \A u \in 1..d : \E k \in NewOps(script) : shown[u] = HunkLine(script, k)
  BY <1>1 DEF Reads
<1>3. PICK part : part = [n \in DOMAIN shown |-> Written(shown[n])]
  OBVIOUS
<1>4. DOMAIN shown = 1..d
  BY <1>2
<1>5. part \in Seq(X) /\ Len(part) = d /\ \A u \in 1..d : part[u] = Written(shown[u])
  <2>1. part = [u \in 1..d |-> Written(shown[u])]
    BY <1>3, <1>4
  <2>2. \A u \in 1..d : Written(shown[u]) \in X
    BY <1>2
  <2>3. part \in [1..d -> X]
    BY <2>1, <2>2
  <2> QED
    BY <2>1, <2>3
<1>6. /\ out \in Seq(X) /\ Len(out) = p
      /\ \A k \in NewOps(script) : k < f => out[NewLineAt(script, k)] = Given(script, c, file, k)
  BY <1>1 DEF Emitted
<1>7. /\ out \o part \in Seq(X) /\ Len(out \o part) = p + d
      /\ \A i \in 1..(p + d) : (out \o part)[i] = IF i <= p THEN out[i] ELSE part[i - p]
  BY <1>5, <1>6, ConcatProperties
<1>8. ASSUME NEW k \in NewOps(script), k < l + 1
      PROVE  (out \o part)[NewLineAt(script, k)] = Given(script, c, file, k)
  <2>0. k \in 1..N /\ k \in 1..(N + 1)
    BY LinesBounded
  <2>1. CASE k < f
    <3>0. NewLineAt(script, k) < NewLineAt(script, f)
      <4>1. k <= f
        BY <2>0, <2>1
      <4> QED
        BY <1>0, <2>0, <2>1, <4>1, LinesGrow
    <3>1. NewLineAt(script, k) < 1 + p /\ NewLineAt(script, k) \in Nat \ {0}
      BY <1>1, <2>0, <3>0, LinesAreNat
    <3>2. NewLineAt(script, k) \in 1..(p + d) /\ NewLineAt(script, k) <= p
      BY <3>1
    <3> QED
      BY <1>6, <1>7, <2>1, <3>2
  <2>2. CASE ~(k < f)
    <3>1. f <= k /\ k <= l /\ k \in f..l
      BY <1>8, <2>0, <2>2
    <3>2. PICK u \in 1..d : u = Before(NewOps(script), k) - p + 1 /\ shown[u] = HunkLine(script, k)
      BY <1>2, <3>1
    <3>3. Before(NewOps(script), k) \in Nat
      <4>1. NewOps(script) \in SUBSET (1..N)
        BY SidesOfScript
      <4>2. k \in Nat
        BY <2>0
      <4> QED
        BY <4>1, <4>2, BeforeCounts
    <3>4. NewLineAt(script, k) = p + u
      BY <3>2, <3>3 DEF NewLineAt
    <3>5. p + u \in 1..(p + d) /\ ~(p + u <= p) /\ (p + u) - p = u
      OBVIOUS
    <3>6. (out \o part)[NewLineAt(script, k)] = Written(HunkLine(script, k))
      BY <1>5, <1>7, <3>2, <3>4, <3>5
    <3> QED
      BY <3>1, <3>6 DEF Given
  <2> QED
    BY <2>1, <2>2
<1>9. Len(out \o part) = NewLineAt(script, l + 1) - 1
  BY <1>1, <1>7
<1> QED
  BY <1>3, <1>7, <1>8, <1>9 DEF Emitted

ApplyStates(X) == [read : Nat, output : Seq(X)]

\* Every hunk leaves a line number and an output.
LEMMA HunkAppliesTyped ==
  ASSUME NEW V, NEW X, NEW script \in Seq(Ops(V)), NEW c \in Nat, NEW file \in Seq(X),
         \A k \in NewOps(script) : Written(HunkLine(script, k)) \in X,
         NEW s \in Starts(script, c), NEW done \in ApplyStates(X)
  PROVE  ApplyHunk(file, done, Hunk(s, script, c)) \in ApplyStates(X)
<1> PICK h : h = Hunk(s, script, c)
  OBVIOUS
<1> PICK N \in Nat : N = Len(script)
  OBVIOUS
<1>1. PICK f \in 1..N, l \in 1..N : f = FirstOp(s, c) /\ l = LastOp(s, script, c) /\ f <= l
  BY HunksApart
<1>2. /\ h.oldStart = OldLineAt(script, f)
      /\ Reads(NewOps(script), script, f, l, Shown(h, "remove"))
      /\ ConsumedBy(h) = OldLineAt(script, l + 1) - OldLineAt(script, f)
  <2>1. StandsFor(Hunk(s, script, c), script, FirstOp(s, c), LastOp(s, script, c))
    BY HunkReads
  <2>2. StandsFor(h, script, f, l)
    BY <1>1, <2>1
  <2> QED
    BY <2>2 DEF StandsFor
<1>3. PICK p \in Nat \ {0}, q \in Nat \ {0} :
        p = OldLineAt(script, f) /\ q = OldLineAt(script, l + 1) /\ p <= q
  <2>1. f \in Nat /\ l + 1 \in Nat /\ f \in 1..(N + 1) /\ l + 1 \in 1..(N + 1) /\ f <= l + 1
    BY <1>1
  <2>2. OldLineAt(script, f) \in Nat \ {0} /\ OldLineAt(script, l + 1) \in Nat \ {0}
    BY <2>1, LinesAreNat
  <2>3. OldLineAt(script, f) <= OldLineAt(script, l + 1)
    BY <2>1, LinesGrow
  <2> QED
    BY <2>2, <2>3
<1>4. done.read \in Nat /\ done.output \in Seq(X) /\ Len(file) \in Nat
  BY DEF ApplyStates
<1>5. PICK upTo \in Nat : upTo = Larger(done.read, h.oldStart - 1)
  BY <1>2, <1>3, <1>4 DEF Larger
<1>6. PICK copied : copied = SubSeq(file, done.read + 1, Smaller(upTo, Len(file)))
  OBVIOUS
<1>7. copied \in Seq(X)
  <2>1. PICK m \in Nat : m = Smaller(upTo, Len(file)) /\ m <= Len(file)
    BY <1>4 DEF Smaller
  <2>2. \A i \in (done.read + 1)..m : i \in 1..Len(file)
    BY <1>4, <2>1
  <2>3. \A i \in (done.read + 1)..m : file[i] \in X
    BY <2>2, ElementOfSeq
  <2>4. done.read + 1 \in Int /\ m \in Int
    BY <1>4
  <2>5. SubSeq(file, done.read + 1, m) \in Seq(X)
    BY <2>3, <2>4, SubSeqProperties
  <2> QED
    BY <1>6, <2>1, <2>5
<1>8. PICK shown : shown = Shown(h, "remove")
  OBVIOUS
<1>9. PICK part : part = [n \in DOMAIN shown |-> Written(shown[n])]
  OBVIOUS
<1>10. part \in Seq(X)
  <2>1. PICK d \in Nat : d = Before(NewOps(script), l + 1) - Before(NewOps(script), f)
    <3>1. NewOps(script) \in SUBSET (1..N)
      BY SidesOfScript
    <3>2. \A k \in Nat : Before(NewOps(script), k) \in Nat
      BY <3>1, BeforeCounts
    <3>3. f \in Nat /\ l + 1 \in Nat /\ f <= l + 1
      BY <1>1
    <3>4. Before(NewOps(script), f) <= Before(NewOps(script), l + 1)
      BY <3>1, <3>3, BeforeGrows
    <3>5. \A i, j \in Nat : i <= j => j - i \in Nat
      OBVIOUS
    <3>6. Before(NewOps(script), l + 1) - Before(NewOps(script), f) \in Nat
      BY <3>2, <3>3, <3>4, <3>5
    <3> QED
      BY <3>6
  <2>2. /\ shown = [u \in 1..d |-> shown[u]]
        /\ \A u \in 1..d : \E k \in NewOps(script) : shown[u] = HunkLine(script, k)
    BY <1>2, <1>8, <2>1 DEF Reads
  <2>3. \A u \in 1..d : Written(shown[u]) \in X
    BY <2>2
  <2>4. part = [u \in 1..d |-> Written(shown[u])]
    BY <1>9, <2>2
  <2> QED
    BY <2>3, <2>4
<1>11. (done.output \o copied) \o part \in Seq(X)
  BY <1>4, <1>7, <1>10, ConcatProperties
<1>12. upTo + ConsumedBy(h) \in Nat
  BY <1>2, <1>3
<1>13. ApplyHunk(file, done, h)
         = [read |-> upTo + ConsumedBy(h), output |-> (done.output \o copied) \o part]
  BY <1>5, <1>6, <1>8, <1>9 DEF ApplyHunk, Shown, ConsumedBy
<1> QED
  BY <1>11, <1>12, <1>13 DEF ApplyStates

\* A hunk is reached, written and passed.
LEMMA HunkApplies ==
  ASSUME NEW V, NEW X, NEW script \in Seq(Ops(V)), NEW c \in Nat, NEW file \in Seq(X),
         Len(file) = Cardinality(OldOps(script)),
         \A k \in NewOps(script) : Written(HunkLine(script, k)) \in X,
         NEW n \in 1..Cardinality(Starts(script, c)), NEW done,
         done.read = OldLineAt(script, Edge(script, c, n - 1)) - 1,
         Emitted(script, c, file, X, done.output, Edge(script, c, n - 1))
  PROVE  LET after == ApplyHunk(file, done, Body(script, c)[n])
         IN /\ after.read = OldLineAt(script, Edge(script, c, n)) - 1
            /\ Emitted(script, c, file, X, after.output, Edge(script, c, n))
<1> PICK N \in Nat : N = Len(script)
  OBVIOUS
<1> PICK K \in Nat : K = Cardinality(Starts(script, c))
  BY Layout
<1>1. PICK s \in Starts(script, c) : s = Nth(Starts(script, c), n) /\ Body(script, c)[n] = Hunk(s, script, c)
  BY Layout
<1>2. PICK h : h = Hunk(s, script, c)
  OBVIOUS
<1>3. PICK f \in 1..N, l \in 1..N : f = FirstOp(s, c) /\ l = LastOp(s, script, c) /\ f <= l
  BY HunksApart
<1>4. HunkFrom(script, c, n) = f /\ Edge(script, c, n) = l + 1
  BY <1>1, <1>3 DEF HunkFrom, Edge
<1>5. PICK e \in 1..(N + 1) : e = Edge(script, c, n - 1)
  <2>1. n - 1 \in 0..K
    OBVIOUS
  <2> QED
    BY <2>1, Layout
<1>6. /\ e <= f /\ Gap(script, c, e, f)
      /\ \A k \in f..l : InHunkOp(script, c, k)
  <2>1. /\ Edge(script, c, n - 1) <= HunkFrom(script, c, n)
        /\ Gap(script, c, Edge(script, c, n - 1), HunkFrom(script, c, n))
        /\ \A k \in HunkFrom(script, c, n)..(Edge(script, c, n) - 1) : InHunkOp(script, c, k)
    BY Layout
  <2>2. (l + 1) - 1 = l
    BY <1>3
  <2> QED
    BY <1>4, <1>5, <2>1, <2>2
<1>7. /\ h.oldStart = OldLineAt(script, f)
      /\ Reads(NewOps(script), script, f, l, Shown(h, "remove"))
      /\ ConsumedBy(h) = OldLineAt(script, l + 1) - OldLineAt(script, f)
  <2>1. StandsFor(Hunk(s, script, c), script, FirstOp(s, c), LastOp(s, script, c))
    BY HunkReads
  <2>2. StandsFor(h, script, f, l)
    BY <1>2, <1>3, <2>1
  <2> QED
    BY <2>2 DEF StandsFor
<1>8. PICK x \in Nat \ {0}, y \in Nat \ {0}, z \in Nat \ {0} :
        /\ x = OldLineAt(script, e) /\ y = OldLineAt(script, f) /\ z = OldLineAt(script, l + 1)
        /\ x <= y /\ y <= Len(file) + 1
  <2>1. /\ f \in 1..(N + 1) /\ l + 1 \in 1..(N + 1) /\ e \in Nat /\ f \in Nat /\ l + 1 \in Nat
        /\ f <= N + 1 /\ N + 1 \in 1..(N + 1)
    BY <1>3
  <2>2. /\ OldLineAt(script, e) \in Nat \ {0} /\ OldLineAt(script, f) \in Nat \ {0}
        /\ OldLineAt(script, l + 1) \in Nat \ {0}
    BY <2>1, LinesAreNat
  <2>3. OldLineAt(script, e) <= OldLineAt(script, f)
    BY <1>6, <2>1, LinesGrow
  <2>4. OldLineAt(script, f) <= OldLineAt(script, N + 1)
    BY <2>1, LinesGrow
  <2>5. OldLineAt(script, N + 1) = Len(file) + 1
    BY LinesBounded
  <2> QED
    BY <2>2, <2>3, <2>4, <2>5
<1>9. Larger(done.read, h.oldStart - 1) = y - 1 /\ done.read + 1 = x
      /\ Smaller(y - 1, Len(file)) = y - 1
  <2>1. done.read = x - 1 /\ h.oldStart = y /\ Len(file) \in Nat
    BY <1>5, <1>7, <1>8
  <2>2. \A p, q, m \in Nat : p <= q /\ q <= m + 1 => Larger(p - 1, q - 1) = q - 1 /\ (p - 1) + 1 = p
                                                   /\ Smaller(q - 1, m) = q - 1
    BY DEF Larger, Smaller
  <2>3. PICK m \in Nat : m = Len(file)
    BY <2>1
  <2>4. y <= m + 1 /\ x <= y
    BY <1>8, <2>3
  <2>5. x \in Nat /\ y \in Nat
    BY <1>8
  <2>6. Larger(x - 1, y - 1) = y - 1 /\ (x - 1) + 1 = x /\ Smaller(y - 1, m) = y - 1
    BY <2>2, <2>4, <2>5
  <2> QED
    BY <2>1, <2>3, <2>6
<1>10. PICK shown, copied : shown = Shown(h, "remove") /\ copied = SubSeq(file, x, y - 1)
  OBVIOUS
<1>11. ApplyHunk(file, done, h)
         = [read |-> (y - 1) + (z - y),
            output |-> (done.output \o copied) \o [u \in DOMAIN shown |-> Written(shown[u])]]
  BY <1>7, <1>8, <1>9, <1>10 DEF ApplyHunk, Shown, ConsumedBy
<1>12. Emitted(script, c, file, X, done.output \o copied, f)
  <2>1. Emitted(script, c, file, X, done.output, e) /\ f \in 1..(N + 1)
    BY <1>5
  <2>2. Emitted(script, c, file, X,
                done.output \o SubSeq(file, OldLineAt(script, e), OldLineAt(script, f) - 1), f)
    BY <1>6, <2>1, CopiedGap
  <2> QED
    BY <1>8, <1>10, <2>2
<1>13. Emitted(script, c, file, X,
               (done.output \o copied) \o [u \in DOMAIN shown |-> Written(shown[u])], l + 1)
  <2>1. Reads(NewOps(script), script, f, l, shown)
    BY <1>7, <1>10
  <2>2. f \in 1..Len(script) /\ l \in 1..Len(script) /\ f <= l
    BY <1>3
  <2> QED
    BY <1>6, <1>12, <2>1, <2>2, WrittenHunk
<1>14. (y - 1) + (z - y) = z - 1
  OBVIOUS
<1> QED
  BY <1>1, <1>2, <1>4, <1>8, <1>11, <1>13, <1>14

\* The states applyUnifiedDiff goes through, hunk by hunk.
Applying(w, file, X, body, K, r) ==
  /\ w[0] = [read |-> 0, output |-> <<>>]
  /\ \A n \in 1..K : w[n] = ApplyHunk(file, w[n - 1], body[n])
  /\ \A n \in 0..K : w[n] \in ApplyStates(X)
  /\ r = w[K].output \o SubSeq(file, w[K].read + 1, Len(file))

\* applyUnifiedDiff goes through the hunks one after the other, from state to state.
LEMMA ApplyingGoes ==
  ASSUME NEW V, NEW X, NEW script \in Seq(Ops(V)), NEW c \in Nat, NEW file \in Seq(X),
         \A k \in NewOps(script) : Written(HunkLine(script, k)) \in X
  PROVE  \E w : Applying(w, file, X, Body(script, c), Cardinality(Starts(script, c)),
                        ApplyUnifiedDiff(file, Body(script, c)))
<1>0. PICK K \in Nat : K = Cardinality(Starts(script, c))
  BY Layout
<1>1. PICK body : body = Body(script, c)
  OBVIOUS
<1>2. Len(body) = K /\ \A n \in 1..K : \E s \in Starts(script, c) : body[n] = Hunk(s, script, c)
  BY <1>0, <1>1, Layout
<1> DEFINE S == ApplyStates(X)
           first == [read |-> 0, output |-> <<>>]
           Done(d) == [n \in 0..Len(body) |->
                         IF n = 0 THEN [read |-> 0, output |-> <<>>]
                         ELSE ApplyHunk(file, d[n - 1], body[n])]
           G == [x \in Nat \X S |-> IF x[1] \in 1..K THEN ApplyHunk(file, x[2], body[x[1]]) ELSE x[2]]
<1>3. first \in S
  BY DEF ApplyStates
<1>4. G \in [Nat \X S -> S] /\ \A n \in 1..K, d \in S : G[<<n, d>>] = ApplyHunk(file, d, body[n])
  <2>1. \A n \in 1..K, d \in S : ApplyHunk(file, d, body[n]) \in S
    <3> SUFFICES ASSUME NEW n \in 1..K, NEW d \in S PROVE ApplyHunk(file, d, body[n]) \in S
      OBVIOUS
    <3>1. PICK s \in Starts(script, c) : body[n] = Hunk(s, script, c)
      BY <1>2
    <3>2. ApplyHunk(file, d, Hunk(s, script, c)) \in S
      BY HunkAppliesTyped
    <3> QED
      BY <3>1, <3>2
  <2> HIDE DEF S
  <2>2. \A x \in Nat \X S : x[1] \in Nat /\ x[2] \in S /\ x = <<x[1], x[2]>>
    OBVIOUS
  <2>3. \A n \in 1..K : n \in Nat
    OBVIOUS
  <2> QED
    BY <2>1, <2>2, <2>3
<1> HIDE DEF G, S
<1>5. PICK d : d \in Rounds(S, K, first, G)
  <2> HIDE DEF first
  <2> QED
    BY <1>3, <1>4, UpToRecursion
<1>6. d \in [0..K -> S] /\ d[0] = first /\ \A n \in 1..K : d[n] = ApplyHunk(file, d[n - 1], body[n])
  <2>1. d \in [0..K -> S] /\ d[0] = first /\ \A n \in 1..K : d[n] = G[<<n, d[n - 1]>>]
    BY <1>5 DEF Rounds
  <2>2. \A n \in 1..K : n - 1 \in 0..K
    OBVIOUS
  <2>3. \A n \in 1..K : d[n - 1] \in S
    BY <2>1, <2>2
  <2> QED
    BY <1>4, <2>1, <2>3
<1>7. d = Done(d)
  <2>1. \A n \in 0..K : n = 0 \/ n \in 1..K
    OBVIOUS
  <2>2. \A n \in 1..K : n # 0
    OBVIOUS
  <2>3. \A n \in 0..K : d[n] = IF n = 0 THEN first ELSE ApplyHunk(file, d[n - 1], body[n])
    BY <1>6, <2>1, <2>2
  <2>4. d = [n \in 0..K |-> d[n]]
    BY <1>6
  <2> QED
    BY <1>2, <2>3, <2>4
<1> DEFINE w == CHOOSE f : f = Done(f)
<1>8. ApplyUnifiedDiff(file, body) = w[Len(body)].output
                                     \o SubSeq(file, w[Len(body)].read + 1, Len(file))
  BY DEF ApplyUnifiedDiff
<1>9. w = Done(w)
  <2> HIDE DEF Done
  <2> QED
    BY <1>7
<1> HIDE DEF w
<1>10. w[0] = first /\ \A n \in 1..K : w[n] = ApplyHunk(file, w[n - 1], body[n])
  <2>1. 0 \in 0..K
    OBVIOUS
  <2>2. w[0] = first
    BY <1>2, <1>9, <2>1
  <2>3. ASSUME NEW n \in 1..K PROVE w[n] = ApplyHunk(file, w[n - 1], body[n])
    <3>1. n \in 0..Len(body) /\ n # 0
      BY <1>2
    <3>2. Done(w)[n] = ApplyHunk(file, w[n - 1], body[n])
      BY <3>1
    <3> HIDE DEF Done
    <3> QED
      BY <1>9, <3>2
  <2> QED
    BY <2>2, <2>3
<1> HIDE DEF Done
<1> DEFINE H == {n \in Nat : n <= K => w[n] \in S}
<1>11. 0 \in H
  BY <1>3, <1>10
<1>12. ASSUME NEW n \in Nat, n \in H PROVE n + 1 \in H
  <2> SUFFICES ASSUME n + 1 <= K PROVE w[n + 1] \in S
    OBVIOUS
  <2>1. PICK m \in 1..K : m = n + 1 /\ m - 1 = n /\ n <= K
    OBVIOUS
  <2>2. PICK v \in S : v = w[n]
    BY <1>12, <2>1
  <2>3. w[m] = G[<<m, v>>]
    BY <1>4, <1>10, <2>1, <2>2
  <2>4. m \in Nat
    OBVIOUS
  <2> QED
    BY <1>4, <2>1, <2>3, <2>4
<1> HIDE DEF H
<1>13. Nat \subseteq H
  BY <1>11, <1>12, Everywhere
<1>14. \A n \in 0..K : w[n] \in S
  BY <1>13 DEF H
<1>15. Applying(w, file, X, body, K, ApplyUnifiedDiff(file, body))
  <2>1. first = [read |-> 0, output |-> <<>>]
    OBVIOUS
  <2> HIDE DEF first
  <2> QED
    BY <1>2, <1>8, <1>10, <1>14, <2>1 DEF Applying, S
<1> QED
  BY <1>0, <1>1, <1>15

\* Whatever the length of the file, the result is a file of the same kind of lines.
LEMMA AppliedIsFile ==
  ASSUME NEW V, NEW X, NEW script \in Seq(Ops(V)), NEW c \in Nat, NEW file \in Seq(X),
         \A k \in NewOps(script) : Written(HunkLine(script, k)) \in X
  PROVE  ApplyUnifiedDiff(file, Body(script, c)) \in Seq(X)
<1>1. PICK K \in Nat : K = Cardinality(Starts(script, c))
  BY Layout
<1>2. PICK r : r = ApplyUnifiedDiff(file, Body(script, c))
  OBVIOUS
<1>3. PICK w : Applying(w, file, X, Body(script, c), K, r)
  BY <1>1, <1>2, ApplyingGoes
<1>4. w[K] \in ApplyStates(X) /\ r = w[K].output \o SubSeq(file, w[K].read + 1, Len(file))
  BY <1>3 DEF Applying
<1>5. PICK d \in Nat, out \in Seq(X) : d = w[K].read /\ out = w[K].output
  BY <1>4 DEF ApplyStates
<1>6. SubSeq(file, d + 1, Len(file)) \in Seq(X)
  <2>1. Len(file) \in Nat
    OBVIOUS
  <2>2. CASE d + 1 <= Len(file)
    <3>1. \A n \in (d + 1)..Len(file) : file[n] \in X
      BY <2>1, ElementOfSeq
    <3> QED
      BY <2>1, <2>2, <3>1, SubSeqProperties
  <2>3. CASE ~(d + 1 <= Len(file))
    <3>1. SubSeq(file, d + 1, Len(file)) = <<>>
      BY <2>1, <2>3, SubSeqProperties
    <3> QED
      BY <3>1
  <2> QED
    BY <2>2, <2>3
<1> QED
  BY <1>2, <1>4, <1>5, <1>6, ConcatProperties

\* Applying the diff of a script to any file with as many lines as the script's old
\* side: the result has the new side's lines, the hunks' where a hunk shows them and the
\* file's own elsewhere.
LEMMA PatchedFile ==
  ASSUME NEW V, NEW X, NEW script \in Seq(Ops(V)), NEW c \in Nat, NEW file \in Seq(X),
         Len(file) = Cardinality(OldOps(script)),
         \A k \in NewOps(script) : Written(HunkLine(script, k)) \in X
  PROVE  Emitted(script, c, file, X, ApplyUnifiedDiff(file, Body(script, c)), Len(script) + 1)
<1> PICK N \in Nat : N = Len(script)
  OBVIOUS
<1>0. PICK K \in Nat : K = Cardinality(Starts(script, c))
  BY Layout
<1>1. PICK body : body = Body(script, c)
  OBVIOUS
<1>2. PICK r : r = ApplyUnifiedDiff(file, body)
  OBVIOUS
<1>3. PICK w : Applying(w, file, X, body, K, r)
  BY <1>0, <1>1, <1>2, ApplyingGoes
<1> DEFINE first == [read |-> 0, output |-> <<>>]
<1>8. r = w[K].output \o SubSeq(file, w[K].read + 1, Len(file))
  BY <1>3 DEF Applying
<1>10. w[0] = first /\ \A n \in 1..K : w[n] = ApplyHunk(file, w[n - 1], body[n])
  BY <1>3 DEF Applying
<1> DEFINE Passed(v, n) == /\ v.read = OldLineAt(script, Edge(script, c, n)) - 1
                           /\ Emitted(script, c, file, X, v.output, Edge(script, c, n))
           H == {n \in Nat : n <= K => Passed(w[n], n)}
<1>11. 0 \in H
  <2>1. Edge(script, c, 0) = 1 /\ OldLineAt(script, 1) = 1 /\ NewLineAt(script, 1) = 1
    BY Layout, LinesBounded
  <2>2. first.read = 0 /\ first.output = <<>>
    OBVIOUS
  <2>3. \A k \in NewOps(script) : ~(k < 1)
    <3>1. \A k \in NewOps(script) : k \in 1..N
      BY LinesBounded
    <3>2. \A k \in 1..N : ~(k < 1)
      OBVIOUS
    <3> QED
      BY <3>1, <3>2
  <2>4. Emitted(script, c, file, X, <<>>, 1)
    BY <2>1, <2>3 DEF Emitted
  <2>5. Passed(first, 0)
    BY <2>1, <2>2, <2>4
  <2> HIDE DEF Passed
  <2> QED
    BY <1>10, <2>5
<1>12. ASSUME NEW n \in Nat, n \in H PROVE n + 1 \in H
  <2> SUFFICES ASSUME n + 1 <= K PROVE Passed(w[n + 1], n + 1)
    OBVIOUS
  <2>1. n + 1 \in 1..K /\ (n + 1) - 1 = n /\ n <= K
    OBVIOUS
  <2>2. Passed(w[n], n)
    BY <1>12, <2>1
  <2>3. w[n + 1] = ApplyHunk(file, w[n], body[n + 1])
    BY <1>10, <2>1
  <2>4. PICK u : u = w[n]
    OBVIOUS
  <2>5. PICK m \in 1..Cardinality(Starts(script, c)) : m = n + 1
    BY <1>0, <2>1
  <2>6. /\ u.read = OldLineAt(script, Edge(script, c, m - 1)) - 1
        /\ Emitted(script, c, file, X, u.output, Edge(script, c, m - 1))
    BY <2>1, <2>2, <2>4, <2>5
  <2>7. /\ ApplyHunk(file, u, Body(script, c)[m]).read = OldLineAt(script, Edge(script, c, m)) - 1
        /\ Emitted(script, c, file, X, ApplyHunk(file, u, Body(script, c)[m]).output, Edge(script, c, m))
    BY <2>5, <2>6, HunkApplies
  <2> QED
    BY <1>1, <2>3, <2>4, <2>5, <2>7
<1> HIDE DEF H
<1>13. Nat \subseteq H
  BY <1>11, <1>12, Everywhere
<1>14. Passed(w[K], K)
  <2> HIDE DEF Passed
  <2> QED
    BY <1>13 DEF H
<1>15. PICK e \in 1..(N + 1) : e = Edge(script, c, K)
  BY <1>0, Layout
<1>16. e <= N + 1 /\ N + 1 \in 1..(N + 1) /\ Gap(script, c, e, N + 1)
  BY <1>0, <1>15, Layout
<1>17. Emitted(script, c, file, X, w[K].output, e)
  BY <1>14, <1>15
<1>18. Emitted(script, c, file, X,
               w[K].output \o SubSeq(file, OldLineAt(script, e), OldLineAt(script, N + 1) - 1), N + 1)
  BY <1>16, <1>17, CopiedGap
<1>19. OldLineAt(script, e) = w[K].read + 1 /\ OldLineAt(script, N + 1) - 1 = Len(file)
  <2>1. OldLineAt(script, e) \in Nat
    BY LinesAreNat
  <2>2. OldLineAt(script, N + 1) = Len(file) + 1 /\ Len(file) \in Nat
    BY LinesBounded
  <2>3. w[K].read = OldLineAt(script, e) - 1
    BY <1>14, <1>15
  <2> QED
    BY <2>1, <2>2, <2>3
<1> QED
  BY <1>1, <1>2, <1>8, <1>18, <1>19

-----------------------------------------------------------------------------
(* The round trip of a diff *)

Lines(T, E) == [text : T, eol : E]
AnyEnd == {"lf", "crlf", "none"}

\* A script between two files: what DiffLines returns.
Script(script, a, b, T, E) ==
  /\ script \in Seq(Ops(Lines(T, E)))
  /\ Explains(script, a, b, Len(a) + 1, Len(b) + 1)

\* diffLines returns a script that explains all of both files.
LEMMA ScriptOfDiff ==
  ASSUME NEW T, NEW E, NEW a \in Seq(Lines(T, E)), NEW b \in Seq(Lines(T, E))
  PROVE  Script(DiffLines(a, b), a, b, T, E)
BY DiffLinesExplains DEF Script

\* An op of the new file as a hunk writes it: the line, CRLF made LF, the marker
\* standing for the terminator that is missing.
LEMMA ShownLine ==
  ASSUME NEW T, NEW E \in SUBSET AnyEnd, NEW a \in Seq(Lines(T, E)), NEW b \in Seq(Lines(T, E)), WellSplit(b),
         NEW script, Script(script, a, b, T, E), NEW k \in NewOps(script)
  PROVE  /\ NewLineAt(script, k) \in 1..Len(b)
         /\ Written(HunkLine(script, k)) =
              [text |-> b[NewLineAt(script, k)].text,
               eol |-> IF b[NewLineAt(script, k)].eol = "none" THEN "none" ELSE "lf"]
<1>0. /\ script \in Seq(Ops(Lines(T, E))) /\ Explains(script, a, b, Len(a) + 1, Len(b) + 1)
      /\ Len(b) \in Nat
  BY DEF Script
<1>1. Cardinality(NewOps(script)) = Len(b)
  BY <1>0, SidesRead
<1>2. /\ k \in 1..Len(script) /\ NewLineAt(script, k) \in 1..Len(b)
      /\ \A p \in NewOps(script) : p \in 1..Len(script) /\ NewLineAt(script, p) \in 1..Len(b)
  BY <1>0, <1>1, LinesBounded
<1>3. Len(script) \in Nat /\ DOMAIN script = 1..Len(script) /\ script[k].type # "remove"
  BY <1>0, <1>2, SidesOfScript
<1>4. script[k].value = b[NewLineAt(script, k)]
  BY <1>0, <1>2, <1>3 DEF Explains
<1>5. ASSUME script[k].value.eol = "none" PROVE LastOfNew(script, k)
  <2>1. NewLineAt(script, k) = Len(b)
    BY <1>2, <1>4, <1>5 DEF WellSplit
  <2>2. ASSUME NEW p \in NewOps(script), ~(p <= k) PROVE FALSE
    <3>1. p \in 1..(Len(script) + 1) /\ k \in 1..(Len(script) + 1) /\ k <= p /\ k < p
      BY <1>2, <1>3, <2>2
    <3>2. NewLineAt(script, k) < NewLineAt(script, p)
      BY <1>0, <3>1, LinesGrow
    <3> QED
      BY <1>0, <1>2, <2>1, <3>2
  <2> QED
    BY <2>2 DEF LastOfNew
<1>6. Marked(script, k) <=> script[k].value.eol = "none"
  BY <1>3, <1>5 DEF Marked
<1>7. HunkLine(script, k).text = b[NewLineAt(script, k)].text
      /\ (HunkLine(script, k).marked <=> b[NewLineAt(script, k)].eol = "none")
  BY <1>4, <1>6 DEF HunkLine
<1>8. Written(HunkLine(script, k)) =
        [text |-> HunkLine(script, k).text, eol |-> IF HunkLine(script, k).marked THEN "none" ELSE "lf"]
  BY DEF Written
<1> QED
  BY <1>2, <1>7, <1>8

\* Where no hunk shows an op, both files have the same line.
LEMMA UnshownLine ==
  ASSUME NEW T, NEW E, NEW a \in Seq(Lines(T, E)), NEW b \in Seq(Lines(T, E)),
         NEW script, Script(script, a, b, T, E), NEW c \in Nat,
         NEW k \in 1..Len(script), ~InHunkOp(script, c, k)
  PROVE  /\ k \in OldOps(script) /\ k \in NewOps(script)
         /\ OldLineAt(script, k) \in 1..Len(a) /\ NewLineAt(script, k) \in 1..Len(b)
         /\ a[OldLineAt(script, k)] = b[NewLineAt(script, k)]
<1>0. script \in Seq(Ops(Lines(T, E))) /\ Explains(script, a, b, Len(a) + 1, Len(b) + 1)
  BY DEF Script
<1>1. DOMAIN script = 1..Len(script)
  BY <1>0
<1>2. k \notin Changed(script)
  BY <1>0, HunksApart
<1>3. script[k].type = "equal"
  BY <1>1, <1>2 DEF Changed
<1>4. k \in OldOps(script) /\ k \in NewOps(script)
  BY <1>1, <1>3 DEF OldOps, NewOps
<1>5. Cardinality(NewOps(script)) = Len(b) /\ Cardinality(OldOps(script)) = Len(a)
  BY <1>0, SidesRead
<1>6. OldLineAt(script, k) \in 1..Len(a) /\ NewLineAt(script, k) \in 1..Len(b)
  BY <1>0, <1>4, <1>5, LinesBounded
<1>7. script[k].value = a[OldLineAt(script, k)] /\ script[k].value = b[NewLineAt(script, k)]
  BY <1>0, <1>1, <1>3 DEF Explains
<1> QED
  BY <1>4, <1>6, <1>7

\* The sides of a script have as many ops as the files have lines.
LEMMA LinesOfSides ==
  ASSUME NEW T, NEW E, NEW a \in Seq(Lines(T, E)), NEW b \in Seq(Lines(T, E)),
         NEW script \in Seq(Ops(Lines(T, E))),
         Explains(script, a, b, Len(a) + 1, Len(b) + 1)
  PROVE  Cardinality(OldOps(script)) = Len(a) /\ Cardinality(NewOps(script)) = Len(b)
<1>1. PICK V : V = Lines(T, E)
  OBVIOUS
<1> QED
  BY <1>1, SidesRead

\* Applying a diff to any file with as many lines as the old one.
LEMMA AppliedToFile ==
  ASSUME NEW T, NEW E \in SUBSET AnyEnd, NEW a \in Seq(Lines(T, E)), NEW b \in Seq(Lines(T, E)), WellSplit(b),
         NEW script, Script(script, a, b, T, E), NEW c \in Nat,
         NEW D \in SUBSET AnyEnd, {"lf"} \cup (E \cap {"none"}) \subseteq D,
         NEW file \in Seq(Lines(T, D)), Len(file) = Len(a)
  PROVE  LET r == ApplyUnifiedDiff(file, Body(script, c))
         IN /\ r \in Seq(Lines(T, D)) /\ Len(r) = Len(b)
            /\ \A k \in NewOps(script) : r[NewLineAt(script, k)] = Given(script, c, file, k)
<1>0. script \in Seq(Ops(Lines(T, E))) /\ Explains(script, a, b, Len(a) + 1, Len(b) + 1)
      /\ Len(b) \in Nat
  BY DEF Script
<1>1. Cardinality(OldOps(script)) = Len(a) /\ Cardinality(NewOps(script)) = Len(b)
  BY <1>0, LinesOfSides
<1>2. ASSUME NEW k \in NewOps(script) PROVE Written(HunkLine(script, k)) \in Lines(T, D)
  <2>1. PICK t \in 1..Len(b) : /\ t = NewLineAt(script, k)
                               /\ Written(HunkLine(script, k)) =
                                    [text |-> b[t].text, eol |-> IF b[t].eol = "none" THEN "none" ELSE "lf"]
    BY ShownLine
  <2>2. b[t] \in Lines(T, E)
    BY <1>0, <2>1, ElementOfSeq
  <2>3. b[t].text \in T /\ b[t].eol \in E
    BY <2>2 DEF Lines
  <2>4. (IF b[t].eol = "none" THEN "none" ELSE "lf") \in D
    BY <2>3
  <2> QED
    BY <2>1, <2>3, <2>4 DEF Lines
<1>3. PICK r : r = ApplyUnifiedDiff(file, Body(script, c))
  OBVIOUS
<1>4. Emitted(script, c, file, Lines(T, D), r, Len(script) + 1)
  <2>1. Len(file) = Cardinality(OldOps(script))
    BY <1>1
  <2> QED
    BY <1>0, <1>2, <1>3, <2>1, PatchedFile
<1>5. /\ r \in Seq(Lines(T, D)) /\ Len(r) = NewLineAt(script, Len(script) + 1) - 1
      /\ \A k \in NewOps(script) : k < Len(script) + 1 =>
           r[NewLineAt(script, k)] = Given(script, c, file, k)
  BY <1>4 DEF Emitted
<1>6. /\ NewLineAt(script, Len(script) + 1) = Len(b) + 1
      /\ \A k \in NewOps(script) : k \in 1..Len(script)
  BY <1>0, <1>1, LinesBounded
<1>7. Len(r) = Len(b) /\ \A k \in NewOps(script) : k < Len(script) + 1
  <2>1. Len(script) \in Nat
    BY <1>0
  <2>2. \A k \in 1..Len(script) : k < Len(script) + 1
    BY <2>1
  <2> QED
    BY <1>0, <1>5, <1>6, <2>2
<1> QED
  BY <1>3, <1>5, <1>7

\* Every line of the new file is one of the script's ops.
LEMMA OpOfLine ==
  ASSUME NEW T, NEW E, NEW a \in Seq(Lines(T, E)), NEW b \in Seq(Lines(T, E)),
         NEW script, Script(script, a, b, T, E)
  PROVE  /\ \A t \in 1..Len(b) : \E k \in NewOps(script) : NewLineAt(script, k) = t
         /\ \A t \in 1..Len(a) : \E k \in OldOps(script) : OldLineAt(script, k) = t
         /\ \A k \in NewOps(script) : k \in 1..Len(script) /\ NewLineAt(script, k) \in 1..Len(b)
         /\ \A k \in OldOps(script) : k \in 1..Len(script) /\ OldLineAt(script, k) \in 1..Len(a)
<1>0. script \in Seq(Ops(Lines(T, E))) /\ Explains(script, a, b, Len(a) + 1, Len(b) + 1)
  BY DEF Script
<1>1. Cardinality(OldOps(script)) = Len(a) /\ Cardinality(NewOps(script)) = Len(b)
  BY <1>0, LinesOfSides
<1> QED
  BY <1>0, <1>1, LinesBounded

\* Applied to the old file the body gives the new file's lines: every text, no missing
\* terminator but where it was missing, and the whole line unless it ends in CRLF.
LEMMA RoundTrip ==
  ASSUME NEW T, NEW E \in SUBSET AnyEnd, NEW a \in Seq(Lines(T, E)), NEW b \in Seq(Lines(T, E)), WellSplit(b),
         NEW script, Script(script, a, b, T, E), NEW c \in Nat
  PROVE  LET r == ApplyUnifiedDiff(a, Body(script, c))
         IN /\ r \in Seq(Lines(T, AnyEnd)) /\ Len(r) = Len(b)
            /\ \A t \in 1..Len(b) : /\ r[t].text = b[t].text
                                    /\ r[t].eol = "none" => b[t].eol = "none"
                                    /\ b[t].eol # "crlf" => r[t] = b[t]
<1>1. PICK r : r = ApplyUnifiedDiff(a, Body(script, c))
  OBVIOUS
<1>2. a \in Seq(Lines(T, AnyEnd))
  <2>1. Lines(T, E) \subseteq Lines(T, AnyEnd)
    BY DEF Lines
  <2> QED
    BY <2>1, SeqMonotonic
<1>3. /\ r \in Seq(Lines(T, AnyEnd)) /\ Len(r) = Len(b)
      /\ \A k \in NewOps(script) : r[NewLineAt(script, k)] = Given(script, c, a, k)
  <2>1. AnyEnd \in SUBSET AnyEnd /\ {"lf"} \cup (E \cap {"none"}) \subseteq AnyEnd
    BY DEF AnyEnd
  <2> QED
    BY <1>1, <1>2, <2>1, AppliedToFile
<1>4. ASSUME NEW t \in 1..Len(b)
      PROVE  /\ r[t].text = b[t].text
             /\ r[t].eol = "none" => b[t].eol = "none"
             /\ b[t].eol # "crlf" => r[t] = b[t]
  <2>1. PICK k \in NewOps(script) : NewLineAt(script, k) = t /\ k \in 1..Len(script)
    BY OpOfLine
  <2>2. r[t] = Given(script, c, a, k)
    BY <1>3, <2>1
  <2>3. b[t] \in Lines(T, E)
    BY ElementOfSeq
  <2>4. CASE InHunkOp(script, c, k)
    <3>1. r[t] = [text |-> b[t].text, eol |-> IF b[t].eol = "none" THEN "none" ELSE "lf"]
      <4>1. Written(HunkLine(script, k)) =
              [text |-> b[NewLineAt(script, k)].text,
               eol |-> IF b[NewLineAt(script, k)].eol = "none" THEN "none" ELSE "lf"]
        BY <2>1, ShownLine
      <4> QED
        BY <2>1, <2>2, <2>4, <4>1 DEF Given
    <3>2. b[t] = [text |-> b[t].text, eol |-> b[t].eol] /\ b[t].eol \in AnyEnd
      BY <2>3 DEF Lines
    <3>3. r[t].text = b[t].text /\ r[t].eol = IF b[t].eol = "none" THEN "none" ELSE "lf"
      BY <3>1
    <3>4. b[t].eol # "crlf" => b[t].eol = IF b[t].eol = "none" THEN "none" ELSE "lf"
      BY <3>2 DEF AnyEnd
    <3>5. b[t].eol # "crlf" => r[t] = b[t]
      BY <3>1, <3>2, <3>4
    <3>6. r[t].eol = "none" => b[t].eol = "none"
      BY <3>3
    <3> QED
      BY <3>3, <3>5, <3>6
  <2>5. CASE ~InHunkOp(script, c, k)
    <3>1. r[t] = a[OldLineAt(script, k)]
      BY <2>2, <2>5 DEF Given
    <3>2. a[OldLineAt(script, k)] = b[NewLineAt(script, k)]
      BY <2>1, <2>5, UnshownLine
    <3> QED
      BY <2>1, <3>1, <3>2
  <2> QED
    BY <2>4, <2>5
<1> QED
  BY <1>1, <1>3, <1>4

\* Files of which every line ends in LF are well split.
LEMMA LfWellSplit ==
  ASSUME NEW T, NEW b \in Seq(Lines(T, {"lf"}))
  PROVE  WellSplit(b)
<1>1. \A k \in 1..Len(b) : b[k] \in Lines(T, {"lf"})
  BY ElementOfSeq
<1>2. \A k \in 1..Len(b) : b[k].eol = "lf"
  BY <1>1 DEF Lines
<1> QED
  BY <1>2 DEF WellSplit

\* The files whose lines end in LF come back as they are.
LEMMA RoundTripLf ==
  ASSUME NEW T, NEW a \in Seq(Lines(T, {"lf"})), NEW b \in Seq(Lines(T, {"lf"})), NEW c \in Nat
  PROVE  ApplyUnifiedDiff(a, Body(DiffLines(a, b), c)) = b
<1>1. PICK E \in SUBSET AnyEnd : E = {"lf"}
  BY DEF AnyEnd
<1>2. a \in Seq(Lines(T, E)) /\ b \in Seq(Lines(T, E))
  BY <1>1
<1>3. WellSplit(b)
  BY LfWellSplit
<1>4. PICK script : script = DiffLines(a, b) /\ Script(script, a, b, T, E)
  BY <1>2, ScriptOfDiff
<1>5. PICK r : r = ApplyUnifiedDiff(a, Body(script, c))
  OBVIOUS
<1>6. /\ r \in Seq(Lines(T, AnyEnd)) /\ Len(r) = Len(b)
      /\ \A t \in 1..Len(b) : b[t].eol # "crlf" => r[t] = b[t]
  BY <1>2, <1>3, <1>4, <1>5, RoundTrip
<1>7. \A t \in 1..Len(b) : b[t].eol = "lf"
  <2>1. \A t \in 1..Len(b) : b[t] \in Lines(T, {"lf"})
    BY ElementOfSeq
  <2> QED
    BY <2>1 DEF Lines
<1>8. \A t \in 1..Len(r) : r[t] = b[t]
  BY <1>6, <1>7
<1>9. b \in Seq(Lines(T, AnyEnd))
  <2>1. Lines(T, {"lf"}) \subseteq Lines(T, AnyEnd)
    BY DEF Lines, AnyEnd
  <2> QED
    BY <2>1, SeqMonotonic
<1>10. r = b
  BY <1>6, <1>8, <1>9, SeqEqual
<1> QED
  BY <1>4, <1>5, <1>10
-----------------------------------------------------------------------------
(* What a hunk's header names *)

HunkRecords(T) ==
  [oldStart : Nat \ {0}, newStart : Nat \ {0}, oldLen : Nat, newLen : Nat,
   lines : Seq([type : OpType, text : T, marked : BOOLEAN])]

\* Two ways to read the same texts: out of a hunk, and out of the file.
LEMMA SameTexts ==
  ASSUME NEW V, NEW file \in Seq(V), NEW seq, NEW i \in Nat \ {0}, NEW m \in Nat,
         i + m - 1 <= Len(file), DOMAIN seq = 1..m,
         \A u \in 1..m : seq[u].text = file[i + u - 1].text
  PROVE  TextsOf(seq) = TextsOf(SubSeq(file, i, i + m - 1))
<1>1. PICK part : part = SubSeq(file, i, i + m - 1)
  OBVIOUS
<1>2. DOMAIN part = 1..m /\ \A u \in 1..m : part[u] = file[i + u - 1]
  <2>1. i + m - 1 \in (i - 1)..Len(file) /\ i \in 1..(Len(file) + 1)
    BY LenProperties
  <2>2. (i + m - 1) - i + 1 = m
    OBVIOUS
  <2>3. CASE m = 0
    <3>1. part = <<>>
      BY <1>1, <2>3, SubSeqProperties
    <3> QED
      BY <2>3, <3>1
  <2>4. CASE m # 0
    <3>1. /\ Len(part) = (i + m - 1) - i + 1
          /\ part \in Seq(V)
          /\ \A u \in 1..((i + m - 1) - i + 1) : part[u] = file[i + u - 1]
      BY <1>1, <2>1, <2>4, SubSeqProperties
    <3> QED
      BY <2>2, <3>1, LenProperties
  <2> QED
    BY <2>3, <2>4
<1>4. TextsOf(seq) = [u \in 1..m |-> seq[u].text]
  BY DEF TextsOf
<1>5. TextsOf(part) = [u \in 1..m |-> part[u].text]
  BY <1>2 DEF TextsOf
<1>6. \A u \in 1..m : seq[u].text = part[u].text
  BY <1>2
<1> QED
  BY <1>1, <1>4, <1>5, <1>6

\* A hunk shows the lines of either file that its header names.
LEMMA HeaderNames ==
  ASSUME NEW T, NEW E, NEW a \in Seq(Lines(T, E)), NEW b \in Seq(Lines(T, E)),
         NEW script, Script(script, a, b, T, E), NEW c \in Nat, NEW s \in Starts(script, c),
         NEW h, h = Hunk(s, script, c)
  PROVE  /\ TextsOf(Shown(h, "add")) = TextsOf(SubSeq(a, h.oldStart, h.oldStart + h.oldLen - 1))
         /\ TextsOf(Shown(h, "remove")) = TextsOf(SubSeq(b, h.newStart, h.newStart + h.newLen - 1))
<1>0. script \in Seq(Ops(Lines(T, E))) /\ Explains(script, a, b, Len(a) + 1, Len(b) + 1)
  BY DEF Script
<1>1. PICK f \in 1..Len(script), l \in 1..Len(script) :
        f <= l /\ StandsFor(h, script, f, l)
  <2>1. FirstOp(s, c) \in 1..Len(script) /\ LastOp(s, script, c) \in 1..Len(script)
        /\ FirstOp(s, c) <= LastOp(s, script, c)
    BY <1>0, HunksApart
  <2>2. StandsFor(h, script, FirstOp(s, c), LastOp(s, script, c))
    BY <1>0, HunkReads
  <2> QED
    BY <2>1, <2>2
<1>2. /\ Len(script) \in Nat
      /\ f \in 1..(Len(script) + 1) /\ l + 1 \in 1..(Len(script) + 1)
      /\ Len(script) + 1 \in 1..(Len(script) + 1) /\ f <= l + 1 /\ l + 1 <= Len(script) + 1
      /\ f \in Nat /\ l + 1 \in Nat
      /\ OldOps(script) \in SUBSET (1..Len(script)) /\ NewOps(script) \in SUBSET (1..Len(script))
  <2>1. Len(script) \in Nat
    BY <1>0
  <2>2. OldOps(script) \in SUBSET (1..Len(script)) /\ NewOps(script) \in SUBSET (1..Len(script))
    BY <1>0, SidesOfScript
  <2> QED
    BY <1>1, <2>1, <2>2
<1>3. PICK p \in Nat \ {0}, q \in Nat \ {0} :
        p = OldLineAt(script, f) /\ q = OldLineAt(script, l + 1)
  <2>1. \A k \in Nat : OldLineAt(script, k) \in Nat \ {0}
    BY <1>0, LinesAreNat
  <2> QED
    BY <1>2, <2>1
<1>4. PICK p2 \in Nat \ {0}, q2 \in Nat \ {0} :
        p2 = NewLineAt(script, f) /\ q2 = NewLineAt(script, l + 1)
  <2>1. \A k \in Nat : NewLineAt(script, k) \in Nat \ {0}
    BY <1>0, LinesAreNat
  <2> QED
    BY <1>2, <2>1
<1>5. p <= q /\ p2 <= q2
  BY <1>0, <1>2, <1>3, <1>4, LinesGrow
<1>6. q <= Len(a) + 1 /\ q2 <= Len(b) + 1
  <2>1. /\ OldLineAt(script, Len(script) + 1) = Len(a) + 1
        /\ NewLineAt(script, Len(script) + 1) = Len(b) + 1
    BY <1>0 DEF Explains
  <2>2. /\ OldLineAt(script, l + 1) <= OldLineAt(script, Len(script) + 1)
        /\ NewLineAt(script, l + 1) <= NewLineAt(script, Len(script) + 1)
    BY <1>0, <1>2, LinesGrow
  <2> QED
    BY <1>3, <1>4, <2>1, <2>2
<1>7. TextsOf(Shown(h, "add")) = TextsOf(SubSeq(a, h.oldStart, h.oldStart + h.oldLen - 1))
  <2>1. PICK seq : seq = Shown(h, "add")
    OBVIOUS
  <2>2. Reads(OldOps(script), script, f, l, seq)
    BY <1>1, <2>1 DEF StandsFor
  <2>3. PICK m \in Nat : m = q - p
    BY <1>5
  <2>4. Before(OldOps(script), l + 1) - Before(OldOps(script), f) = m
    <3>1. PICK x \in Nat, y \in Nat : x = Before(OldOps(script), l + 1) /\ y = Before(OldOps(script), f)
      <4>1. \A k \in Nat : Before(OldOps(script), k) \in Nat
        BY <1>2, BeforeCounts
      <4> QED
        BY <1>2, <4>1
    <3>2. q = 1 + x /\ p = 1 + y
      BY <1>3, <3>1 DEF OldLineAt
    <3> QED
      BY <2>3, <3>1, <3>2
  <2>5. /\ seq = [u \in 1..m |-> seq[u]]
        /\ \A u \in 1..m : \E k \in OldOps(script) :
             Before(OldOps(script), k) = Before(OldOps(script), f) + u - 1 /\ seq[u] = HunkLine(script, k)
    BY <2>2, <2>4 DEF Reads
  <2>6. ASSUME NEW u \in 1..m PROVE seq[u].text = a[p + u - 1].text
    <3>1. PICK k \in OldOps(script) :
            Before(OldOps(script), k) = Before(OldOps(script), f) + u - 1 /\ seq[u] = HunkLine(script, k)
      BY <2>5
    <3>2. OldLineAt(script, k) = p + u - 1
      <4>1. PICK x \in Nat : x = Before(OldOps(script), f)
        BY <1>2, BeforeCounts
      <4>2. p = 1 + x
        BY <1>3, <4>1 DEF OldLineAt
      <4>3. OldLineAt(script, k) = 1 + (x + u - 1)
        BY <3>1, <4>1 DEF OldLineAt
      <4> QED
        BY <4>2, <4>3
    <3>3. script[k].value = a[OldLineAt(script, k)]
      BY <1>0, SidesOfScript DEF Explains
    <3>4. seq[u].text = script[k].value.text
      BY <3>1 DEF HunkLine
    <3> QED
      BY <3>2, <3>3, <3>4
  <2>7. h.oldStart = p /\ h.oldLen = m
    BY <1>1, <1>3, <2>3 DEF StandsFor
  <2>8. p + m - 1 <= Len(a)
    BY <1>6, <2>3
  <2>9. DOMAIN seq = 1..m
    BY <2>5
  <2>10. TextsOf(seq) = TextsOf(SubSeq(a, p, p + m - 1))
    BY <2>9, <2>6, <2>8, SameTexts
  <2> QED
    BY <2>1, <2>7, <2>10
<1>8. TextsOf(Shown(h, "remove")) = TextsOf(SubSeq(b, h.newStart, h.newStart + h.newLen - 1))
  <2>1. PICK seq : seq = Shown(h, "remove")
    OBVIOUS
  <2>2. Reads(NewOps(script), script, f, l, seq)
    BY <1>1, <2>1 DEF StandsFor
  <2>3. PICK m \in Nat : m = q2 - p2
    BY <1>5
  <2>4. Before(NewOps(script), l + 1) - Before(NewOps(script), f) = m
    <3>1. PICK x \in Nat, y \in Nat : x = Before(NewOps(script), l + 1) /\ y = Before(NewOps(script), f)
      <4>1. \A k \in Nat : Before(NewOps(script), k) \in Nat
        BY <1>2, BeforeCounts
      <4> QED
        BY <1>2, <4>1
    <3>2. q2 = 1 + x /\ p2 = 1 + y
      BY <1>4, <3>1 DEF NewLineAt
    <3> QED
      BY <2>3, <3>1, <3>2
  <2>5. /\ seq = [u \in 1..m |-> seq[u]]
        /\ \A u \in 1..m : \E k \in NewOps(script) :
             Before(NewOps(script), k) = Before(NewOps(script), f) + u - 1 /\ seq[u] = HunkLine(script, k)
    BY <2>2, <2>4 DEF Reads
  <2>6. ASSUME NEW u \in 1..m PROVE seq[u].text = b[p2 + u - 1].text
    <3>1. PICK k \in NewOps(script) :
            Before(NewOps(script), k) = Before(NewOps(script), f) + u - 1 /\ seq[u] = HunkLine(script, k)
      BY <2>5
    <3>2. NewLineAt(script, k) = p2 + u - 1
      <4>1. PICK x \in Nat : x = Before(NewOps(script), f)
        BY <1>2, BeforeCounts
      <4>2. p2 = 1 + x
        BY <1>4, <4>1 DEF NewLineAt
      <4>3. NewLineAt(script, k) = 1 + (x + u - 1)
        BY <3>1, <4>1 DEF NewLineAt
      <4> QED
        BY <4>2, <4>3
    <3>3. script[k].value = b[NewLineAt(script, k)]
      BY <1>0, SidesOfScript DEF Explains
    <3>4. seq[u].text = script[k].value.text
      BY <3>1 DEF HunkLine
    <3> QED
      BY <3>2, <3>3, <3>4
  <2>7. h.newStart = p2 /\ h.newLen = m
    BY <1>1, <1>4, <2>3 DEF StandsFor
  <2>8. p2 + m - 1 <= Len(b)
    BY <1>6, <2>3
  <2>9. DOMAIN seq = 1..m
    BY <2>5
  <2>10. TextsOf(seq) = TextsOf(SubSeq(b, p2, p2 + m - 1))
    <3>1. PICK V : b \in Seq(V)
      OBVIOUS
    <3>2. p2 \in Nat \ {0} /\ m \in Nat
      OBVIOUS
    <3> QED
      BY <2>9, <2>6, <2>8, <3>1, <3>2, SameTexts
  <2> QED
    BY <2>1, <2>7, <2>10
<1> QED
  BY <1>7, <1>8

\* Every hunk is a record of the diff.
LEMMA HunkIsRecord ==
  ASSUME NEW T, NEW E, NEW script \in Seq(Ops(Lines(T, E))), NEW c \in Nat,
         NEW s \in Starts(script, c)
  PROVE  Hunk(s, script, c) \in HunkRecords(T)
<1>1. PICK f \in 1..Len(script), l \in 1..Len(script) :
        f = FirstOp(s, c) /\ l = LastOp(s, script, c) /\ f <= l
  BY HunksApart
<1>2. Len(script) \in Nat
  OBVIOUS
<1>3. \A k \in Nat : OldLineAt(script, k) \in Nat \ {0} /\ NewLineAt(script, k) \in Nat \ {0}
  BY LinesAreNat
<1>4. f \in Nat /\ l + 1 \in Nat /\ f \in 1..(Len(script) + 1) /\ l + 1 \in 1..(Len(script) + 1) /\ f <= l + 1
  BY <1>1, <1>2
<1>5. OldLineAt(script, l + 1) - OldLineAt(script, f) \in Nat
  <2>1. OldLineAt(script, f) <= OldLineAt(script, l + 1)
    BY <1>4, LinesGrow
  <2>2. PICK p \in Nat, q \in Nat : p = OldLineAt(script, f) /\ q = OldLineAt(script, l + 1)
    BY <1>3, <1>4
  <2> QED
    BY <2>1, <2>2
<1>6. NewLineAt(script, l + 1) - NewLineAt(script, f) \in Nat
  <2>1. NewLineAt(script, f) <= NewLineAt(script, l + 1)
    BY <1>4, LinesGrow
  <2>2. PICK p \in Nat, q \in Nat : p = NewLineAt(script, f) /\ q = NewLineAt(script, l + 1)
    BY <1>3, <1>4
  <2> QED
    BY <2>1, <2>2
<1>7. ASSUME NEW k \in 1..Len(script)
      PROVE  HunkLine(script, k) \in [type : OpType, text : T, marked : BOOLEAN]
  <2>1. script[k].type \in OpType /\ script[k].value \in Lines(T, E)
    BY SidesOfScript
  <2>2. script[k].value.text \in T
    BY <2>1 DEF Lines
  <2>3. Marked(script, k) \in BOOLEAN
    BY DEF Marked
  <2> QED
    BY <2>1, <2>2, <2>3 DEF HunkLine
<1>8. PICK lines : lines = [n \in 1..(l - f + 1) |-> HunkLine(script, f + n - 1)]
  OBVIOUS
<1>9. lines \in Seq([type : OpType, text : T, marked : BOOLEAN])
  <2>1. PICK m \in Nat : m = l - f + 1
    BY <1>1
  <2>2. \A n \in 1..m : f + n - 1 \in 1..Len(script)
    BY <1>1, <1>2, <2>1
  <2>3. PICK R : R = [type : OpType, text : T, marked : BOOLEAN]
    OBVIOUS
  <2>4. \A n \in 1..m : HunkLine(script, f + n - 1) \in R
    BY <1>7, <2>2, <2>3
  <2>5. lines \in [1..m -> R]
    BY <1>8, <2>1, <2>4
  <2>6. lines \in Seq(R)
    BY <2>5
  <2> QED
    BY <2>3, <2>6
<1>10. Hunk(s, script, c) =
         [oldStart |-> OldLineAt(script, f), newStart |-> NewLineAt(script, f),
          oldLen |-> OldLineAt(script, l + 1) - OldLineAt(script, f),
          newLen |-> NewLineAt(script, l + 1) - NewLineAt(script, f),
          lines |-> lines]
  BY <1>1, <1>8 DEF Hunk
<1> QED
  BY <1>3, <1>4, <1>5, <1>6, <1>9, <1>10 DEF HunkRecords

\* The hunks come in the order of the file, and none begins before the last one ends.
LEMMA HunksInOrder ==
  ASSUME NEW T, NEW E, NEW script \in Seq(Ops(Lines(T, E))), NEW c \in Nat,
         NEW body, body = Body(script, c), NEW n \in 1..(Len(body) - 1)
  PROVE  /\ body[n].oldStart + body[n].oldLen <= body[n + 1].oldStart
         /\ body[n].newStart + body[n].newLen <= body[n + 1].newStart
<1>1. PICK K \in Nat : K = Cardinality(Starts(script, c)) /\ Len(body) = K
  BY Layout
<1>2. n \in 1..K /\ n + 1 \in 1..K /\ (n + 1) - 1 = n /\ n \in 0..K
  BY <1>1
<1>3. PICK s \in Starts(script, c), t \in Starts(script, c) :
        s = Nth(Starts(script, c), n) /\ t = Nth(Starts(script, c), n + 1)
  BY <1>1, <1>2, Layout
<1>4. body[n] = Hunk(s, script, c) /\ body[n + 1] = Hunk(t, script, c)
  BY <1>1, <1>2, <1>3, Layout
<1>5. PICK e \in 1..(Len(script) + 1) : e = Edge(script, c, n) /\ e = LastOp(s, script, c) + 1
  <2>1. Edge(script, c, n) \in 1..(Len(script) + 1)
    BY <1>1, <1>2, Layout
  <2>2. Edge(script, c, n) = LastOp(s, script, c) + 1
    BY <1>2, <1>3 DEF Edge
  <2> QED
    BY <2>1, <2>2
<1>6. PICK f \in 1..Len(script) : f = FirstOp(t, c) /\ e <= f
  <2>1. HunkFrom(script, c, n + 1) \in 1..Len(script) /\ Edge(script, c, (n + 1) - 1) <= HunkFrom(script, c, n + 1)
    BY <1>1, <1>2, Layout
  <2>2. HunkFrom(script, c, n + 1) = FirstOp(t, c)
    BY <1>3 DEF HunkFrom
  <2> QED
    BY <1>2, <1>5, <2>1, <2>2
<1>7. StandsFor(body[n], script, FirstOp(s, c), LastOp(s, script, c))
      /\ StandsFor(body[n + 1], script, FirstOp(t, c), LastOp(t, script, c))
  BY <1>4, HunkReads
<1>8. /\ body[n + 1].oldStart = OldLineAt(script, f) /\ body[n + 1].newStart = NewLineAt(script, f)
      /\ body[n].oldStart = OldLineAt(script, FirstOp(s, c))
      /\ body[n].newStart = NewLineAt(script, FirstOp(s, c))
      /\ body[n].oldLen = OldLineAt(script, e) - OldLineAt(script, FirstOp(s, c))
      /\ body[n].newLen = NewLineAt(script, e) - NewLineAt(script, FirstOp(s, c))
  BY <1>5, <1>6, <1>7 DEF StandsFor
<1>9. Len(script) \in Nat /\ f \in 1..(Len(script) + 1) /\ f \in Nat /\ e \in Nat /\ FirstOp(s, c) \in Nat
  <2>1. Len(script) \in Nat
    OBVIOUS
  <2>2. FirstOp(s, c) \in 1..Len(script)
    BY HunksApart
  <2> QED
    BY <2>1, <2>2
<1>10. OldLineAt(script, e) <= OldLineAt(script, f) /\ NewLineAt(script, e) <= NewLineAt(script, f)
  BY <1>6, <1>9, LinesGrow
<1>11. \A k \in Nat : OldLineAt(script, k) \in Nat \ {0} /\ NewLineAt(script, k) \in Nat \ {0}
  BY LinesAreNat
<1>12. PICK p \in Nat, q \in Nat, r \in Nat : /\ p = OldLineAt(script, FirstOp(s, c))
                                              /\ q = OldLineAt(script, e) /\ r = OldLineAt(script, f)
  BY <1>9, <1>11
<1>13. PICK u \in Nat, v \in Nat, w \in Nat : /\ u = NewLineAt(script, FirstOp(s, c))
                                              /\ v = NewLineAt(script, e) /\ w = NewLineAt(script, f)
  BY <1>9, <1>11
<1> QED
  BY <1>8, <1>10, <1>12, <1>13
-----------------------------------------------------------------------------
(* The theorems of DiffRoundTrip *)

\* Each stage holds what its step computes from the two files, and nothing else has.
DiffInv ==
  /\ old \in Seq(Lines(LineText, Terminator)) /\ WellSplit(old)
  /\ new \in Seq(Lines(LineText, Terminator)) /\ WellSplit(new)
  /\ context \in Contexts
  /\ stage \in {"given", "compared", "built", "applied"}
  /\ ops = IF stage = "given" THEN <<>> ELSE DiffLines(old, new)
  /\ hunks = IF stage \in {"given", "compared"} THEN <<>> ELSE Body(ops, context)
  /\ result = IF stage = "applied" THEN ApplyUnifiedDiff(old, hunks) ELSE <<>>

\* The files of the model are sequences of lines.
LEMMA FilesAreLines ==
  ASSUME NEW f \in File
  PROVE  f \in Seq(Lines(LineText, Terminator)) /\ WellSplit(f)
<1>1. PICK n \in 0..MaxLines : f \in [1..n -> Line]
  BY DEF File
<1>2. n \in Nat
  OBVIOUS
<1>3. Line = Lines(LineText, Terminator)
  BY DEF Line, Lines
<1>4. PICK V : V = Lines(LineText, Terminator)
  OBVIOUS
<1>5. f \in [1..n -> V]
  BY <1>1, <1>3, <1>4
<1>6. f \in Seq(V)
  BY <1>2, <1>5
<1>7. WellSplit(f)
  BY DEF File
<1> QED
  BY <1>4, <1>6, <1>7

\* Every behaviour of DiffRoundTrip computes what DiffInv says, stage by stage.
LEMMA DiffInvHolds == Spec => []DiffInv
<1>1. Init => DiffInv
  BY FilesAreLines DEF Init, DiffInv
<1>2. DiffInv /\ [Next]_vars => DiffInv'
  <2>1. CASE Compare
    BY <2>1 DEF Compare, DiffInv
  <2>2. CASE Build
    BY <2>2 DEF Build, DiffInv
  <2>3. CASE Apply
    BY <2>3 DEF Apply, DiffInv
  <2>4. CASE UNCHANGED vars
    BY <2>4 DEF vars, DiffInv
  <2> QED
    BY <2>1, <2>2, <2>3, <2>4 DEF Next
<1> QED
  BY <1>1, <1>2, PTL DEF Spec

\* From the first comparison on, ops is a script from the old file to the new one.
LEMMA StageScript ==
  ASSUME DiffInv, stage # "given"
  PROVE  /\ ops \in Seq(Ops(Lines(LineText, Terminator)))
         /\ Script(ops, old, new, LineText, Terminator)
         /\ KeptBy(ops) = Lcs(old, new)[<<1, 1>>]
<1>1. /\ old \in Seq(Lines(LineText, Terminator)) /\ new \in Seq(Lines(LineText, Terminator))
      /\ ops = DiffLines(old, new)
  BY DEF DiffInv
<1>2. KeptBy(ops) = Lcs(old, new)[<<1, 1>>]
  <2>1. PICK V : old \in Seq(V) /\ new \in Seq(V)
    BY <1>1
  <2> QED
    BY <1>1, <2>1, DiffLinesExplains
<1>3. Script(ops, old, new, LineText, Terminator)
  BY <1>1, ScriptOfDiff
<1> QED
  BY <1>2, <1>3 DEF Script

\* The sides of a script read as the two files.
LEMMA ScriptReads ==
  ASSUME NEW T, NEW E, NEW a \in Seq(Lines(T, E)), NEW b \in Seq(Lines(T, E)),
         NEW script, Script(script, a, b, T, E)
  PROVE  /\ Cardinality(OldOps(script) \cap NewOps(script)) = KeptBy(script)
         /\ ReadsBack(script, a, b)
<1>1. PICK V : V = Lines(T, E)
  OBVIOUS
<1>2. a \in Seq(V) /\ b \in Seq(V) /\ script \in Seq(Ops(V))
      /\ Explains(script, a, b, Len(a) + 1, Len(b) + 1)
  BY <1>1 DEF Script
<1> QED
  BY <1>2, SidesRead

\* The script of diffLines turns one file into the other and keeps a longest common
\* subsequence of their lines, for files of any length.
THEOREM MinimalScriptHolds == Spec => []MinimalScript
<1>1. ASSUME DiffInv, stage # "given"
      PROVE  LET kept == Cardinality(OldOps(ops) \cap NewOps(ops))
             IN /\ At(OldOps(ops), ValuesOf(ops)) = old
                /\ At(NewOps(ops), ValuesOf(ops)) = new
                /\ \A s \in Selections(old) \cap Selections(new) : Len(s) <= kept
  <2>1. PICK V : V = Lines(LineText, Terminator)
    OBVIOUS
  <2>2. /\ old \in Seq(V) /\ new \in Seq(V) /\ ops \in Seq(Ops(V))
        /\ Script(ops, old, new, LineText, Terminator)
        /\ old \in Seq(Lines(LineText, Terminator)) /\ new \in Seq(Lines(LineText, Terminator))
        /\ KeptBy(ops) = Lcs(old, new)[<<1, 1>>]
    BY <1>1, <2>1, StageScript DEF DiffInv
  <2>3. /\ Cardinality(OldOps(ops) \cap NewOps(ops)) = KeptBy(ops)
        /\ At(OldOps(ops), ValuesOf(ops)) = old
        /\ At(NewOps(ops), ValuesOf(ops)) = new
    BY <2>2, ScriptReads DEF ReadsBack
  <2>4. \A s \in Selections(old) \cap Selections(new) : Len(s) <= Lcs(old, new)[<<1, 1>>]
    BY <2>2, SelectionsBounded
  <2> QED
    BY <2>2, <2>3, <2>4
<1>2. DiffInv => MinimalScript
  BY <1>1 DEF MinimalScript
<1> QED
  BY <1>2, DiffInvHolds, PTL

\* Applying a diff to the file it was made from loses, doubles and shifts no line;
\* where no line ends in CRLF it gives the new file, the last line's missing LF included.
THEOREM ReconstructsHolds == Spec => []Reconstructs
<1>1. ASSUME DiffInv, stage = "applied"
      PROVE  /\ TextsOf(result) = TextsOf(new)
             /\ (\A l \in Range(old) \cup Range(new) : l.eol # "crlf") => result = new
  <2>1. /\ old \in Seq(Lines(LineText, Terminator)) /\ new \in Seq(Lines(LineText, Terminator))
        /\ WellSplit(new) /\ context \in Nat /\ Terminator \in SUBSET AnyEnd
        /\ result = ApplyUnifiedDiff(old, Body(ops, context))
        /\ Script(ops, old, new, LineText, Terminator)
    BY <1>1, StageScript, DiffAssumption DEF DiffInv, AnyEnd
  <2>2. /\ result \in Seq(Lines(LineText, AnyEnd)) /\ Len(result) = Len(new)
        /\ \A t \in 1..Len(new) : /\ result[t].text = new[t].text
                                  /\ new[t].eol # "crlf" => result[t] = new[t]
    BY <2>1, RoundTrip
  <2>3. DOMAIN result = 1..Len(new) /\ DOMAIN new = 1..Len(new)
    BY <2>1, <2>2
  <2>4. TextsOf(result) = TextsOf(new)
    BY <2>2, <2>3 DEF TextsOf
  <2>5. ASSUME \A l \in Range(old) \cup Range(new) : l.eol # "crlf"
        PROVE  result = new
    <3>1. \A t \in 1..Len(new) : new[t] \in Range(new)
      BY <2>3 DEF Range
    <3>2. \A t \in 1..Len(new) : result[t] = new[t]
      BY <2>2, <2>5, <3>1
    <3>3. new \in Seq(Lines(LineText, AnyEnd))
      <4>1. Lines(LineText, Terminator) \subseteq Lines(LineText, AnyEnd)
        BY <2>1 DEF Lines
      <4> QED
        BY <2>1, <4>1, SeqMonotonic
    <3> QED
      BY <2>2, <3>2, <3>3, SeqEqual
  <2> QED
    BY <2>4, <2>5
<1>2. DiffInv => Reconstructs
  BY <1>1 DEF Reconstructs
<1> QED
  BY <1>2, DiffInvHolds, PTL
\* Scripts and hunks are well formed, and every hunk header names exactly the lines
\* of either file that the hunk shows, in order and without overlap.
THEOREM DiffWellFormedHolds == Spec => []DiffWellFormed
<1>1. Op = Ops(Lines(LineText, Terminator)) /\ HunkRecord = HunkRecords(LineText)
  BY DEF Op, Ops, Line, Lines, HunkRecord, HunkRecords, LineOfHunk
<1>2. ASSUME DiffInv, stage \in {"built", "applied"}
      PROVE  /\ \A n \in DOMAIN hunks : \E s \in Starts(ops, context) : hunks[n] = Hunk(s, ops, context)
             /\ hunks \in Seq(HunkRecord)
             /\ hunks = Body(ops, context)
             /\ context \in Nat
  <2>1. context \in Nat /\ hunks = Body(ops, context) /\ ops \in Seq(Ops(Lines(LineText, Terminator)))
    BY <1>2, StageScript, DiffAssumption DEF DiffInv
  <2>2. PICK K \in Nat : hunks \in [1..K -> {Hunk(s, ops, context) : s \in Starts(ops, context)}]
    BY <2>1, Layout
  <2>3. \A s \in Starts(ops, context) : Hunk(s, ops, context) \in HunkRecords(LineText)
    BY <2>1, HunkIsRecord
  <2>4. {Hunk(s, ops, context) : s \in Starts(ops, context)} \subseteq HunkRecord
    BY <1>1, <2>3
  <2>5. PICK R : R = HunkRecord
    OBVIOUS
  <2>6. hunks \in [1..K -> R]
    BY <2>2, <2>4, <2>5
  <2>7. hunks \in Seq(R)
    BY <2>6
  <2>8. \A n \in DOMAIN hunks : hunks[n] \in {Hunk(s, ops, context) : s \in Starts(ops, context)}
    BY <2>2
  <2> QED
    BY <2>1, <2>5, <2>7, <2>8
<1>3. DiffInv => HeadersLocate
  <2> SUFFICES ASSUME DiffInv, stage \in {"built", "applied"}
               PROVE  /\ \A n \in DOMAIN hunks :
                           LET h == hunks[n]
                           IN /\ TextsOf(Shown(h, "add"))
                                   = TextsOf(SubSeq(old, h.oldStart, h.oldStart + h.oldLen - 1))
                              /\ TextsOf(Shown(h, "remove"))
                                   = TextsOf(SubSeq(new, h.newStart, h.newStart + h.newLen - 1))
                      /\ \A n \in 1..(Len(hunks) - 1) :
                           /\ hunks[n].oldStart + hunks[n].oldLen <= hunks[n + 1].oldStart
                           /\ hunks[n].newStart + hunks[n].newLen <= hunks[n + 1].newStart
    BY DEF HeadersLocate
  <2>1. /\ old \in Seq(Lines(LineText, Terminator)) /\ new \in Seq(Lines(LineText, Terminator))
        /\ Script(ops, old, new, LineText, Terminator)
        /\ ops \in Seq(Ops(Lines(LineText, Terminator)))
        /\ hunks = Body(ops, context) /\ context \in Nat
    BY <1>2, StageScript DEF DiffInv
  <2>2. ASSUME NEW n \in DOMAIN hunks
        PROVE  /\ TextsOf(Shown(hunks[n], "add"))
                    = TextsOf(SubSeq(old, hunks[n].oldStart, hunks[n].oldStart + hunks[n].oldLen - 1))
               /\ TextsOf(Shown(hunks[n], "remove"))
                    = TextsOf(SubSeq(new, hunks[n].newStart, hunks[n].newStart + hunks[n].newLen - 1))
    <3>1. PICK s \in Starts(ops, context) : hunks[n] = Hunk(s, ops, context)
      BY <1>2
    <3> QED
      BY <2>1, <3>1, HeaderNames
  <2>3. ASSUME NEW n \in 1..(Len(hunks) - 1)
        PROVE  /\ hunks[n].oldStart + hunks[n].oldLen <= hunks[n + 1].oldStart
               /\ hunks[n].newStart + hunks[n].newLen <= hunks[n + 1].newStart
    BY <2>1, HunksInOrder
  <2> QED
    BY <2>2, <2>3
<1>4. DiffInv => TypeOK
  <2> SUFFICES ASSUME DiffInv PROVE TypeOK
    OBVIOUS
  <2>1. ops \in Seq(Op)
    <3>1. CASE stage = "given"
      BY <3>1 DEF DiffInv
    <3>2. CASE stage # "given"
      BY <1>1, <3>2, StageScript
    <3> QED
      BY <3>1, <3>2
  <2>2. hunks \in Seq(HunkRecord)
    <3>1. CASE stage \in {"given", "compared"}
      BY <3>1 DEF DiffInv
    <3>2. CASE stage \in {"built", "applied"}
      BY <1>2, <3>2
    <3> QED
      BY <3>1, <3>2 DEF DiffInv
  <2>3. result \in Seq([text : LineText, eol : {"lf", "crlf", "none"}]) /\ WellSplit(result)
    <3>1. CASE stage # "applied"
      <4>1. result = <<>>
        BY <3>1 DEF DiffInv
      <4> QED
        BY <4>1 DEF WellSplit
    <3>2. CASE stage = "applied"
      <4>1. /\ old \in Seq(Lines(LineText, Terminator)) /\ new \in Seq(Lines(LineText, Terminator))
            /\ WellSplit(new) /\ context \in Nat /\ Terminator \in SUBSET AnyEnd
            /\ result = ApplyUnifiedDiff(old, Body(ops, context))
            /\ Script(ops, old, new, LineText, Terminator)
        BY <3>2, StageScript, DiffAssumption DEF DiffInv, AnyEnd
      <4>2. /\ result \in Seq(Lines(LineText, AnyEnd)) /\ Len(result) = Len(new)
            /\ \A t \in 1..Len(new) : result[t].eol = "none" => new[t].eol = "none"
        BY <4>1, RoundTrip
      <4>3. DOMAIN result = 1..Len(new) /\ DOMAIN new = 1..Len(new)
        BY <4>1, <4>2
      <4>4. WellSplit(result)
        BY <4>1, <4>2, <4>3 DEF WellSplit
      <4> QED
        BY <4>2, <4>4 DEF Lines, AnyEnd
    <3> QED
      BY <3>1, <3>2
  <2> QED
    BY <2>1, <2>2, <2>3 DEF TypeOK, DiffInv
<1>5. DiffInv => DiffWellFormed
  BY <1>3, <1>4 DEF DiffWellFormed
<1> QED
  BY <1>5, DiffInvHolds, PTL
-----------------------------------------------------------------------------
(* What a hunk does to the lines around it *)

\* The header of a hunk that begins at op f and ends before op e.
Header(script, h, f, e) ==
  /\ h.oldStart = OldLineAt(script, f)
  /\ h.oldLen = OldLineAt(script, e) - OldLineAt(script, f)
  /\ h.newLen = NewLineAt(script, e) - NewLineAt(script, f)

\* The nth hunk has the header of the ops from its start to its edge.
LEMMA HunkAt ==
  ASSUME NEW V, NEW script \in Seq(Ops(V)), NEW c \in Nat, NEW n \in 1..Cardinality(Starts(script, c))
  PROVE  Header(script, Body(script, c)[n], HunkFrom(script, c, n), Edge(script, c, n))
<1>1. PICK K \in Nat : K = Cardinality(Starts(script, c))
  BY Layout
<1>2. n \in 1..K /\ n # 0
  BY <1>1
<1>3. PICK s \in Starts(script, c) : s = Nth(Starts(script, c), n)
  BY <1>1, <1>2, Layout
<1>4. Body(script, c)[n] = Hunk(s, script, c)
  BY <1>1, <1>2, <1>3, Layout
<1>5. Edge(script, c, n) = LastOp(s, script, c) + 1 /\ HunkFrom(script, c, n) = FirstOp(s, c)
  BY <1>2, <1>3 DEF Edge, HunkFrom
<1>6. StandsFor(Hunk(s, script, c), script, FirstOp(s, c), LastOp(s, script, c))
  BY HunkReads
<1> QED
  BY <1>4, <1>5, <1>6 DEF StandsFor, Header

\* Where nothing is shown, both sides advance by as much.
LEMMA GapKeepsShift ==
  ASSUME NEW V, NEW script \in Seq(Ops(V)), NEW c, NEW j \in 1..(Len(script) + 1),
         NEW k \in 1..(Len(script) + 1), j <= k, Gap(script, c, j, k)
  PROVE  /\ OldLineAt(script, j) \in Nat /\ NewLineAt(script, j) \in Nat
         /\ OldLineAt(script, k) \in Nat /\ NewLineAt(script, k) \in Nat
         /\ NewLineAt(script, k) - OldLineAt(script, k) = NewLineAt(script, j) - OldLineAt(script, j)
<1>1. Len(script) \in Nat /\ j \in Nat /\ k \in Nat
  OBVIOUS
<1>2. \A i \in Nat : OldLineAt(script, i) \in Nat \ {0} /\ NewLineAt(script, i) \in Nat \ {0}
  BY LinesAreNat
<1>3. PICK p \in Nat, q \in Nat, r \in Nat, s \in Nat :
        /\ p = OldLineAt(script, j) /\ q = NewLineAt(script, j)
        /\ r = OldLineAt(script, k) /\ s = NewLineAt(script, k)
  BY <1>1, <1>2
<1>4. r = p + (k - j) /\ s = q + (k - j)
  BY <1>3, GapLines
<1>5. s - r = q - p
  BY <1>1, <1>4
<1> QED
  BY <1>3, <1>5

\* The part of a gap before an op is a gap.
LEMMA PartOfGap ==
  ASSUME NEW script, NEW c, NEW j \in Nat, NEW k \in Nat, NEW m \in Nat, k <= m, Gap(script, c, j, m)
  PROVE  Gap(script, c, j, k)
BY DEF Gap

\* A line of the old file is named by a hunk header just when the hunk shows it.
LEMMA InHunkShows ==
  ASSUME NEW V, NEW script \in Seq(Ops(V)), NEW c \in Nat, NEW k \in OldOps(script)
  PROVE  InHunk(Body(script, c), OldLineAt(script, k)) <=> InHunkOp(script, c, k)
<1>1. PICK K \in Nat : K = Cardinality(Starts(script, c))
  BY Layout
<1>2. PICK body : body = Body(script, c)
  OBVIOUS
<1>3. DOMAIN body = 1..K
  BY <1>1, <1>2, Layout
<1>4. Len(script) \in Nat /\ k \in 1..Len(script) /\ k \in 1..(Len(script) + 1) /\ k \in Nat
  BY LinesBounded
<1>5. \A i \in Nat : OldLineAt(script, i) \in Nat \ {0} /\ NewLineAt(script, i) \in Nat \ {0}
  BY LinesAreNat
<1>6. ASSUME NEW n \in 1..K
      PROVE  \E f \in 1..Len(script), e \in 1..(Len(script) + 1) :
               /\ f = HunkFrom(script, c, n) /\ e = Edge(script, c, n) /\ f < e
               /\ \A i \in f..(e - 1) : InHunkOp(script, c, i)
               /\ body[n].oldStart = OldLineAt(script, f)
               /\ body[n].oldLen = OldLineAt(script, e) - OldLineAt(script, f)
  <2>1. Header(script, body[n], HunkFrom(script, c, n), Edge(script, c, n))
    BY <1>1, <1>2, HunkAt
  <2>2. HunkFrom(script, c, n) \in 1..Len(script) /\ HunkFrom(script, c, n) < Edge(script, c, n)
        /\ \A i \in HunkFrom(script, c, n)..(Edge(script, c, n) - 1) : InHunkOp(script, c, i)
    BY <1>1, Layout
  <2>3. n \in 0..K
    OBVIOUS
  <2>4. Edge(script, c, n) \in 1..(Len(script) + 1)
    BY <1>1, <2>3, Layout
  <2> QED
    BY <2>1, <2>2, <2>4 DEF Header
<1>7. ASSUME NEW n \in 1..K
      PROVE  OldLineAt(script, k) \in body[n].oldStart..(body[n].oldStart + body[n].oldLen - 1)
               <=> HunkFrom(script, c, n) <= k /\ k < Edge(script, c, n)
  <2>1. PICK f \in 1..Len(script), e \in 1..(Len(script) + 1) :
               /\ f = HunkFrom(script, c, n) /\ e = Edge(script, c, n) /\ f < e
               /\ body[n].oldStart = OldLineAt(script, f)
               /\ body[n].oldLen = OldLineAt(script, e) - OldLineAt(script, f)
    BY <1>6
  <2>2. f \in Nat /\ e \in Nat /\ f \in 1..(Len(script) + 1)
    BY <1>4
  <2>3. PICK p \in Nat, q \in Nat, r \in Nat :
          p = OldLineAt(script, f) /\ q = OldLineAt(script, e) /\ r = OldLineAt(script, k)
    BY <1>4, <1>5, <2>2
  <2>4. f <= k => p <= r
    BY <1>4, <2>2, <2>3, LinesGrow
  <2>5. k < f => r < p
    BY <1>4, <2>2, <2>3, LinesGrow
  <2>6. k < e => r < q
    BY <1>4, <2>3, LinesGrow
  <2>7. e <= k => q <= r
    BY <1>4, <2>3, LinesGrow
  <2>8. r \in p..(q - 1) <=> f <= k /\ k < e
    BY <1>4, <2>2, <2>4, <2>5, <2>6, <2>7
  <2>9. body[n].oldStart = p /\ body[n].oldStart + body[n].oldLen - 1 = q - 1
    BY <2>1, <2>3
  <2> QED
    BY <2>1, <2>3, <2>8, <2>9
<1>8. ASSUME InHunkOp(script, c, k)
      PROVE  \E n \in 1..K : HunkFrom(script, c, n) <= k /\ k < Edge(script, c, n)
  <2>1. PICK s \in Starts(script, c) : FirstOp(s, c) <= k /\ k <= LastOp(s, script, c)
    BY <1>8 DEF InHunkOp, Covers
  <2>2. Starts(script, c) \in SUBSET (1..Len(script)) /\ LastOp(s, script, c) \in 1..Len(script)
    BY HunksApart
  <2>3. PICK n \in 1..K : Nth(Starts(script, c), n) = s
    BY <1>1, <1>4, <2>2, Numbered
  <2>4. n # 0
    OBVIOUS
  <2>5. HunkFrom(script, c, n) = FirstOp(s, c) /\ Edge(script, c, n) = LastOp(s, script, c) + 1
    BY <2>3, <2>4 DEF HunkFrom, Edge
  <2>6. k < LastOp(s, script, c) + 1
    BY <1>4, <2>1, <2>2
  <2> QED
    BY <2>1, <2>5, <2>6
<1>9. ASSUME NEW n \in 1..K, HunkFrom(script, c, n) <= k, k < Edge(script, c, n)
      PROVE  InHunkOp(script, c, k)
  <2>1. PICK f \in 1..Len(script), e \in 1..(Len(script) + 1) :
               /\ f = HunkFrom(script, c, n) /\ e = Edge(script, c, n) /\ f < e
               /\ \A i \in f..(e - 1) : InHunkOp(script, c, i)
    BY <1>6
  <2>2. k \in f..(e - 1)
    BY <1>4, <1>9, <2>1
  <2> QED
    BY <2>1, <2>2
<1>10. InHunk(body, OldLineAt(script, k)) <=>
         \E n \in 1..K : HunkFrom(script, c, n) <= k /\ k < Edge(script, c, n)
  BY <1>3, <1>7 DEF InHunk
<1> QED
  BY <1>2, <1>8, <1>9, <1>10

\* Before op k, the lines of the old file stay in place or move by what the hunks
\* before them add and remove.
ShiftBefore(script, c, k, n, v) ==
  IF Edge(script, c, n) <= k
  THEN v - OldLineAt(script, k) = NewLineAt(script, Edge(script, c, n)) - OldLineAt(script, Edge(script, c, n))
  ELSE v = NewLineAt(script, k)

\* One hunk more is looked at.
LEMMA ShiftedByHunk ==
  ASSUME NEW V, NEW script \in Seq(Ops(V)), NEW c \in Nat, NEW k \in 1..Len(script),
         Unshown(script, c, k), NEW n \in 1..Cardinality(Starts(script, c)),
         NEW v \in Int, ShiftBefore(script, c, k, n - 1, v),
         NEW h, h = Body(script, c)[n]
  PROVE  /\ h.oldStart + h.oldLen <= OldLineAt(script, k)
              => ShiftBefore(script, c, k, n, v + h.newLen - h.oldLen)
         /\ ~(h.oldStart + h.oldLen <= OldLineAt(script, k)) => ShiftBefore(script, c, k, n, v)
<1>1. PICK K \in Nat : K = Cardinality(Starts(script, c))
  BY Layout
<1>2. Len(script) \in Nat /\ k \in Nat /\ k \in 1..(Len(script) + 1) /\ n \in 1..K
      /\ n - 1 \in 0..K /\ n \in 0..K
  BY <1>1
<1>3. PICK d \in 1..(Len(script) + 1), f \in 1..Len(script), e \in 1..(Len(script) + 1) :
        /\ d = Edge(script, c, n - 1) /\ f = HunkFrom(script, c, n) /\ e = Edge(script, c, n)
        /\ d <= f /\ f < e /\ Gap(script, c, d, f)
        /\ \A i \in f..(e - 1) : InHunkOp(script, c, i)
  <2>1. Edge(script, c, n - 1) \in 1..(Len(script) + 1) /\ Edge(script, c, n) \in 1..(Len(script) + 1)
    BY <1>1, <1>2, Layout
  <2>2. /\ HunkFrom(script, c, n) \in 1..Len(script)
        /\ Edge(script, c, n - 1) <= HunkFrom(script, c, n)
        /\ HunkFrom(script, c, n) < Edge(script, c, n)
        /\ Gap(script, c, Edge(script, c, n - 1), HunkFrom(script, c, n))
        /\ \A i \in HunkFrom(script, c, n)..(Edge(script, c, n) - 1) : InHunkOp(script, c, i)
    BY <1>1, <1>2, Layout
  <2> QED
    BY <2>1, <2>2
<1>4. d \in Nat /\ f \in Nat /\ e \in Nat /\ f \in 1..(Len(script) + 1)
  BY <1>2
<1>5. \A i \in Nat : OldLineAt(script, i) \in Nat \ {0} /\ NewLineAt(script, i) \in Nat \ {0}
  BY LinesAreNat
<1>6. PICK dO \in Nat, fO \in Nat, eO \in Nat, kO \in Nat :
        /\ dO = OldLineAt(script, d) /\ fO = OldLineAt(script, f)
        /\ eO = OldLineAt(script, e) /\ kO = OldLineAt(script, k)
  BY <1>2, <1>4, <1>5
<1>7. PICK dN \in Nat, fN \in Nat, eN \in Nat, kN \in Nat :
        /\ dN = NewLineAt(script, d) /\ fN = NewLineAt(script, f)
        /\ eN = NewLineAt(script, e) /\ kN = NewLineAt(script, k)
  BY <1>2, <1>4, <1>5
<1>8. h.oldStart = fO /\ h.oldLen = eO - fO /\ h.newLen = eN - fN
  <2>1. Header(script, h, HunkFrom(script, c, n), Edge(script, c, n))
    BY HunkAt
  <2> QED
    BY <1>3, <1>6, <1>7, <2>1 DEF Header
<1>9. fN - fO = dN - dO
  BY <1>3, <1>4, <1>6, <1>7, GapKeepsShift
<1>10. IF d <= k THEN v - kO = dN - dO ELSE v = kN
  BY <1>3, <1>6, <1>7 DEF ShiftBefore
<1>11. ~InHunkOp(script, c, k) /\ k \in OldOps(script)
  BY DEF Unshown
<1>12. CASE e <= k
  <2>1. eO <= kO
    BY <1>2, <1>6, <1>12, LinesGrow
  <2>2. d <= k
    BY <1>2, <1>3, <1>4, <1>12
  <2>3. h.oldStart + h.oldLen <= kO
    BY <1>8, <2>1
  <2>4. (v + h.newLen - h.oldLen) - kO = eN - eO
    BY <1>8, <1>9, <1>10, <2>2
  <2>5. ShiftBefore(script, c, k, n, v + h.newLen - h.oldLen)
    BY <1>3, <1>6, <1>7, <1>12, <2>4 DEF ShiftBefore
  <2> QED
    BY <1>6, <2>3, <2>5
<1>13. CASE ~(e <= k)
  <2>1. kO < eO
    BY <1>2, <1>4, <1>6, <1>11, <1>13, LinesGrow
  <2>2. ~(h.oldStart + h.oldLen <= kO)
    BY <1>8, <2>1
  <2>3. k < f
    <3>1. ~(k \in f..(e - 1))
      BY <1>3, <1>11
    <3> QED
      BY <1>2, <1>4, <1>13, <3>1
  <2>4. v = kN
    <3>1. CASE d <= k
      <4>1. Gap(script, c, d, k)
        BY <1>2, <1>3, <1>4, <2>3, PartOfGap
      <4>2. kN - kO = dN - dO
        BY <1>2, <1>6, <1>7, <3>1, <4>1, GapKeepsShift
      <4> QED
        BY <1>10, <3>1, <4>2
    <3>2. CASE ~(d <= k)
      BY <1>10, <3>2
    <3> QED
      BY <3>1, <3>2
  <2>5. ShiftBefore(script, c, k, n, v)
    BY <1>3, <1>7, <1>13, <2>4 DEF ShiftBefore
  <2> QED
    BY <1>6, <2>2, <2>5
<1> QED
  BY <1>12, <1>13

\* An op in the gap behind the last hunk it has passed is where the shift says.
LEMMA ShiftToEnd ==
  ASSUME NEW V, NEW script \in Seq(Ops(V)), NEW c \in Nat, NEW k \in 1..Len(script),
         NEW v \in Int, ShiftBefore(script, c, k, Cardinality(Starts(script, c)), v)
  PROVE  v = NewLineAt(script, k)
<1>1. PICK K \in Nat : K = Cardinality(Starts(script, c))
  BY Layout
<1>2. Len(script) \in Nat /\ k \in Nat /\ k \in 1..(Len(script) + 1) /\ K \in 0..K
      /\ Len(script) + 1 \in Nat /\ k <= Len(script) + 1
  OBVIOUS
<1>3. PICK e \in 1..(Len(script) + 1) : e = Edge(script, c, K) /\ Gap(script, c, e, Len(script) + 1)
  BY <1>1, <1>2, Layout
<1>4. CASE e <= k
  <2>1. e \in Nat
    BY <1>2
  <2>2. Gap(script, c, e, k)
    BY <1>2, <1>3, <2>1, PartOfGap
  <2>3. /\ OldLineAt(script, e) \in Nat /\ NewLineAt(script, e) \in Nat
        /\ OldLineAt(script, k) \in Nat /\ NewLineAt(script, k) \in Nat
        /\ NewLineAt(script, k) - OldLineAt(script, k) = NewLineAt(script, e) - OldLineAt(script, e)
    BY <1>2, <1>4, <2>2, GapKeepsShift
  <2>4. PICK eO \in Nat, eN \in Nat, kO \in Nat, kN \in Nat :
          /\ eO = OldLineAt(script, e) /\ eN = NewLineAt(script, e)
          /\ kO = OldLineAt(script, k) /\ kN = NewLineAt(script, k) /\ kN - kO = eN - eO
    BY <2>3
  <2>5. v - kO = eN - eO
    BY <1>1, <1>3, <1>4, <2>4 DEF ShiftBefore
  <2> QED
    BY <2>4, <2>5
<1>5. CASE ~(e <= k)
  BY <1>1, <1>3, <1>5 DEF ShiftBefore
<1> QED
  BY <1>4, <1>5

\* A line that no hunk shows comes to lie where the script has it in the new file.
LEMMA MovedTo ==
  ASSUME NEW V, NEW script \in Seq(Ops(V)), NEW c \in Nat, NEW k \in 1..Len(script),
         Unshown(script, c, k)
  PROVE  Moved(Body(script, c), OldLineAt(script, k)) = NewLineAt(script, k)
<1>0. PICK K \in Nat : K = Cardinality(Starts(script, c))
  BY Layout
<1>1. PICK body : body = Body(script, c)
  OBVIOUS
<1>2. Len(body) = K
  BY <1>0, <1>1, Layout
<1>3. /\ Len(script) \in Nat /\ k \in Nat
      /\ \A i \in Nat : OldLineAt(script, i) \in Nat \ {0} /\ NewLineAt(script, i) \in Nat \ {0}
  <2>1. Len(script) \in Nat /\ k \in Nat
    OBVIOUS
  <2>2. \A i \in Nat : OldLineAt(script, i) \in Nat \ {0} /\ NewLineAt(script, i) \in Nat \ {0}
    BY LinesAreNat
  <2> QED
    BY <2>1, <2>2
<1>4. PICK i \in Nat : i = OldLineAt(script, k)
  BY <1>3
<1>5. ASSUME NEW n \in 1..K
      PROVE  body[n].oldStart \in Nat /\ body[n].oldLen \in Int /\ body[n].newLen \in Int
  <2>1. Header(script, body[n], HunkFrom(script, c, n), Edge(script, c, n))
    BY <1>0, <1>1, HunkAt
  <2>2. HunkFrom(script, c, n) \in 1..Len(script)
    BY <1>0, Layout
  <2>3. n \in 0..K
    OBVIOUS
  <2>4. Edge(script, c, n) \in 1..(Len(script) + 1)
    BY <1>0, <2>3, Layout
  <2>5. HunkFrom(script, c, n) \in Nat /\ Edge(script, c, n) \in Nat
    <3>1. \A x \in 1..(Len(script) + 1) : x \in Nat
      BY <1>3
    <3>2. \A x \in 1..Len(script) : x \in Nat
      BY <1>3
    <3> QED
      BY <2>2, <2>4, <3>1, <3>2
  <2>6. PICK p \in Nat, q \in Nat, r \in Nat, s \in Nat :
          /\ p = OldLineAt(script, HunkFrom(script, c, n)) /\ q = OldLineAt(script, Edge(script, c, n))
          /\ r = NewLineAt(script, HunkFrom(script, c, n)) /\ s = NewLineAt(script, Edge(script, c, n))
    BY <1>3, <2>5
  <2>7. q - p \in Int /\ s - r \in Int
    OBVIOUS
  <2> QED
    BY <2>1, <2>6, <2>7 DEF Header
<1> DEFINE Round(n, v) == IF body[n].oldStart + body[n].oldLen <= i
                          THEN v + body[n].newLen - body[n].oldLen ELSE v
           Done(d) == [n \in 0..Len(body) |->
                         IF n = 0 THEN i
                         ELSE IF body[n].oldStart + body[n].oldLen <= i
                              THEN d[n - 1] + body[n].newLen - body[n].oldLen
                         ELSE d[n - 1]]
           G == [x \in Nat \X Int |-> IF x[1] \in 1..K THEN Round(x[1], x[2]) ELSE x[2]]
<1>6. G \in [Nat \X Int -> Int] /\ \A n \in 1..K, d \in Int : G[<<n, d>>] = Round(n, d)
  <2>1. \A n \in 1..K, d \in Int : Round(n, d) \in Int
    BY <1>5
  <2> HIDE DEF Round
  <2>2. \A x \in Nat \X Int : x[1] \in Nat /\ x[2] \in Int /\ x = <<x[1], x[2]>>
    OBVIOUS
  <2>3. \A n \in 1..K : n \in Nat
    OBVIOUS
  <2> QED
    BY <2>1, <2>2, <2>3
<1> HIDE DEF G
<1>7. PICK d : d \in Rounds(Int, K, i, G)
  <2>1. PICK S : S = Int
    OBVIOUS
  <2>2. i \in S /\ G \in [Nat \X S -> S]
    BY <1>6, <2>1
  <2>3. \E f : f \in Rounds(S, K, i, G)
    BY <2>2, UpToRecursion
  <2> QED
    BY <2>1, <2>3
<1>8. d \in [0..K -> Int] /\ d[0] = i /\ \A n \in 1..K : d[n] = Round(n, d[n - 1])
  <2>1. d \in [0..K -> Int] /\ d[0] = i /\ \A n \in 1..K : d[n] = G[<<n, d[n - 1]>>]
    BY <1>7 DEF Rounds
  <2>2. \A n \in 1..K : n - 1 \in 0..K
    OBVIOUS
  <2>3. \A n \in 1..K : d[n - 1] \in Int
    BY <2>1, <2>2
  <2> HIDE DEF Round
  <2> QED
    BY <1>6, <2>1, <2>3
<1>9. d = Done(d)
  <2>1. \A n \in 0..K : n = 0 \/ n \in 1..K
    OBVIOUS
  <2>2. \A n \in 1..K : n # 0
    OBVIOUS
  <2>3. \A n \in 0..K : d[n] = IF n = 0 THEN i ELSE Round(n, d[n - 1])
    <3> HIDE DEF Round
    <3> QED
      BY <1>8, <2>1, <2>2
  <2>4. d = [n \in 0..K |-> d[n]]
    BY <1>8
  <2> QED
    BY <1>2, <2>3, <2>4
<1> DEFINE w == CHOOSE f : f = Done(f)
<1>10. Moved(body, i) = w[Len(body)]
  BY DEF Moved
<1>11. w = Done(w)
  <2> HIDE DEF Done
  <2> QED
    BY <1>9
<1> HIDE DEF w
<1>12. w[0] = i /\ \A n \in 1..K : w[n] = Round(n, w[n - 1])
  <2>1. 0 \in 0..K
    OBVIOUS
  <2>2. w[0] = i
    BY <1>2, <1>11, <2>1
  <2>3. ASSUME NEW n \in 1..K PROVE w[n] = Round(n, w[n - 1])
    <3>1. n \in 0..Len(body) /\ n # 0
      BY <1>2
    <3>2. Done(w)[n] = Round(n, w[n - 1])
      BY <3>1
    <3> HIDE DEF Done, Round
    <3> QED
      BY <1>11, <3>2
  <2> QED
    BY <2>2, <2>3
<1> HIDE DEF Done
<1> DEFINE H == {n \in Nat : n <= K => w[n] \in Int /\ ShiftBefore(script, c, k, n, w[n])}
<1>13. 0 \in H
  <2>1. Edge(script, c, 0) = 1 /\ OldLineAt(script, 1) = 1 /\ NewLineAt(script, 1) = 1
    BY Layout, LinesBounded
  <2>2. 1 <= k /\ i - i = 1 - 1
    BY <1>3
  <2>3. ShiftBefore(script, c, k, 0, i)
    BY <1>4, <2>1, <2>2 DEF ShiftBefore
  <2> QED
    BY <1>12, <2>3
<1>14. ASSUME NEW n \in Nat, n \in H PROVE n + 1 \in H
  <2> SUFFICES ASSUME n + 1 <= K
               PROVE  w[n + 1] \in Int /\ ShiftBefore(script, c, k, n + 1, w[n + 1])
    OBVIOUS
  <2>1. n + 1 \in 1..K /\ (n + 1) - 1 = n /\ n <= K
    OBVIOUS
  <2>2. PICK v \in Int : v = w[n] /\ ShiftBefore(script, c, k, n, v)
    BY <1>14, <2>1
  <2>3. w[n + 1] = Round(n + 1, v)
    <3> HIDE DEF Round
    <3> QED
      BY <1>12, <2>1, <2>2
  <2>4. PICK m \in 1..K : m = n + 1
    BY <2>1
  <2>5. PICK h : h = body[m]
    OBVIOUS
  <2>6. ShiftBefore(script, c, k, m - 1, v)
    BY <2>1, <2>2, <2>4
  <2>7. /\ h.oldStart + h.oldLen <= i => ShiftBefore(script, c, k, m, v + h.newLen - h.oldLen)
        /\ ~(h.oldStart + h.oldLen <= i) => ShiftBefore(script, c, k, m, v)
    BY <1>0, <1>1, <1>4, <2>5, <2>6, ShiftedByHunk
  <2>8. w[m] = IF h.oldStart + h.oldLen <= i THEN v + h.newLen - h.oldLen ELSE v
    BY <2>3, <2>4, <2>5
  <2>9. w[m] \in Int
    BY <1>5, <2>5, <2>8
  <2> QED
    BY <2>4, <2>7, <2>8, <2>9
<1> HIDE DEF H
<1>15. Nat \subseteq H
  BY <1>13, <1>14, Everywhere
<1>16. w[K] \in Int /\ ShiftBefore(script, c, k, K, w[K])
  BY <1>15 DEF H
<1>17. w[K] = NewLineAt(script, k)
  BY <1>0, <1>16, ShiftToEnd
<1> QED
  BY <1>1, <1>2, <1>4, <1>10, <1>17

\* When every hunk adds as many lines as it removes, no line moves.
LEMMA LevelHunks ==
  ASSUME NEW V, NEW script \in Seq(Ops(V)), NEW c \in Nat,
         \A n \in DOMAIN Body(script, c) : Body(script, c)[n].oldLen = Body(script, c)[n].newLen
  PROVE  /\ \A k \in 1..Len(script) :
              ~InHunkOp(script, c, k) => OldLineAt(script, k) = NewLineAt(script, k)
         /\ Cardinality(OldOps(script)) = Cardinality(NewOps(script))
<1>0. PICK K \in Nat : K = Cardinality(Starts(script, c))
  BY Layout
<1>1. /\ Len(script) \in Nat /\ DOMAIN Body(script, c) = 1..K
      /\ \A i \in Nat : OldLineAt(script, i) \in Nat \ {0} /\ NewLineAt(script, i) \in Nat \ {0}
  BY <1>0, Layout, LinesAreNat
<1> DEFINE H == {n \in Nat : n <= K => OldLineAt(script, Edge(script, c, n)) = NewLineAt(script, Edge(script, c, n))}
<1>2. 0 \in H
  <2>1. Edge(script, c, 0) = 1 /\ OldLineAt(script, 1) = 1 /\ NewLineAt(script, 1) = 1
    BY Layout, LinesBounded
  <2> QED
    BY <2>1
<1>3. ASSUME NEW n \in Nat, n \in H PROVE n + 1 \in H
  <2> SUFFICES ASSUME n + 1 <= K
               PROVE  OldLineAt(script, Edge(script, c, n + 1)) = NewLineAt(script, Edge(script, c, n + 1))
    OBVIOUS
  <2>1. PICK m \in 1..K : m = n + 1 /\ m - 1 = n /\ n \in 0..K /\ m \in 0..K
    OBVIOUS
  <2>2. PICK d \in 1..(Len(script) + 1), f \in 1..Len(script), e \in 1..(Len(script) + 1) :
          /\ d = Edge(script, c, n) /\ f = HunkFrom(script, c, m) /\ e = Edge(script, c, m)
          /\ d <= f /\ f < e /\ Gap(script, c, d, f)
    <3>1. Edge(script, c, n) \in 1..(Len(script) + 1) /\ Edge(script, c, m) \in 1..(Len(script) + 1)
      BY <1>0, <2>1, Layout
    <3>2. /\ HunkFrom(script, c, m) \in 1..Len(script)
          /\ Edge(script, c, m - 1) <= HunkFrom(script, c, m)
          /\ HunkFrom(script, c, m) < Edge(script, c, m)
          /\ Gap(script, c, Edge(script, c, m - 1), HunkFrom(script, c, m))
      BY <1>0, <2>1, Layout
    <3> QED
      BY <2>1, <3>1, <3>2
  <2>3. d \in Nat /\ f \in Nat /\ e \in Nat /\ f \in 1..(Len(script) + 1)
    BY <1>1
  <2>4. NewLineAt(script, f) - OldLineAt(script, f) = NewLineAt(script, d) - OldLineAt(script, d)
    BY <2>2, <2>3, GapKeepsShift
  <2>5. Header(script, Body(script, c)[m], f, e)
    BY <1>0, <2>2, HunkAt
  <2>6. OldLineAt(script, e) - OldLineAt(script, f) = NewLineAt(script, e) - NewLineAt(script, f)
    BY <1>1, <2>5 DEF Header
  <2>7. OldLineAt(script, d) = NewLineAt(script, d)
    BY <1>3, <2>1, <2>2
  <2>8. PICK dO \in Nat, fO \in Nat, eO \in Nat :
          dO = OldLineAt(script, d) /\ fO = OldLineAt(script, f) /\ eO = OldLineAt(script, e)
    BY <1>1, <2>3
  <2>9. PICK dN \in Nat, fN \in Nat, eN \in Nat :
          dN = NewLineAt(script, d) /\ fN = NewLineAt(script, f) /\ eN = NewLineAt(script, e)
    BY <1>1, <2>3
  <2>10. dO = dN /\ fN - fO = dN - dO /\ eO - fO = eN - fN
    BY <2>4, <2>6, <2>7, <2>8, <2>9
  <2>11. eO = eN
    BY <2>10
  <2> QED
    BY <2>1, <2>2, <2>8, <2>9, <2>11
<1> HIDE DEF H
<1>4. Nat \subseteq H
  BY <1>2, <1>3, Everywhere
<1>5. \A n \in 0..K : OldLineAt(script, Edge(script, c, n)) = NewLineAt(script, Edge(script, c, n))
  BY <1>4 DEF H
<1>6. Cardinality(OldOps(script)) = Cardinality(NewOps(script))
  <2>1. K \in 0..K
    OBVIOUS
  <2>2. PICK e \in 1..(Len(script) + 1) : e = Edge(script, c, K) /\ Gap(script, c, e, Len(script) + 1)
    BY <1>0, <2>1, Layout
  <2>3. Len(script) + 1 \in 1..(Len(script) + 1) /\ e <= Len(script) + 1 /\ e \in Nat
    BY <1>1
  <2>4. NewLineAt(script, Len(script) + 1) - OldLineAt(script, Len(script) + 1)
          = NewLineAt(script, e) - OldLineAt(script, e)
    BY <2>2, <2>3, GapKeepsShift
  <2>5. OldLineAt(script, e) = NewLineAt(script, e)
    BY <1>5, <2>1, <2>2
  <2>6. PICK p \in Nat, q \in Nat : p = Cardinality(OldOps(script)) /\ q = Cardinality(NewOps(script))
    BY LinesBounded
  <2>7. OldLineAt(script, Len(script) + 1) = p + 1 /\ NewLineAt(script, Len(script) + 1) = q + 1
    BY <2>6, LinesBounded
  <2>8. PICK x \in Nat : x = OldLineAt(script, e)
    BY <1>1, <2>3
  <2>9. (q + 1) - (p + 1) = x - x
    BY <2>4, <2>5, <2>7, <2>8
  <2> QED
    BY <2>6, <2>9
<1>7. ASSUME NEW k \in 1..Len(script), ~InHunkOp(script, c, k)
      PROVE  OldLineAt(script, k) = NewLineAt(script, k)
  <2>1. Unshown(script, c, k)
    <3>1. k \notin Changed(script)
      BY <1>7, HunksApart
    <3>2. script[k].type = "equal"
      BY <3>1 DEF Changed
    <3>3. k \in OldOps(script) /\ k \in NewOps(script)
      BY <3>2, SidesOfScript
    <3> QED
      BY <1>7, <3>3 DEF Unshown
  <2>2. PICK i \in Nat : i = OldLineAt(script, k)
    <3>1. k \in Nat
      OBVIOUS
    <3> QED
      BY <1>1, <3>1
  <2> DEFINE H2 == {n \in Nat : n <= K => ShiftBefore(script, c, k, n, i)}
  <2>3. 0 \in H2
    <3>1. Edge(script, c, 0) = 1 /\ OldLineAt(script, 1) = 1 /\ NewLineAt(script, 1) = 1
      BY Layout, LinesBounded
    <3>2. 1 <= k /\ i - i = 1 - 1
      OBVIOUS
    <3> QED
      BY <2>2, <3>1, <3>2 DEF ShiftBefore
  <2>4. ASSUME NEW n \in Nat, n \in H2 PROVE n + 1 \in H2
    <3> SUFFICES ASSUME n + 1 <= K PROVE ShiftBefore(script, c, k, n + 1, i)
      OBVIOUS
    <3>1. PICK m \in 1..K : m = n + 1 /\ m - 1 = n /\ n <= K
      OBVIOUS
    <3>2. ShiftBefore(script, c, k, m - 1, i)
      BY <2>4, <3>1
    <3>3. PICK h : h = Body(script, c)[m]
      OBVIOUS
    <3>4. h.oldLen = h.newLen /\ h.newLen \in Int
      <4>1. h.oldLen = h.newLen
        BY <1>1, <3>3
      <4>2. Header(script, h, HunkFrom(script, c, m), Edge(script, c, m))
        BY <1>0, <3>3, HunkAt
      <4>3. HunkFrom(script, c, m) \in 1..Len(script)
        BY <1>0, Layout
      <4>4. m \in 0..K
        OBVIOUS
      <4>5. Edge(script, c, m) \in 1..(Len(script) + 1)
        BY <1>0, <4>4, Layout
      <4>6. \A x \in 1..(Len(script) + 1) : x \in Nat
        BY <1>1
      <4>7. \A x \in 1..Len(script) : x \in Nat
        BY <1>1
      <4>8. PICK r \in Nat, s \in Nat :
              r = NewLineAt(script, HunkFrom(script, c, m)) /\ s = NewLineAt(script, Edge(script, c, m))
        BY <1>1, <4>3, <4>5, <4>6, <4>7
      <4>9. h.newLen = s - r
        BY <4>2, <4>8 DEF Header
      <4> QED
        BY <4>1, <4>9
    <3>5. i + h.newLen - h.oldLen = i
      BY <3>4
    <3>6. i \in Int
      OBVIOUS
    <3>7. /\ h.oldStart + h.oldLen <= OldLineAt(script, k)
               => ShiftBefore(script, c, k, m, i + h.newLen - h.oldLen)
          /\ ~(h.oldStart + h.oldLen <= OldLineAt(script, k)) => ShiftBefore(script, c, k, m, i)
      BY <1>0, <2>1, <3>2, <3>3, <3>6, ShiftedByHunk
    <3> QED
      BY <3>1, <3>5, <3>7
  <2> HIDE DEF H2
  <2>5. Nat \subseteq H2
    BY <2>3, <2>4, Everywhere
  <2>6. ShiftBefore(script, c, k, K, i) /\ i \in Int
    BY <2>5 DEF H2
  <2>7. i = NewLineAt(script, k)
    BY <1>0, <2>6, ShiftToEnd
  <2> QED
    BY <2>2, <2>7
<1> QED
  BY <1>6, <1>7
-----------------------------------------------------------------------------
(* Patching a file that is not the one the patch was made from *)

LfLine == Lines(LineTexts, {"lf"})

\* A file whose lines all end in LF: a shown line is the new file's.
LEMMA LfShown ==
  ASSUME NEW T, NEW a \in Seq(Lines(T, {"lf"})), NEW b \in Seq(Lines(T, {"lf"})),
         NEW script, Script(script, a, b, T, {"lf"}), NEW k \in NewOps(script)
  PROVE  Written(HunkLine(script, k)) = b[NewLineAt(script, k)] /\ NewLineAt(script, k) \in 1..Len(b)
<1>1. PICK E \in SUBSET AnyEnd : E = {"lf"}
  BY DEF AnyEnd
<1>2. \A t \in 1..Len(b) : b[t] \in Lines(T, {"lf"})
  BY ElementOfSeq
<1>3. \A t \in 1..Len(b) : b[t] = [text |-> b[t].text, eol |-> "lf"] /\ b[t].eol = "lf"
  BY <1>2 DEF Lines
<1>4. WellSplit(b)
  BY LfWellSplit
<1>5. a \in Seq(Lines(T, E)) /\ b \in Seq(Lines(T, E)) /\ Script(script, a, b, T, E)
  BY <1>1
<1>6. /\ NewLineAt(script, k) \in 1..Len(b)
      /\ Written(HunkLine(script, k)) =
           [text |-> b[NewLineAt(script, k)].text,
            eol |-> IF b[NewLineAt(script, k)].eol = "none" THEN "none" ELSE "lf"]
  BY <1>4, <1>5, ShownLine
<1>7. b[NewLineAt(script, k)].eol = "lf"
  BY <1>3, <1>6
<1>8. Written(HunkLine(script, k)) = [text |-> b[NewLineAt(script, k)].text, eol |-> "lf"]
  BY <1>6, <1>7
<1> QED
  BY <1>3, <1>6, <1>8

\* What applying the patch to a file of the old one's length gives.
LEMMA LfApplied ==
  ASSUME NEW T, NEW a \in Seq(Lines(T, {"lf"})), NEW b \in Seq(Lines(T, {"lf"})), NEW c \in Nat,
         NEW script, Script(script, a, b, T, {"lf"}),
         NEW file \in Seq(Lines(T, {"lf"})), Len(file) = Len(a)
  PROVE  LET r == ApplyUnifiedDiff(file, Body(script, c))
         IN /\ r \in Seq(Lines(T, {"lf"})) /\ Len(r) = Len(b)
            /\ \A k \in NewOps(script) :
                 r[NewLineAt(script, k)] = IF InHunkOp(script, c, k) THEN b[NewLineAt(script, k)]
                                           ELSE file[OldLineAt(script, k)]
<1>1. PICK E \in SUBSET AnyEnd : E = {"lf"}
  BY DEF AnyEnd
<1>2. WellSplit(b)
  BY LfWellSplit
<1>3. PICK r : r = ApplyUnifiedDiff(file, Body(script, c))
  OBVIOUS
<1>4. /\ a \in Seq(Lines(T, E)) /\ b \in Seq(Lines(T, E)) /\ Script(script, a, b, T, E)
      /\ file \in Seq(Lines(T, E)) /\ {"lf"} \cup (E \cap {"none"}) \subseteq E
  BY <1>1
<1>5. /\ r \in Seq(Lines(T, E)) /\ Len(r) = Len(b)
      /\ \A k \in NewOps(script) : r[NewLineAt(script, k)] = Given(script, c, file, k)
  BY <1>2, <1>3, <1>4, AppliedToFile
<1>6. \A k \in NewOps(script) : Written(HunkLine(script, k)) = b[NewLineAt(script, k)]
  BY LfShown
<1>7. \A k \in NewOps(script) :
        r[NewLineAt(script, k)] = IF InHunkOp(script, c, k) THEN b[NewLineAt(script, k)]
                                  ELSE file[OldLineAt(script, k)]
  BY <1>5, <1>6 DEF Given
<1> QED
  BY <1>1, <1>3, <1>5, <1>7

\* The lines outside the hunks move as the hunks say and keep what the file has there;
\* every other line of the result is the new file's.
LEMMA KeepsElsewhere ==
  ASSUME NEW T, NEW a \in Seq(Lines(T, {"lf"})), NEW b \in Seq(Lines(T, {"lf"})), NEW c \in Nat,
         NEW file \in Seq(Lines(T, {"lf"})), NEW body, body = Body(DiffLines(a, b), c)
  PROVE  KeepsEditsElsewhere(body, a, b, file, ApplyUnifiedDiff(file, body))
<1>0. PICK script : script = DiffLines(a, b)
  OBVIOUS
<1>1. Script(script, a, b, T, {"lf"}) /\ script \in Seq(Ops(Lines(T, {"lf"})))
  BY <1>0, ScriptOfDiff DEF Script
<1>2. PICK r : r = ApplyUnifiedDiff(file, body)
  OBVIOUS
<1> DEFINE outside == {i \in DOMAIN file : ~InHunk(body, i)}
<1> SUFFICES ASSUME Len(file) = Len(a)
             PROVE  /\ Len(r) = Len(b)
                    /\ \A i \in outside : r[Moved(body, i)] = file[i]
                    /\ \A k \in DOMAIN r \ {Moved(body, i) : i \in outside} : r[k] = b[k]
  BY <1>2 DEF KeepsEditsElsewhere
<1>3. /\ r \in Seq(Lines(T, {"lf"})) /\ Len(r) = Len(b)
      /\ \A k \in NewOps(script) :
           r[NewLineAt(script, k)] = IF InHunkOp(script, c, k) THEN b[NewLineAt(script, k)]
                                     ELSE file[OldLineAt(script, k)]
  <2>1. r = ApplyUnifiedDiff(file, Body(script, c))
    BY <1>0, <1>2
  <2> QED
    BY <1>1, <2>1, LfApplied
<1>4. DOMAIN file = 1..Len(a) /\ DOMAIN r = 1..Len(b)
  BY <1>3
<1>5. /\ \A t \in 1..Len(b) : \E k \in NewOps(script) : NewLineAt(script, k) = t
      /\ \A t \in 1..Len(a) : \E k \in OldOps(script) : OldLineAt(script, k) = t
      /\ \A k \in NewOps(script) : k \in 1..Len(script)
      /\ \A k \in OldOps(script) : k \in 1..Len(script)
  BY <1>1, OpOfLine
<1>6. ASSUME NEW k \in 1..Len(script), ~InHunkOp(script, c, k)
      PROVE  /\ k \in OldOps(script) /\ k \in NewOps(script)
             /\ OldLineAt(script, k) \in outside
             /\ Moved(body, OldLineAt(script, k)) = NewLineAt(script, k)
  <2>1. /\ k \in OldOps(script) /\ k \in NewOps(script) /\ OldLineAt(script, k) \in 1..Len(a)
    BY <1>1, <1>6, UnshownLine
  <2>2. ~InHunk(body, OldLineAt(script, k))
    BY <1>0, <1>1, <1>6, <2>1, InHunkShows
  <2>3. Unshown(script, c, k)
    BY <1>6, <2>1 DEF Unshown
  <2>4. Moved(body, OldLineAt(script, k)) = NewLineAt(script, k)
    BY <1>0, <1>1, <2>3, MovedTo
  <2> QED
    BY <1>4, <2>1, <2>2, <2>4
<1>7. ASSUME NEW i \in outside PROVE r[Moved(body, i)] = file[i]
  <2>1. PICK k \in OldOps(script) : OldLineAt(script, k) = i /\ k \in 1..Len(script)
    BY <1>4, <1>5
  <2>2. ~InHunkOp(script, c, k)
    BY <1>0, <1>1, <2>1, InHunkShows
  <2>3. k \in NewOps(script) /\ Moved(body, i) = NewLineAt(script, k)
    BY <1>6, <2>1, <2>2
  <2> QED
    BY <1>3, <2>1, <2>2, <2>3
<1>8. ASSUME NEW t \in DOMAIN r, t \notin {Moved(body, i) : i \in outside} PROVE r[t] = b[t]
  <2>1. PICK k \in NewOps(script) : NewLineAt(script, k) = t /\ k \in 1..Len(script)
    BY <1>4, <1>5
  <2>2. InHunkOp(script, c, k)
    BY <1>6, <1>8, <2>1
  <2> QED
    BY <1>3, <2>1, <2>2
<1> HIDE DEF outside
<1> QED
  BY <1>3, <1>7, <1>8

\* A patch whose hunks add as many lines as they remove changes nothing in its own result.
LEMMA LevelAgain ==
  ASSUME NEW T, NEW a \in Seq(Lines(T, {"lf"})), NEW b \in Seq(Lines(T, {"lf"})), NEW c \in Nat,
         NEW body, body = Body(DiffLines(a, b), c),
         \A n \in DOMAIN body : body[n].oldLen = body[n].newLen
  PROVE  ApplyUnifiedDiff(b, body) = b
<1>0. PICK script : script = DiffLines(a, b)
  OBVIOUS
<1>1. Script(script, a, b, T, {"lf"}) /\ script \in Seq(Ops(Lines(T, {"lf"})))
      /\ Explains(script, a, b, Len(a) + 1, Len(b) + 1)
  BY <1>0, ScriptOfDiff DEF Script
<1>2. PICK r : r = ApplyUnifiedDiff(b, body)
  OBVIOUS
<1>3. Cardinality(OldOps(script)) = Len(a) /\ Cardinality(NewOps(script)) = Len(b)
  BY <1>1, LinesOfSides
<1>4. /\ \A k \in 1..Len(script) :
            ~InHunkOp(script, c, k) => OldLineAt(script, k) = NewLineAt(script, k)
      /\ Cardinality(OldOps(script)) = Cardinality(NewOps(script))
  BY <1>0, <1>1, LevelHunks
<1>5. /\ r \in Seq(Lines(T, {"lf"})) /\ Len(r) = Len(b)
      /\ \A k \in NewOps(script) :
           r[NewLineAt(script, k)] = IF InHunkOp(script, c, k) THEN b[NewLineAt(script, k)]
                                     ELSE b[OldLineAt(script, k)]
  <2>1. Len(b) = Len(a)
    BY <1>3, <1>4
  <2> QED
    BY <1>0, <1>1, <1>2, <2>1, LfApplied
<1>6. /\ \A t \in 1..Len(b) : \E k \in NewOps(script) : NewLineAt(script, k) = t
      /\ \A k \in NewOps(script) : k \in 1..Len(script)
  BY <1>1, OpOfLine
<1>7. \A t \in 1..Len(r) : r[t] = b[t]
  BY <1>4, <1>5, <1>6
<1> QED
  BY <1>2, <1>5, <1>7, SeqEqual
-----------------------------------------------------------------------------
(* The applier *)

\* What a change that asks for a patch may say.
Asks(c) ==
  /\ c.path \in Path
  /\ \/ c.operation = "create" /\ c.previousContent = Absent /\ c.nextContent \in Content
     \/ /\ c.operation = "update" /\ c.previousContent = base[c.path] /\ c.nextContent \in Content
        /\ base[c.path] \in Content
     \/ /\ c.operation = "delete" /\ c.previousContent = base[c.path] /\ c.nextContent = Absent

\* Patch n is the one made for change c.
PatchMade(n, c) ==
  /\ Asks(c) /\ ChangeOf(n) = c
  /\ patches[n].path = c.path /\ patches[n].operation = c.operation
  /\ patches[n].diff = Body(DiffLines(TextOf(c.previousContent), TextOf(c.nextContent)), Context)

\* The patches are those of the changes, on paths of their own.
Plan ==
  /\ base \in [Path -> Content \cup {Absent}]
  /\ DOMAIN patches = 1..Len(patches) /\ Len(patches) \in Nat
  /\ \A n \in 1..Len(patches) : \E c \in Range(changes) : PatchMade(n, c)
  /\ \A m, n \in 1..Len(patches) : patches[m].path = patches[n].path => m = n

\* What is held for a write is what the disk has, unless somebody edited the file since.
Holding ==
  /\ next <= Len(patches) /\ Patch.operation # "delete"
  /\ ~raced => held = TextOf(disk[Patch.path])
  /\ raced => Patch.path \in edited
  /\ Patch.operation = "create" => held = <<>>

ApplierInv ==
  /\ Plan
  /\ disk \in [Path -> Seq(LfLine) \cup {Absent}]
  /\ held \in Seq(LfLine)
  /\ next \in 1..(Len(patches) + 1)
  /\ phase \in {"idle", "read", "write", "done", "failed", "ended"}
  /\ runs \in 0..MaxRuns /\ edits \in 0..MaxEdits
  /\ edited \subseteq Path /\ raced \in BOOLEAN
  /\ runs = 0 => phase = "idle" /\ next = 1
  /\ phase = "write" => Holding

\* The changes of ChangesOf ask for something that PatchGenerator makes a patch of.
LEMMA ChangeAsks ==
  ASSUME base \in [Path -> Content \cup {Absent}], NEW p \in Path, NEW c \in ChangesOf(p), Patched(c)
  PROVE  Asks(c) /\ c.path = p
<1>1. c.operation # "keep"
  BY DEF Patched
<1>2. CASE c \in {[path |-> p, operation |-> "create", previousContent |-> Absent, nextContent |-> f] :
                     f \in Content}
  BY <1>2 DEF Asks
<1>3. CASE c \in {[path |-> p, operation |-> op, previousContent |-> base[p], nextContent |-> f] :
                     op \in IF base[p] = Absent THEN {} ELSE {"update"}, f \in Content}
  <2>1. PICK op \in IF base[p] = Absent THEN {} ELSE {"update"}, f \in Content :
          c = [path |-> p, operation |-> op, previousContent |-> base[p], nextContent |-> f]
    BY <1>3
  <2>2. base[p] # Absent /\ op = "update"
    BY <2>1
  <2>3. base[p] \in Content
    BY <2>2
  <2>4. /\ c.path = p /\ c.operation = "update" /\ c.previousContent = base[p] /\ c.nextContent = f
    BY <2>1, <2>2
  <2> QED
    BY <2>1, <2>3, <2>4 DEF Asks
<1>4. CASE c \in {[path |-> p, operation |-> op, previousContent |-> base[p], nextContent |-> Absent] :
                     op \in IF base[p] = Absent THEN {"keep"} ELSE {"keep", "delete"}}
  <2>1. PICK op \in {"keep", "delete"} :
          c = [path |-> p, operation |-> op, previousContent |-> base[p], nextContent |-> Absent]
    BY <1>4
  <2>2. c.operation = op /\ c.path = p /\ c.previousContent = base[p] /\ c.nextContent = Absent
    BY <2>1
  <2> QED
    BY <1>1, <2>1, <2>2 DEF Asks
<1> QED
  BY <1>2, <1>3, <1>4 DEF ChangesOf

\* The patches that generateAll makes are a plan.
LEMMA PlanMade == PatchInit => Plan
<1> SUFFICES ASSUME PatchInit PROVE Plan
  OBVIOUS
<1>0. /\ base \in [Path -> Content \cup {Absent}] /\ changes \in ChangeLists
      /\ patches = GenerateAll(changes)
  BY DEF PatchInit
<1>1. PICK N \in Nat : /\ changes \in [1..N -> UNION {ChangesOf(p) : p \in Path}]
                       /\ \A m, n \in DOMAIN changes : changes[m].path = changes[n].path => m = n
  <2>1. PICK N \in 0..MaxChanges : changes \in [1..N -> UNION {ChangesOf(p) : p \in Path}]
    BY <1>0 DEF ChangeLists
  <2>2. N \in Nat
    OBVIOUS
  <2> QED
    BY <1>0, <2>1, <2>2 DEF ChangeLists
<1>2. DOMAIN changes = 1..N /\ \A k \in 1..N : \E p \in Path : changes[k] \in ChangesOf(p)
  BY <1>1
<1> DEFINE P == {k \in DOMAIN changes : Patched(changes[k])}
<1>3. P \in SUBSET (1..N)
  BY <1>2
<1>4. \A k \in P : k \in 1..N /\ Patched(changes[k])
  BY <1>2
<1>5. PICK kept : kept = At(P, changes)
  OBVIOUS
<1>6. patches = [n \in DOMAIN kept |-> Generate(kept[n])]
  BY <1>0, <1>5 DEF GenerateAll
<1> HIDE DEF P
<1>7. PICK K \in Nat : K = Cardinality(P)
  BY <1>3, BeforeCounts
<1>8. /\ \A n \in 1..K : Nth(P, n) \in P /\ Before(P, Nth(P, n)) = n - 1
  BY <1>3, <1>7, Numbered
<1>9. DOMAIN kept = 1..K /\ \A n \in 1..K : kept[n] = changes[Nth(P, n)]
  BY <1>5, <1>7 DEF At
<1>10. /\ DOMAIN patches = 1..K /\ Len(patches) = K
       /\ \A n \in 1..K : patches[n] = Generate(changes[Nth(P, n)])
  <2>1. DOMAIN patches = 1..K /\ \A n \in 1..K : patches[n] = Generate(changes[Nth(P, n)])
    BY <1>6, <1>9
  <2>2. patches \in Seq({patches[n] : n \in 1..K})
    BY <1>6, <1>9, <2>1
  <2> QED
    BY <2>1, <2>2
<1>11. \A c, d \in Range(changes) : c.path = d.path => c = d
  <2>1. \A c \in Range(changes) : \E k \in DOMAIN changes : c = changes[k]
    BY DEF Range
  <2> QED
    BY <1>1, <2>1
<1>12. ASSUME NEW n \in 1..K PROVE \E c \in Range(changes) : PatchMade(n, c)
  <2>1. PICK k \in P : k = Nth(P, n) /\ patches[n] = Generate(changes[k])
    BY <1>8, <1>10
  <2>2. PICK p \in Path : changes[k] \in ChangesOf(p)
    BY <1>2, <1>4
  <2>3. PICK c \in Range(changes) : c = changes[k]
    BY <1>2, <1>4 DEF Range
  <2>4. Asks(c)
    BY <1>0, <1>4, <2>2, <2>3, ChangeAsks
  <2>5. /\ patches[n].path = c.path /\ patches[n].operation = c.operation
        /\ patches[n].diff = Body(DiffLines(TextOf(c.previousContent), TextOf(c.nextContent)), Context)
    BY <2>1, <2>3 DEF Generate
  <2>6. ChangeOf(n) = c
    BY <1>11, <2>3, <2>5 DEF ChangeOf
  <2> QED
    BY <2>4, <2>5, <2>6 DEF PatchMade
<1>13. ASSUME NEW m \in 1..K, NEW n \in 1..K, patches[m].path = patches[n].path PROVE m = n
  <2>1. /\ patches[m].path = changes[Nth(P, m)].path /\ patches[n].path = changes[Nth(P, n)].path
    BY <1>10 DEF Generate
  <2>2. Nth(P, m) \in DOMAIN changes /\ Nth(P, n) \in DOMAIN changes
    BY <1>2, <1>4, <1>8
  <2>3. Nth(P, m) = Nth(P, n)
    BY <1>1, <1>13, <2>1, <2>2
  <2>4. m - 1 = n - 1
    BY <1>8, <2>3
  <2> QED
    BY <2>4
<1> QED
  BY <1>0, <1>10, <1>12, <1>13 DEF Plan
\* What is in the workspace reads as a file with LF lines, nothing as an empty one.
LEMMA ContentIsFile ==
  /\ \A f \in Content : f \in Seq(LfLine) /\ TextOf(f) = f
  /\ \A f \in Content \cup {Absent} : TextOf(f) \in Seq(LfLine)
  /\ TextOf(Absent) = <<>>
  /\ \A f \in Seq(LfLine) \cup {Absent} : TextOf(f) \in Seq(LfLine)
BY ApplierAssumption DEF LfLine, Lines, TextOf

\* What a patch does to files: to any file, to the one it was made from, and to its own result.
LEMMA PatchWorks ==
  ASSUME Plan, NEW n \in 1..Len(patches), NEW c, PatchMade(n, c),
         NEW a, a = TextOf(c.previousContent), NEW b, b = TextOf(c.nextContent),
         NEW diff, diff = patches[n].diff
  PROVE  /\ a \in Seq(LfLine) /\ b \in Seq(LfLine) /\ diff = Body(DiffLines(a, b), Context)
         /\ \A f \in Seq(LfLine) : ApplyUnifiedDiff(f, diff) \in Seq(LfLine)
         /\ ApplyUnifiedDiff(a, diff) = b
         /\ (\A k \in DOMAIN diff : diff[k].oldLen = diff[k].newLen) => ApplyUnifiedDiff(b, diff) = b
         /\ \A f \in Seq(LfLine) : KeepsEditsElsewhere(diff, a, b, f, ApplyUnifiedDiff(f, diff))
<1>1. a \in Seq(LfLine) /\ b \in Seq(LfLine) /\ diff = Body(DiffLines(a, b), Context)
  <2>1. c.previousContent \in Content \cup {Absent} /\ c.nextContent \in Content \cup {Absent}
    BY DEF PatchMade, Asks, Plan
  <2> QED
    BY <2>1, ContentIsFile DEF PatchMade
<1>2. a \in Seq(Lines(LineTexts, {"lf"})) /\ b \in Seq(Lines(LineTexts, {"lf"})) /\ Context \in Nat
  BY <1>1, ApplierAssumption DEF LfLine
<1>3. ASSUME NEW f \in Seq(LfLine) PROVE ApplyUnifiedDiff(f, diff) \in Seq(LfLine)
  <2>1. PICK script : script = DiffLines(a, b)
    OBVIOUS
  <2>2. PICK V : V = Lines(LineTexts, {"lf"})
    OBVIOUS
  <2>3. Script(script, a, b, LineTexts, {"lf"}) /\ script \in Seq(Ops(V))
    BY <1>2, <2>1, <2>2, ScriptOfDiff DEF Script
  <2>4. \A k \in NewOps(script) : Written(HunkLine(script, k)) \in V
    <3>1. \A k \in NewOps(script) :
            Written(HunkLine(script, k)) = b[NewLineAt(script, k)] /\ NewLineAt(script, k) \in 1..Len(b)
      BY <1>2, <2>3, LfShown
    <3>2. \A t \in 1..Len(b) : b[t] \in V
      BY <1>2, <2>2, ElementOfSeq
    <3> QED
      BY <3>1, <3>2
  <2>5. f \in Seq(V)
    BY <2>2 DEF LfLine
  <2>6. ApplyUnifiedDiff(f, Body(script, Context)) \in Seq(V)
    BY <1>2, <2>3, <2>4, <2>5, AppliedIsFile
  <2> QED
    BY <1>1, <2>1, <2>2, <2>6 DEF LfLine
<1>4. ApplyUnifiedDiff(a, diff) = b
  BY <1>1, <1>2, RoundTripLf
<1>5. (\A k \in DOMAIN diff : diff[k].oldLen = diff[k].newLen) => ApplyUnifiedDiff(b, diff) = b
  BY <1>1, <1>2, LevelAgain
<1>6. ASSUME NEW f \in Seq(LfLine) PROVE KeepsEditsElsewhere(diff, a, b, f, ApplyUnifiedDiff(f, diff))
  <2>1. f \in Seq(Lines(LineTexts, {"lf"}))
    BY DEF LfLine
  <2> QED
    BY <1>1, <1>2, <2>1, KeepsElsewhere
<1> QED
  BY <1>1, <1>3, <1>4, <1>5, <1>6

\* The applier and everybody else leave the plan as it is.
LEMMA PlanStays ==
  ASSUME Plan, UNCHANGED <<base, changes, patches>>
  PROVE  /\ Plan'
         /\ \A n : Wanted(n)' = Wanted(n) /\ ChangeOf(n)' = ChangeOf(n) /\ Repeatable(n)' = Repeatable(n)
<1>1. \A n : ChangeOf(n)' = ChangeOf(n)
  BY DEF ChangeOf
<1>2. \A n : Wanted(n)' = Wanted(n)
  BY <1>1 DEF Wanted
<1>3. \A n : Repeatable(n)' = Repeatable(n)
  BY DEF Repeatable
<1>4. \A c : Asks(c) => Asks(c)'
  BY DEF Asks
<1>5. \A n, c : PatchMade(n, c) => PatchMade(n, c)'
  BY <1>1, <1>4 DEF PatchMade
<1>6. Plan'
  BY <1>5 DEF Plan
<1> QED
  BY <1>1, <1>2, <1>3, <1>6
\* The applier's invariant holds when the patches have been made,
LEMMA ApplierInvInit == PatchInit => ApplierInv
<1> SUFFICES ASSUME PatchInit PROVE ApplierInv
  OBVIOUS
<1>1. Plan
  BY PlanMade
<1>2. disk \in [Path -> Seq(LfLine) \cup {Absent}]
  <2>1. disk \in [Path -> Content \cup {Absent}]
    BY DEF PatchInit
  <2>2. Content \cup {Absent} \subseteq Seq(LfLine) \cup {Absent}
    BY ContentIsFile
  <2>3. PICK S, T : S = Content \cup {Absent} /\ T = Seq(LfLine) \cup {Absent}
    OBVIOUS
  <2>4. disk \in [Path -> S] /\ S \subseteq T
    BY <2>1, <2>2, <2>3
  <2>5. disk \in [Path -> T]
    BY <2>4
  <2> QED
    BY <2>3, <2>5
<1>3. 0 \in 0..MaxRuns /\ 0 \in 0..MaxEdits
  BY ApplierAssumption
<1>4. next = 1 /\ 1 \in 1..(Len(patches) + 1)
  BY <1>1 DEF PatchInit, Plan
<1>5. held \in Seq(LfLine)
  BY DEF PatchInit
<1> QED
  BY <1>1, <1>2, <1>3, <1>4, <1>5 DEF PatchInit, ApplierInv

\* What a step leaves as it is keeps its part of the invariant.
LEMMA ApplierInvStep ==
  ASSUME ApplierInv, [PatchNext]_patchVars
  PROVE  ApplierInv'
<1>0. /\ Plan /\ disk \in [Path -> Seq(LfLine) \cup {Absent}] /\ held \in Seq(LfLine)
      /\ next \in 1..(Len(patches) + 1) /\ Len(patches) \in Nat
      /\ phase \in {"idle", "read", "write", "done", "failed", "ended"}
      /\ runs \in 0..MaxRuns /\ edits \in 0..MaxEdits
      /\ edited \subseteq Path /\ raced \in BOOLEAN
      /\ runs = 0 => phase = "idle" /\ next = 1
      /\ phase = "write" => Holding
      /\ MaxRuns \in Nat /\ MaxEdits \in Nat
  BY ApplierAssumption DEF ApplierInv, Plan
<1>1. /\ UNCHANGED <<base, changes, patches>> => Plan'
      /\ \A n \in 1..Len(patches) : patches[n].path \in Path
  <2>1. \A n \in 1..Len(patches) : \E c \in Range(changes) : PatchMade(n, c)
    BY <1>0 DEF Plan
  <2>2. \A n \in 1..Len(patches) : patches[n].path \in Path
    BY <2>1 DEF PatchMade, Asks
  <2> QED
    BY <1>0, <2>2, PlanStays
<1>2. CASE ApplyAll
  <2>1. runs + 1 \in 0..MaxRuns /\ runs + 1 # 0 /\ 1 \in 1..(Len(patches) + 1)
    BY <1>0, <1>2 DEF ApplyAll
  <2> QED
    BY <1>0, <1>1, <1>2, <2>1 DEF ApplyAll, ApplierInv
<1>3. CASE Finish
  BY <1>0, <1>1, <1>3 DEF Finish, ApplierInv
<1>4. CASE Delete
  <2>1. next + 1 \in 1..(Len(patches) + 1) /\ next \in 1..Len(patches)
    BY <1>0, <1>4 DEF Delete
  <2>2. [disk EXCEPT ![Patch.path] = Absent] \in [Path -> Seq(LfLine) \cup {Absent}]
    BY <1>0
  <2> QED
    BY <1>0, <1>1, <1>4, <2>1, <2>2 DEF Delete, ApplierInv
<1>5. CASE Read
  <2>1. next \in 1..Len(patches)
    BY <1>0, <1>5 DEF Read
  <2>2. Patch.path \in Path
    BY <1>1, <2>1 DEF Patch
  <2>3. Existing \in Seq(LfLine)
    BY <1>0, <2>2, ContentIsFile DEF Existing
  <2>4. CASE phase' = "write" /\ held' = Existing /\ ~Occupied(Existing)
    <3>1. Patch.operation = "create" => Existing = <<>>
      BY <2>4 DEF Occupied
    <3>2. Holding'
      BY <1>0, <1>5, <2>4, <3>1 DEF Holding, Read, Patch, Existing, TextOf
    <3> QED
      BY <1>0, <1>1, <1>5, <2>3, <2>4, <3>2 DEF Read, ApplierInv
  <2>5. CASE phase' = "failed" /\ UNCHANGED held
    BY <1>0, <1>1, <1>5, <2>5 DEF Read, ApplierInv
  <2> QED
    BY <1>5, <2>4, <2>5 DEF Read
<1>6. CASE Write
  <2>1. next \in 1..Len(patches) /\ next + 1 \in 1..(Len(patches) + 1)
    BY <1>0, <1>6 DEF Write, Holding
  <2>2. PICK c \in Range(changes) : PatchMade(next, c)
    BY <1>0, <2>1 DEF Plan
  <2>3. ApplyUnifiedDiff(held, Patch.diff) \in Seq(LfLine)
    <3>1. \A f \in Seq(LfLine) : ApplyUnifiedDiff(f, patches[next].diff) \in Seq(LfLine)
      BY <1>0, <2>1, <2>2, PatchWorks
    <3> QED
      BY <1>0, <3>1 DEF Patch
  <2>4. [disk EXCEPT ![Patch.path] = ApplyUnifiedDiff(held, Patch.diff)] \in [Path -> Seq(LfLine) \cup {Absent}]
    BY <1>0, <2>3
  <2>5. <<>> \in Seq(LfLine)
    OBVIOUS
  <2> QED
    BY <1>0, <1>1, <1>6, <2>1, <2>4, <2>5 DEF Write, ApplierInv
<1>7. CASE Stop
  <2>1. <<>> \in Seq(LfLine)
    OBVIOUS
  <2> QED
    BY <1>0, <1>1, <1>7, <2>1 DEF Stop, ApplierInv
<1>8. ASSUME NEW p \in Path, NEW file \in Content \cup {Absent}, Edit(p, file) PROVE ApplierInv'
  <2>1. edits + 1 \in 0..MaxEdits
    BY <1>0, <1>8 DEF Edit
  <2>2. file \in Seq(LfLine) \cup {Absent}
    BY ContentIsFile
  <2>3. [disk EXCEPT ![p] = file] \in [Path -> Seq(LfLine) \cup {Absent}]
    BY <1>0, <2>2
  <2>4. edited \cup {p} \subseteq Path
    BY <1>0
  <2>5. phase = "write" => Holding'
    <3> SUFFICES ASSUME phase = "write" PROVE Holding'
      OBVIOUS
    <3>1. Holding
      BY <1>0
    <3>2. Patch' = Patch /\ Patch.path \in Path
      <4>1. next \in 1..Len(patches)
        BY <1>0, <3>1 DEF Holding
      <4> QED
        BY <1>1, <1>8, <4>1 DEF Edit, Patch
    <3>3. raced' = (raced \/ p = Patch.path) /\ held' = held /\ next' = next /\ patches' = patches
          /\ edited' = edited \cup {p} /\ disk' = [disk EXCEPT ![p] = file]
      BY <1>8 DEF Edit
    <3>4. ~raced' => ~raced /\ disk'[Patch.path] = disk[Patch.path]
      BY <1>0, <3>2, <3>3
    <3>5. ~raced' => held' = TextOf(disk'[Patch.path])
      BY <3>1, <3>3, <3>4 DEF Holding
    <3>6. raced' => Patch.path \in edited'
      BY <3>1, <3>3 DEF Holding
    <3> QED
      BY <3>1, <3>2, <3>3, <3>5, <3>6 DEF Holding, TextOf
  <2>6. raced' \in BOOLEAN
    BY <1>0, <1>8 DEF Edit
  <2> QED
    BY <1>0, <1>1, <1>8, <2>1, <2>3, <2>4, <2>5, <2>6 DEF Edit, ApplierInv
<1>9. CASE UNCHANGED patchVars
  <2>1. phase = "write" => Holding'
    BY <1>0, <1>9 DEF patchVars, Holding, Patch, TextOf
  <2> QED
    BY <1>0, <1>1, <1>9, <2>1 DEF patchVars, ApplierInv
<1> QED
  BY <1>2, <1>3, <1>4, <1>5, <1>6, <1>7, <1>8, <1>9 DEF PatchNext

\* and in every state after that, whoever edits and however often it runs.
LEMMA ApplierInvHolds == PatchSpec => []ApplierInv
<1>1. ApplierInv /\ [PatchNext]_patchVars => ApplierInv'
  BY ApplierInvStep
<1> QED
  BY <1>1, ApplierInvInit, PTL DEF PatchSpec
\* What a write leaves on the disk.
LEMMA WriteGives ==
  ASSUME ApplierInv, Write
  PROVE  /\ next \in 1..Len(patches) /\ Patch.path \in Path
         /\ \A q \in Path : q # Patch.path => disk'[q] = disk[q]
         /\ Patch.path \notin edited /\ disk[Patch.path] = base[Patch.path]
              => disk'[Patch.path] = Wanted(next)
         /\ Patch.path \notin edited /\ Repeatable(next) /\ disk[Patch.path] \in {base[Patch.path], Wanted(next)}
              => disk'[Patch.path] = Wanted(next)
         /\ ~raced => KeepsEditsElsewhere(Patch.diff, TextOf(ChangeOf(next).previousContent), Wanted(next),
                                          TextOf(disk[Patch.path]), disk'[Patch.path])
<1>0. /\ Plan /\ disk \in [Path -> Seq(LfLine) \cup {Absent}] /\ held \in Seq(LfLine)
      /\ next \in 1..(Len(patches) + 1) /\ Len(patches) \in Nat /\ Holding
  BY DEF ApplierInv, Plan, Write
<1>1. next \in 1..Len(patches)
  BY <1>0 DEF Holding
<1>2. PICK c \in Range(changes) : PatchMade(next, c)
  BY <1>0, <1>1 DEF Plan
<1>3. PICK n \in 1..Len(patches) : n = next /\ patches[n] = Patch /\ PatchMade(n, c)
  BY <1>1, <1>2 DEF Patch
<1>4. PICK a : a = TextOf(c.previousContent)
  OBVIOUS
<1>5. PICK b : b = TextOf(c.nextContent)
  OBVIOUS
<1>6. PICK diff : diff = patches[n].diff
  OBVIOUS
<1>7. /\ a \in Seq(LfLine) /\ b \in Seq(LfLine)
      /\ ApplyUnifiedDiff(a, diff) = b
      /\ (\A k \in DOMAIN diff : diff[k].oldLen = diff[k].newLen) => ApplyUnifiedDiff(b, diff) = b
      /\ KeepsEditsElsewhere(diff, a, b, held, ApplyUnifiedDiff(held, diff))
  <2>0. Plan /\ PatchMade(n, c)
    BY <1>0, <1>3
  <2>1. /\ a \in Seq(LfLine) /\ b \in Seq(LfLine)
        /\ ApplyUnifiedDiff(a, diff) = b
    BY <2>0, <1>4, <1>5, <1>6, PatchWorks
  <2>2. (\A k \in DOMAIN diff : diff[k].oldLen = diff[k].newLen) => ApplyUnifiedDiff(b, diff) = b
    BY <2>0, <1>4, <1>5, <1>6, PatchWorks
  <2>3. \A f \in Seq(LfLine) : KeepsEditsElsewhere(diff, a, b, f, ApplyUnifiedDiff(f, diff))
    BY <2>0, <1>4, <1>5, <1>6, PatchWorks
  <2> QED
    BY <1>0, <2>1, <2>2, <2>3
<1>8. /\ Patch.path = c.path /\ c.path \in Path /\ Patch.operation = c.operation /\ ChangeOf(n) = c
      /\ c.operation \in {"create", "update"}
      /\ c.operation = "create" => c.previousContent = Absent
      /\ c.operation = "update" => c.previousContent = base[c.path]
      /\ c.nextContent \in Content
  <2>1. Patch.operation # "delete"
    BY <1>0 DEF Holding
  <2> QED
    BY <1>3, <2>1 DEF PatchMade, Asks
<1>9. b = c.nextContent /\ Wanted(next) = b
  BY <1>3, <1>5, <1>8, ContentIsFile DEF Wanted
<1>10. /\ disk'[Patch.path] = ApplyUnifiedDiff(held, diff)
       /\ \A q \in Path : q # Patch.path => disk'[q] = disk[q]
  BY <1>0, <1>3, <1>6, <1>8 DEF Write
<1>11. Patch.path \notin edited => held = TextOf(disk[Patch.path]) /\ ~raced
  BY <1>0 DEF Holding
<1>12. c.operation = "create" => held = a
  BY <1>0, <1>4, <1>8, ContentIsFile DEF Holding
<1>13. c.operation = "update" /\ Patch.path \notin edited /\ disk[Patch.path] = base[Patch.path] => held = a
  BY <1>4, <1>8, <1>11
<1>14. Patch.path \notin edited /\ disk[Patch.path] = base[Patch.path] => disk'[Patch.path] = Wanted(next)
  BY <1>7, <1>8, <1>9, <1>10, <1>12, <1>13
<1>15. Patch.path \notin edited /\ disk[Patch.path] = Wanted(next) => held = b
  BY <1>8, <1>9, <1>11, ContentIsFile
<1>16. c.operation = "update" /\ Repeatable(next) => \A k \in DOMAIN diff : diff[k].oldLen = diff[k].newLen
  BY <1>3, <1>6, <1>8 DEF Repeatable
<1>17. ASSUME Patch.path \notin edited, Repeatable(next), disk[Patch.path] \in {base[Patch.path], Wanted(next)}
       PROVE  disk'[Patch.path] = Wanted(next)
  <2>1. CASE c.operation = "create"
    BY <1>7, <1>9, <1>10, <1>12, <2>1
  <2>2. CASE c.operation = "update" /\ disk[Patch.path] = base[Patch.path]
    BY <1>14, <1>17, <2>2
  <2>3. CASE c.operation = "update" /\ disk[Patch.path] = Wanted(next)
    BY <1>7, <1>9, <1>10, <1>15, <1>16, <1>17, <2>3
  <2> QED
    BY <1>8, <1>17, <2>1, <2>2, <2>3
<1>18. ~raced => KeepsEditsElsewhere(Patch.diff, TextOf(ChangeOf(next).previousContent), Wanted(next),
                                     TextOf(disk[Patch.path]), disk'[Patch.path])
  <2>1. ~raced => held = TextOf(disk[Patch.path])
    BY <1>0 DEF Holding
  <2> QED
    BY <1>3, <1>4, <1>6, <1>7, <1>8, <1>9, <1>10, <2>1
<1> QED
  BY <1>1, <1>8, <1>10, <1>14, <1>17, <1>18

\* A deletion leaves what its change asks for.
LEMMA DeleteGives ==
  ASSUME ApplierInv, Delete
  PROVE  /\ next \in 1..Len(patches) /\ Patch.path \in Path
         /\ \A q \in Path : q # Patch.path => disk'[q] = disk[q]
         /\ disk'[Patch.path] = Wanted(next)
<1>0. /\ Plan /\ disk \in [Path -> Seq(LfLine) \cup {Absent}]
      /\ next \in 1..(Len(patches) + 1) /\ Len(patches) \in Nat
  BY DEF ApplierInv, Plan
<1>1. next \in 1..Len(patches) /\ Patch.operation = "delete" /\ disk' = [disk EXCEPT ![Patch.path] = Absent]
  BY <1>0 DEF Delete
<1>2. PICK c \in Range(changes) : PatchMade(next, c)
  BY <1>0, <1>1 DEF Plan
<1>3. /\ Patch.path = c.path /\ c.path \in Path /\ ChangeOf(next) = c /\ c.nextContent = Absent
  BY <1>1, <1>2 DEF PatchMade, Asks, Patch
<1> QED
  BY <1>0, <1>1, <1>3 DEF Wanted

\* Every edit of a file is remembered, and leaves the others alone.
LEMMA EditLeaves ==
  ASSUME ApplierInv, NEW p \in Path, NEW file, Edit(p, file)
  PROVE  \A q \in Path : q \notin edited' => q \notin edited /\ disk'[q] = disk[q]
BY DEF Edit, ApplierInv
\* The hunks of every patch are well-formed records.
LEMMA BodyIsHunks ==
  ASSUME NEW T, NEW E, NEW script \in Seq(Ops(Lines(T, E))), NEW c \in Nat
  PROVE  Body(script, c) \in Seq(HunkRecords(T))
<1>1. PICK K \in Nat : Body(script, c) \in [1..K -> {Hunk(s, script, c) : s \in Starts(script, c)}]
  BY Layout
<1>2. \A s \in Starts(script, c) : Hunk(s, script, c) \in HunkRecords(T)
  BY HunkIsRecord
<1>3. PICK R : R = HunkRecords(T)
  OBVIOUS
<1>4. {Hunk(s, script, c) : s \in Starts(script, c)} \subseteq R
  BY <1>2, <1>3
<1>5. Body(script, c) \in [1..K -> R]
  BY <1>1, <1>4
<1>6. Body(script, c) \in Seq(R)
  BY <1>5
<1> QED
  BY <1>3, <1>6

\* The applier's variables stay in their types and the files it leaves are files.
LEMMA ApplierTyped == ApplierInv => PatchTypeOK
<1> SUFFICES ASSUME ApplierInv PROVE PatchTypeOK
  OBVIOUS
<1>0. /\ Plan /\ disk \in [Path -> Seq(LfLine) \cup {Absent}] /\ held \in Seq(LfLine)
      /\ DOMAIN patches = 1..Len(patches)
  BY DEF ApplierInv, Plan
<1>1. \A f \in Seq(LfLine) : WellSplit(f)
  BY LfWellSplit DEF LfLine
<1>2. \A p \in DOMAIN disk : disk[p] = Absent \/ WellSplit(disk[p])
  BY <1>0, <1>1
<1>3. ASSUME NEW n \in DOMAIN patches
      PROVE  /\ patches[n].path \in Path /\ patches[n].operation \in Operation
             /\ patches[n].diff \in Hunks
  <2>1. n \in 1..Len(patches)
    BY <1>0
  <2>2. PICK c \in Range(changes) : PatchMade(n, c)
    BY <1>0, <2>1 DEF Plan
  <2>3. patches[n].path \in Path /\ patches[n].operation \in Operation
    BY <2>2 DEF PatchMade, Asks, Operation
  <2>4. PICK a : a = TextOf(c.previousContent)
    OBVIOUS
  <2>5. PICK b : b = TextOf(c.nextContent)
    OBVIOUS
  <2>6. a \in Seq(LfLine) /\ b \in Seq(LfLine) /\ patches[n].diff = Body(DiffLines(a, b), Context)
    <3>1. PICK diff : diff = patches[n].diff
      OBVIOUS
    <3>2. a \in Seq(LfLine) /\ b \in Seq(LfLine) /\ diff = Body(DiffLines(a, b), Context)
      BY <1>0, <2>1, <2>2, <2>4, <2>5, <3>1, PatchWorks
    <3> QED
      BY <3>1, <3>2
  <2>7. PICK script : script = DiffLines(a, b)
    OBVIOUS
  <2>8. script \in Seq(Ops(Lines(LineTexts, {"lf"})))
    <3>1. a \in Seq(Lines(LineTexts, {"lf"})) /\ b \in Seq(Lines(LineTexts, {"lf"}))
      BY <2>6 DEF LfLine
    <3>2. Script(script, a, b, LineTexts, {"lf"})
      BY <2>7, <3>1, ScriptOfDiff
    <3> QED
      BY <3>2 DEF Script
  <2>9. Body(script, Context) \in Seq(HunkRecords(LineTexts))
    BY <2>8, BodyIsHunks, ApplierAssumption
  <2>10. Hunks = Seq(HunkRecords(LineTexts))
    BY DEF Hunks, HunkRecords, OpType
  <2> QED
    BY <2>3, <2>6, <2>7, <2>9, <2>10
<1> QED
  BY <1>0, <1>1, <1>2, <1>3 DEF PatchTypeOK, ApplierInv

\* On its first run the applier has done the patches before the current one, and no other.
AppliedSoFar ==
  runs <= 1 =>
    \A n \in DOMAIN patches :
      patches[n].path \notin edited =>
        disk[patches[n].path] = IF n < next THEN Wanted(n) ELSE base[patches[n].path]

\* Before its first run the applier has done nothing,
LEMMA AppliedSoFarInit == PatchInit => AppliedSoFar
<1> SUFFICES ASSUME PatchInit, NEW n \in DOMAIN patches
             PROVE  disk[patches[n].path] = IF n < next THEN Wanted(n) ELSE base[patches[n].path]
  BY DEF AppliedSoFar
<1>1. n \in 1..Len(patches) /\ Len(patches) \in Nat
  BY PlanMade DEF Plan
<1>2. ~(n < next) /\ disk = base
  BY <1>1 DEF PatchInit
<1> QED
  BY <1>2

\* and each of its steps, and of others, leaves it with exactly the patches before the
\* current one done.
LEMMA AppliedSoFarStep ==
  ASSUME ApplierInv, AppliedSoFar, [PatchNext]_patchVars
  PROVE  AppliedSoFar'
<1>0. /\ Plan /\ next \in 1..(Len(patches) + 1) /\ Len(patches) \in Nat /\ next \in Nat
      /\ DOMAIN patches = 1..Len(patches)
      /\ runs \in Nat /\ (runs = 0 => phase = "idle" /\ next = 1)
      /\ \A m, n \in 1..Len(patches) : patches[m].path = patches[n].path => m = n
      /\ disk \in [Path -> Seq(LfLine) \cup {Absent}]
  BY ApplierAssumption DEF ApplierInv, Plan
<1>1. \A n \in 1..Len(patches) : patches[n].path \in Path
  <2>1. \A n \in 1..Len(patches) : \E c \in Range(changes) : PatchMade(n, c)
    BY <1>0 DEF Plan
  <2> QED
    BY <2>1 DEF PatchMade, Asks
<1>2. UNCHANGED <<base, changes, patches>>
  BY DEF PatchNext, patchVars, ApplyAll, Finish, Delete, Read, Write, Stop, Edit
<1>3. \A n : Wanted(n)' = Wanted(n)
  BY <1>0, <1>2, PlanStays
<1> SUFFICES ASSUME runs' <= 1, NEW n \in 1..Len(patches), patches[n].path \notin edited'
             PROVE  disk'[patches[n].path] = IF n < next' THEN Wanted(n) ELSE base[patches[n].path]
  BY <1>0, <1>2, <1>3 DEF AppliedSoFar
<1> DEFINE q == patches[n].path
<1>4. q \in Path
  BY <1>1
<1>5. runs <= 1 /\ q \notin edited => disk[q] = IF n < next THEN Wanted(n) ELSE base[q]
  BY <1>0 DEF AppliedSoFar
<1>6. CASE ApplyAll
  <2>1. runs' = runs + 1 /\ next' = 1 /\ disk' = disk /\ edited' = edited
    BY <1>6 DEF ApplyAll
  <2>2. runs = 0 /\ next = 1
    BY <1>0, <2>1
  <2> QED
    BY <1>5, <2>1, <2>2
<1>7. CASE Finish \/ Read \/ Stop \/ UNCHANGED patchVars
  <2>1. runs' = runs /\ next' = next /\ disk' = disk /\ edited' = edited
    BY <1>7 DEF Finish, Read, Stop, patchVars
  <2> QED
    BY <1>5, <2>1
<1>8. CASE Write \/ Delete
  <2>1. runs' = runs /\ next' = next + 1 /\ edited' = edited
    BY <1>8 DEF Write, Delete
  <2>2. disk[q] = IF n < next THEN Wanted(n) ELSE base[q]
    BY <1>5, <2>1
  <2>3. /\ next \in 1..Len(patches) /\ \A p \in Path : p # Patch.path => disk'[p] = disk[p]
        /\ Patch.path \notin edited /\ disk[Patch.path] = base[Patch.path] => disk'[Patch.path] = Wanted(next)
    <3>1. CASE Write
      BY <3>1, WriteGives
    <3>2. CASE Delete
      BY <3>2, DeleteGives
    <3> QED
      BY <1>8, <3>1, <3>2
  <2>4. CASE n = next
    <3>1. q = Patch.path
      BY <2>4 DEF Patch
    <3>2. disk[q] = base[q]
      BY <1>0, <2>2, <2>4
    <3>3. disk'[q] = Wanted(n)
      BY <2>1, <2>3, <2>4, <3>1, <3>2
    <3>4. n < next'
      BY <1>0, <2>1, <2>4
    <3> QED
      BY <3>3, <3>4
  <2>5. CASE n # next
    <3>1. q # Patch.path
      BY <1>0, <2>3, <2>5 DEF Patch
    <3>2. disk'[q] = disk[q]
      BY <1>4, <2>3, <3>1
    <3>3. n < next' <=> n < next
      BY <1>0, <2>1, <2>5
    <3> QED
      BY <2>2, <3>2, <3>3
  <2> QED
    BY <2>4, <2>5
<1>9. ASSUME NEW p \in Path, NEW file, Edit(p, file)
      PROVE  disk'[q] = IF n < next' THEN Wanted(n) ELSE base[q]
  <2>1. runs' = runs /\ next' = next
    BY <1>9 DEF Edit
  <2>2. q \notin edited /\ disk'[q] = disk[q]
    BY <1>4, <1>9, EditLeaves
  <2> QED
    BY <1>5, <2>1, <2>2
<1> QED
  BY <1>6, <1>7, <1>8, <1>9 DEF PatchNext

\* On its first run, however it ends and whoever edits other files, the applier has done
\* exactly the patches before the current one, each completely; for patches of any length.
THEOREM AppliedUpToNextHolds == PatchSpec => []AppliedUpToNext
<1>1. ApplierInv /\ AppliedSoFar /\ [PatchNext]_patchVars => AppliedSoFar'
  BY AppliedSoFarStep
<1>2. ApplierInv /\ AppliedSoFar => AppliedUpToNext
  BY ApplierTyped DEF AppliedUpToNext, AppliedSoFar
<1>3. ApplierInv /\ [PatchNext]_patchVars => ApplierInv'
  BY ApplierInvStep
<1> QED
  BY <1>1, <1>2, <1>3, ApplierInvInit, AppliedSoFarInit, PTL DEF PatchSpec

\* Before any run every file is as it was,
LEMMA RunAgainInit == PatchInit => RunAgainConverges
<1> SUFFICES ASSUME PatchInit, NEW n \in DOMAIN patches
             PROVE  /\ disk[patches[n].path] \in {base[patches[n].path], Wanted(n)}
                    /\ n < next => disk[patches[n].path] = Wanted(n)
  BY DEF RunAgainConverges
<1>1. n \in 1..Len(patches) /\ Len(patches) \in Nat
  BY PlanMade DEF Plan
<1>2. ~(n < next) /\ disk = base
  BY <1>1 DEF PatchInit
<1> QED
  BY <1>2

\* and no step of a first run or a later one makes a mixture of the old and the new file.
LEMMA RunAgainStep ==
  ASSUME ApplierInv, RunAgainConverges, [PatchNext]_patchVars
  PROVE  RunAgainConverges'
<1>0. /\ Plan /\ next \in 1..(Len(patches) + 1) /\ Len(patches) \in Nat /\ next \in Nat
      /\ DOMAIN patches = 1..Len(patches)
      /\ \A m, n \in 1..Len(patches) : patches[m].path = patches[n].path => m = n
  BY DEF ApplierInv, Plan
<1>1. \A n \in 1..Len(patches) : patches[n].path \in Path
  <2>1. \A n \in 1..Len(patches) : \E c \in Range(changes) : PatchMade(n, c)
    BY <1>0 DEF Plan
  <2> QED
    BY <2>1 DEF PatchMade, Asks
<1>2. UNCHANGED <<base, changes, patches>>
  BY DEF PatchNext, patchVars, ApplyAll, Finish, Delete, Read, Write, Stop, Edit
<1>3. \A n : Wanted(n)' = Wanted(n) /\ Repeatable(n)' = Repeatable(n)
  BY <1>0, <1>2, PlanStays
<1> SUFFICES ASSUME NEW n \in 1..Len(patches), patches[n].path \notin edited', Repeatable(n)
             PROVE  /\ disk'[patches[n].path] \in {base[patches[n].path], Wanted(n)}
                    /\ n < next' => disk'[patches[n].path] = Wanted(n)
  BY <1>0, <1>2, <1>3 DEF RunAgainConverges
<1> DEFINE q == patches[n].path
<1>4. q \in Path
  BY <1>1
<1>5. q \notin edited => /\ disk[q] \in {base[q], Wanted(n)}
                         /\ n < next => disk[q] = Wanted(n)
  BY <1>0 DEF RunAgainConverges
<1>6. CASE ApplyAll
  <2>1. next' = 1 /\ disk' = disk /\ edited' = edited
    BY <1>6 DEF ApplyAll
  <2>2. ~(n < 1)
    BY <1>0
  <2> QED
    BY <1>5, <2>1, <2>2
<1>7. CASE Finish \/ Read \/ Stop \/ UNCHANGED patchVars
  <2>1. next' = next /\ disk' = disk /\ edited' = edited
    BY <1>7 DEF Finish, Read, Stop, patchVars
  <2> QED
    BY <1>5, <2>1
<1>8. CASE Write \/ Delete
  <2>1. next' = next + 1 /\ edited' = edited
    BY <1>8 DEF Write, Delete
  <2>2. disk[q] \in {base[q], Wanted(n)} /\ (n < next => disk[q] = Wanted(n))
    BY <1>5, <2>1
  <2>3. /\ next \in 1..Len(patches) /\ \A p \in Path : p # Patch.path => disk'[p] = disk[p]
        /\ Patch.path \notin edited /\ Repeatable(next) /\ disk[Patch.path] \in {base[Patch.path], Wanted(next)}
             => disk'[Patch.path] = Wanted(next)
    <3>1. CASE Write
      BY <3>1, WriteGives
    <3>2. CASE Delete
      BY <3>2, DeleteGives
    <3> QED
      BY <1>8, <3>1, <3>2
  <2>4. CASE n = next
    <3>1. q = Patch.path
      BY <2>4 DEF Patch
    <3>2. disk'[q] = Wanted(n)
      BY <2>1, <2>2, <2>3, <2>4, <3>1
    <3> QED
      BY <3>2
  <2>5. CASE n # next
    <3>1. q # Patch.path
      BY <1>0, <2>3, <2>5 DEF Patch
    <3>2. disk'[q] = disk[q]
      BY <1>4, <2>3, <3>1
    <3>3. n < next' <=> n < next
      BY <1>0, <2>1, <2>5
    <3> QED
      BY <2>2, <3>2, <3>3
  <2> QED
    BY <2>4, <2>5
<1>9. ASSUME NEW p \in Path, NEW file, Edit(p, file)
      PROVE  disk'[q] \in {base[q], Wanted(n)} /\ (n < next' => disk'[q] = Wanted(n))
  <2>1. next' = next
    BY <1>9 DEF Edit
  <2>2. q \notin edited /\ disk'[q] = disk[q]
    BY <1>4, <1>9, EditLeaves
  <2> QED
    BY <1>5, <2>1, <2>2
<1> QED
  BY <1>6, <1>7, <1>8, <1>9 DEF PatchNext

\* However often the same patches are applied again, a file that nobody else edits and
\* whose hunks add as many lines as they remove is the old one or the wanted one.
THEOREM RunAgainConvergesHolds == PatchSpec => []RunAgainConverges
<1>1. ApplierInv /\ RunAgainConverges /\ [PatchNext]_patchVars => RunAgainConverges'
  BY RunAgainStep
<1>2. ApplierInv /\ [PatchNext]_patchVars => ApplierInv'
  BY ApplierInvStep
<1> QED
  BY <1>1, <1>2, ApplierInvInit, RunAgainInit, PTL DEF PatchSpec

\* What somebody else changed outside the hunks before the file was read survives the patch.
THEOREM EditsElsewhereSurviveHolds == PatchSpec => EditsElsewhereSurvive
<1>1. ApplierInv /\ [PatchNext]_patchVars
        => [Write /\ ~raced =>
              KeepsEditsElsewhere(Patch.diff, TextOf(ChangeOf(next).previousContent),
                                  Wanted(next), TextOf(disk[Patch.path]), disk'[Patch.path])]_patchVars
  BY WriteGives
<1>2. ApplierInv /\ [PatchNext]_patchVars => ApplierInv'
  BY ApplierInvStep
<1> QED
  BY <1>1, <1>2, ApplierInvInit, PTL DEF PatchSpec, EditsElsewhereSurvive

=============================================================================
