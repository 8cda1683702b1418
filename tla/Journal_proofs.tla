---------------------------- MODULE Journal_proofs ----------------------------
(***************************************************************************)
(* Proofs about Journal, for any number of backups, any size of a file,    *)
(* any tails and any number of rows.                                       *)
(*                                                                         *)
(* The rows of the journal and what a reader collects are both defined by  *)
(* recursion over the files.  The rows of the newest files up to one, seen *)
(* as a function of that one, connect the two, and every step changes that *)
(* function in one place: at the end of all of its values, or nowhere, or  *)
(* in its last value only.                                                 *)
(***************************************************************************)
EXTENDS Journal, FiniteSetTheorems, SequenceTheorems, WellFoundedInduction, TLAPS

-----------------------------------------------------------------------------
(* Natural numbers.                                                        *)

\* Of finitely many sets, one has none of the others inside it.
LEMMA SmallestSet ==
    ASSUME NEW S, IsFiniteSet(S), NEW T, T \subseteq SUBSET S, T # {}
    PROVE  \E x \in T : \A y \in T : ~(y \subseteq x /\ y # x)
<1>1. T \subseteq FiniteSubsetsOf(S)
  BY FS_Subset DEF FiniteSubsetsOf
<1>2. \E x \in T : \A y \in T : ~(<<y, x>> \in StrictSubsetOrdering(S))
  BY <1>1, FS_StrictSubsetOrderingWellFounded, WFMin
<1>3. \A x, y \in SUBSET S : <<y, x>> \in StrictSubsetOrdering(S) <=> y \subseteq x /\ x # y
  BY DEF StrictSubsetOrdering
<1> QED BY <1>2, <1>3

\* A set of natural numbers has a least element.
LEMMA Least ==
    ASSUME NEW T, T \subseteq Nat, T # {}
    PROVE  \E n \in T : \A m \in T : n <= m
<1>1. PICK b \in T : TRUE
  OBVIOUS
<1> DEFINE Below == {0..n : n \in {m \in T : m <= b}}
<1>2. /\ Below \subseteq SUBSET (0..b)
      /\ Below # {}
      /\ IsFiniteSet(0..b)
  <2>1. Below \subseteq SUBSET (0..b)
    BY <1>1
  <2>2. 0..b \in Below
    BY <1>1
  <2>3. IsFiniteSet(0..b)
    BY <1>1, FS_Interval
  <2> QED BY <2>1, <2>2, <2>3
<1>3. \E x \in Below : \A y \in Below : ~(y \subseteq x /\ y # x)
  <2>1. PICK S : S = 0..b
    OBVIOUS
  <2>2. Below \subseteq SUBSET S /\ Below # {} /\ IsFiniteSet(S)
    <3> HIDE DEF Below
    <3> QED BY <1>2, <2>1
  <2> HIDE DEF Below
  <2> QED BY <2>2, SmallestSet
<1>4. PICK x \in Below : \A y \in Below : ~(y \subseteq x /\ y # x)
  BY <1>3
<1>5. PICK n \in T : n <= b /\ x = 0..n
  BY <1>4
<1>6. ASSUME NEW m \in T, m < n
      PROVE  FALSE
  <2>1. 0..m \in Below
    BY <1>1, <1>5, <1>6
  <2>2. 0..m \subseteq x /\ 0..m # x
    BY <1>5, <1>6
  <2> QED BY <1>4, <2>1, <2>2
<1> QED BY <1>5, <1>6

-----------------------------------------------------------------------------
(* The newest files.                                                       *)

\* g gives, for each of the files 0 to m of fs, the rows of the files up to it.
NewerRows(g, fs, m) ==
    g[0] = fs[0] /\ \A f \in 1..m : g[f] = fs[f] \o g[f - 1]

\* There is such a function.
LEMMA NewerRowsExist ==
    ASSUME NEW n \in Nat, NEW fs
    PROVE  \E g : NewerRows(g, fs, n)
<1> DEFINE Bad == {m \in 0..n : ~\E g : NewerRows(g, fs, m)}
<1> SUFFICES ASSUME n \in Bad PROVE FALSE
  OBVIOUS
<1>1. PICK m \in Bad : \A k \in Bad : m <= k
  <2>1. Bad \subseteq Nat /\ Bad # {}
    OBVIOUS
  <2> HIDE DEF Bad
  <2> QED BY <2>1, Least
<1>2. m \in 0..n /\ m \in Nat /\ ~\E g : NewerRows(g, fs, m)
  OBVIOUS
<1>3. CASE m = 0
  <2>1. NewerRows([f \in {0} |-> fs[0]], fs, m)
    BY <1>3 DEF NewerRows
  <2> QED BY <1>2, <2>1
<1>4. CASE m # 0
  <2>1. m - 1 \in 0..n /\ m - 1 \notin Bad
    BY <1>1, <1>2, <1>4
  <2>2. PICK h : NewerRows(h, fs, m - 1)
    BY <2>1
  <2> DEFINE new == fs[m] \o h[m - 1]
             g == [f \in 0..m |-> IF f = m THEN new ELSE h[f]]
  <2>3. ASSUME NEW f \in 1..m
        PROVE  g[f] = fs[f] \o g[f - 1]
    <3>1. f - 1 \in 0..m /\ f - 1 # m
      BY <1>2
    <3>2. g[f - 1] = h[f - 1]
      BY <3>1
    <3>3. CASE f = m
      BY <3>2, <3>3
    <3>4. CASE f # m
      <4>1. f \in 1..(m - 1)
        BY <1>2, <3>4
      <4>2. h[f] = fs[f] \o h[f - 1]
        BY <2>2, <4>1 DEF NewerRows
      <4>3. g[f] = h[f]
        BY <3>4, <4>1
      <4> QED BY <3>2, <4>2, <4>3
    <3> QED BY <3>3, <3>4
  <2>4. g[0] = fs[0]
    <3>1. 0 \in 0..m
      BY <1>2
    <3>2. h[0] = fs[0]
      BY <2>2 DEF NewerRows
    <3> QED BY <1>4, <3>1, <3>2
  <2>5. NewerRows(g, fs, m)
    <3> HIDE DEF g
    <3> QED BY <2>3, <2>4 DEF NewerRows
  <2> QED BY <1>2, <2>5
<1> QED BY <1>3, <1>4

\* Its values are sequences, and end with the rows of file 0.
LEMMA NewerRowsAreRows ==
    ASSUME NEW S, NEW m \in Nat, NEW fs \in [0..m -> Seq(S)], NEW g, NewerRows(g, fs, m)
    PROVE  \A f \in 0..m : g[f] \in Seq(S) /\ Len(g[f]) \in Nat /\ Len(fs[0]) <= Len(g[f])
<1> DEFINE Fine(f) == g[f] \in Seq(S) /\ Len(g[f]) \in Nat /\ Len(fs[0]) <= Len(g[f])
           Bad == {f \in 0..m : ~Fine(f)}
<1> SUFFICES ASSUME Bad # {} PROVE FALSE
  OBVIOUS
<1>1. PICK f \in Bad : \A k \in Bad : f <= k
  <2>1. Bad \subseteq Nat
    OBVIOUS
  <2> HIDE DEF Bad
  <2> QED BY <2>1, Least
<1>2. f \in 0..m /\ ~Fine(f)
  OBVIOUS
<1>3. \A k \in 0..m : fs[k] \in Seq(S) /\ Len(fs[k]) \in Nat
  BY LenProperties
<1>4. CASE f = 0
  <2>1. 0 \in 0..m
    OBVIOUS
  <2>2. g[0] = fs[0]
    BY DEF NewerRows
  <2> QED BY <1>2, <1>3, <1>4, <2>1, <2>2
<1>5. CASE f # 0
  <2>1. f \in 1..m /\ f - 1 \in 0..m /\ f - 1 < f
    BY <1>2, <1>5
  <2>2. Fine(f - 1)
    <3>1. f - 1 \notin Bad
      <4> HIDE DEF Bad
      <4> QED BY <1>1, <1>2, <2>1
    <3> QED BY <2>1, <3>1
  <2>3. g[f] = fs[f] \o g[f - 1]
    BY <2>1 DEF NewerRows
  <2>4. /\ fs[f] \in Seq(S) /\ Len(fs[f]) \in Nat
        /\ g[f - 1] \in Seq(S) /\ Len(g[f - 1]) \in Nat /\ Len(fs[0]) <= Len(g[f - 1])
        /\ Len(fs[0]) \in Nat
    BY <1>2, <1>3, <2>2
  <2>5. g[f] \in Seq(S) /\ Len(g[f]) = Len(fs[f]) + Len(g[f - 1])
    BY <2>3, <2>4, ConcatProperties
  <2>6. Fine(f)
    BY <2>4, <2>5
  <2> QED BY <1>2, <2>6
<1> QED BY <1>4, <1>5

\* The files up to m are the same.
SameFiles(gs, fs, m) == \A f \in 0..m : gs[f] = fs[f]

\* The rows are determined by the files.
LEMMA NewerRowsAgree ==
    ASSUME NEW m \in Nat, NEW fs, NEW gs, NEW g, NEW h,
           NewerRows(g, fs, m), NewerRows(h, gs, m), SameFiles(gs, fs, m)
    PROVE  h[m] = g[m]
<1> DEFINE Bad == {f \in 0..m : h[f] # g[f]}
<1> SUFFICES ASSUME Bad # {} PROVE FALSE
  OBVIOUS
<1>0. \A f \in 0..m : gs[f] = fs[f]
  BY DEF SameFiles
<1>1. PICK f \in Bad : \A k \in Bad : f <= k
  <2>1. Bad \subseteq Nat
    OBVIOUS
  <2> HIDE DEF Bad
  <2> QED BY <2>1, Least
<1>2. f \in 0..m /\ h[f] # g[f]
  OBVIOUS
<1>3. f # 0
  BY <1>0, <1>2 DEF NewerRows
<1>4. f \in 1..m /\ f - 1 \in 0..m /\ f - 1 < f
  BY <1>2, <1>3
<1>5. h[f - 1] = g[f - 1]
  <2>1. f - 1 \notin Bad
    <3> HIDE DEF Bad
    <3> QED BY <1>1, <1>2, <1>4
  <2> QED BY <1>4, <2>1
<1>6. g[f] = fs[f] \o g[f - 1] /\ h[f] = gs[f] \o h[f - 1]
  BY <1>4 DEF NewerRows
<1> QED BY <1>0, <1>2, <1>5, <1>6

\* Of empty files there are no rows.
LEMMA NoRowsAtFirst ==
    ASSUME NEW m \in Nat, NEW fs, NEW g, NewerRows(g, fs, m), \A f \in 0..m : fs[f] = <<>>
    PROVE  \A f \in 0..m : g[f] = <<>>
<1> DEFINE Bad == {f \in 0..m : g[f] # <<>>}
<1> SUFFICES ASSUME Bad # {} PROVE FALSE
  OBVIOUS
<1>1. PICK f \in Bad : \A k \in Bad : f <= k
  <2>1. Bad \subseteq Nat
    OBVIOUS
  <2> HIDE DEF Bad
  <2> QED BY <2>1, Least
<1>2. f \in 0..m /\ g[f] # <<>>
  OBVIOUS
<1>3. f # 0
  <2>1. 0 \in 0..m
    OBVIOUS
  <2>2. g[0] = fs[0]
    BY DEF NewerRows
  <2> QED BY <1>2, <2>1, <2>2
<1>4. f \in 1..m /\ f - 1 \in 0..m /\ f - 1 < f
  BY <1>2, <1>3
<1>5. g[f - 1] = <<>>
  <2>1. f - 1 \notin Bad
    <3> HIDE DEF Bad
    <3> QED BY <1>1, <1>2, <1>4
  <2> QED BY <1>4, <2>1
<1>6. g[f] = fs[f] \o g[f - 1]
  <2> HIDE DEF Bad
  <2> QED BY <1>4 DEF NewerRows
<1>7. g[f] = <<>> \o <<>>
  BY <1>2, <1>5, <1>6
<1>8. <<>> \o <<>> = <<>>
  <2>1. <<>> \in Seq(Int)
    BY EmptySeq
  <2> QED BY <2>1, ConcatEmptySeq
<1> QED BY <1>2, <1>7, <1>8

\* What is added at the end of a second sequence is added at the end of both.
LEMMA AppendToConcat ==
    ASSUME NEW S, NEW s \in Seq(S), NEW t \in Seq(S), NEW x \in S
    PROVE  s \o Append(t, x) = Append(s \o t, x)
<1>1. PICK u \in Seq(S) : u = <<x>>
  <2>1. <<x>> \in Seq(S)
    OBVIOUS
  <2> QED BY <2>1
<1>2. s \o t \in Seq(S)
  BY ConcatProperties
<1>3. Append(t, x) = t \o u /\ Append(s \o t, x) = (s \o t) \o u
  BY <1>1, <1>2, AppendIsConcat
<1>4. (s \o t) \o u = s \o (t \o u)
  BY ConcatAssociative
<1> QED BY <1>3, <1>4

\* In gs, x was added to file 0 of fs.
RowAdded(gs, fs, x, m) == gs[0] = Append(fs[0], x) /\ \A f \in 1..m : gs[f] = fs[f]

\* t is s with x added at its end.
Extended(t, s, x) == t = Append(s, x)

\* A row added to file 0 is the last of all rows.
LEMMA RowAddedAtTheEnd ==
    ASSUME NEW S, NEW m \in Nat, NEW fs \in [0..m -> Seq(S)], NEW gs, NEW g, NEW h, NEW x \in S,
           NewerRows(g, fs, m), NewerRows(h, gs, m),
           RowAdded(gs, fs, x, m)
    PROVE  Extended(h[m], g[m], x)
<1> SUFFICES h[m] = Append(g[m], x)
  BY DEF Extended
<1>0. gs[0] = Append(fs[0], x) /\ \A f \in 1..m : gs[f] = fs[f]
  BY DEF RowAdded
<1> DEFINE Bad == {f \in 0..m : h[f] # Append(g[f], x)}
<1> SUFFICES ASSUME Bad # {} PROVE FALSE
  <2>1. m \in 0..m
    OBVIOUS
  <2> QED BY <2>1
<1>1. PICK f \in Bad : \A k \in Bad : f <= k
  <2>1. Bad \subseteq Nat
    OBVIOUS
  <2> HIDE DEF Bad
  <2> QED BY <2>1, Least
<1>2. f \in 0..m /\ h[f] # Append(g[f], x)
  OBVIOUS
<1>3. f # 0
  <2>1. g[0] = fs[0]
    BY DEF NewerRows
  <2>2. h[0] = gs[0]
    BY DEF NewerRows
  <2> QED BY <1>0, <1>2, <2>1, <2>2
<1>4. f \in 1..m /\ f - 1 \in 0..m /\ f - 1 < f
  BY <1>2, <1>3
<1>5. h[f - 1] = Append(g[f - 1], x)
  <2>1. f - 1 \notin Bad
    <3> HIDE DEF Bad
    <3> QED BY <1>1, <1>2, <1>4
  <2> QED BY <1>4, <2>1
<1>6. g[f] = fs[f] \o g[f - 1] /\ h[f] = gs[f] \o h[f - 1]
  <2>1. g[f] = fs[f] \o g[f - 1]
    BY <1>4 DEF NewerRows
  <2>2. h[f] = gs[f] \o h[f - 1]
    BY <1>4 DEF NewerRows
  <2> QED BY <2>1, <2>2
<1> PICK s : s = fs[f]
  OBVIOUS
<1> PICK t : t = g[f - 1]
  OBVIOUS
<1>7. s \in Seq(S) /\ t \in Seq(S)
  <2>1. t \in Seq(S)
    BY <1>4, NewerRowsAreRows
  <2> QED BY <1>4, <2>1
<1>8. s \o Append(t, x) = Append(s \o t, x)
  BY ONLY <1>7, x \in S, AppendToConcat
<1>9. g[f] = s \o t /\ h[f] = s \o Append(t, x)
  BY <1>0, <1>4, <1>5, <1>6
<1> QED BY <1>2, <1>8, <1>9

\* In gs, file k of fs was moved up by one, over what was there.
MovedUp(gs, fs, k, m) ==
    /\ k \in 0..(m - 1)
    /\ gs[k + 1] = fs[k] /\ gs[k] = <<>>
    /\ \A f \in 0..m : f # k /\ f # k + 1 => gs[f] = fs[f]

\* The rows up to a file that was moved stay.
LEMMA RowsMoveUp ==
    ASSUME NEW S, NEW m \in Nat, NEW fs \in [0..m -> Seq(S)], NEW gs, NEW g, NEW h,
           NewerRows(g, fs, m), NewerRows(h, gs, m), NEW k, MovedUp(gs, fs, k, m)
    PROVE  h[k + 1] = g[k]
<1>1. /\ k \in 0..(m - 1) /\ k + 1 \in 1..m /\ (k + 1) - 1 = k /\ k \in 0..m
      /\ gs[k + 1] = fs[k] /\ gs[k] = <<>>
  BY DEF MovedUp
<1>2. h[k + 1] = gs[k + 1] \o h[k]
  BY <1>1 DEF NewerRows
<1>3. fs[k] \in Seq(S)
  BY <1>1
<1>4. CASE k = 0
  <2>1. g[0] = fs[0] /\ h[0] = gs[0]
    BY DEF NewerRows
  <2>2. h[k + 1] = fs[k] \o <<>>
    BY <1>1, <1>2, <1>4, <2>1
  <2> QED BY <1>3, <1>4, <2>1, <2>2, ConcatEmptySeq
<1>5. CASE k # 0
  <2>1. k \in 1..m /\ k - 1 \in 0..m
    BY <1>1, <1>5
  <2>2. h[k - 1] = g[k - 1]
    <3> PICK n : n = k - 1
      OBVIOUS
    <3>1. n \in Nat /\ n \in 0..n /\ n <= m
      BY <2>1
    <3>2. NewerRows(g, fs, n) /\ NewerRows(h, gs, n)
      <4>1. \A f \in 1..n : f \in 1..m
        BY <3>1
      <4>2. NewerRows(g, fs, n)
        BY ONLY NewerRows(g, fs, m), <4>1, Zenon DEF NewerRows
      <4>3. NewerRows(h, gs, n)
        BY ONLY NewerRows(h, gs, m), <4>1, Zenon DEF NewerRows
      <4> QED BY <4>2, <4>3
    <3>3. SameFiles(gs, fs, n)
      BY <1>1, <3>1 DEF MovedUp, SameFiles
    <3>4. h[n] = g[n]
      BY ONLY <3>1, <3>2, <3>3, NewerRowsAgree
    <3> QED BY <3>4
  <2>3. g[k] = fs[k] \o g[k - 1] /\ h[k] = gs[k] \o h[k - 1]
    BY <2>1 DEF NewerRows
  <2>4. g[k - 1] \in Seq(S)
    BY <2>1, NewerRowsAreRows
  <2>5. <<>> \o g[k - 1] = g[k - 1]
    BY <2>4, ConcatEmptySeq
  <2> QED BY <1>1, <1>2, <2>2, <2>3, <2>5
<1> QED BY <1>4, <1>5

\* In gs, file k of fs was moved up into an empty one.
MovedIntoGap(gs, fs, k, m) == MovedUp(gs, fs, k, m) /\ fs[k + 1] = <<>>

\* A file moved into an empty one changes nothing for the older ones.
LEMMA MoveIntoGapKeepsRows ==
    ASSUME NEW S, NEW m \in Nat, NEW fs \in [0..m -> Seq(S)], NEW gs, NEW g, NEW h,
           NewerRows(g, fs, m), NewerRows(h, gs, m), NEW k, MovedIntoGap(gs, fs, k, m)
    PROVE  h[m] = g[m]
<1>0. /\ k \in 0..(m - 1) /\ h[k + 1] = g[k] /\ fs[k + 1] = <<>>
      /\ \A f \in 0..m : f # k /\ f # k + 1 => gs[f] = fs[f]
  <2>1. MovedUp(gs, fs, k, m) /\ fs[k + 1] = <<>>
    BY DEF MovedIntoGap
  <2>2. h[k + 1] = g[k]
    BY <2>1, RowsMoveUp
  <2> QED BY <2>1, <2>2 DEF MovedUp
<1> DEFINE Bad == {f \in 0..m : f > k /\ h[f] # g[f]}
<1>1. m \notin Bad => h[m] = g[m]
  BY <1>0
<1> SUFFICES ASSUME Bad # {} PROVE FALSE
  BY <1>1
<1>2. PICK f \in Bad : \A n \in Bad : f <= n
  <2>1. Bad \subseteq Nat
    OBVIOUS
  <2> HIDE DEF Bad
  <2> QED BY <2>1, Least
<1>3. f \in 0..m /\ f > k /\ h[f] # g[f]
  OBVIOUS
<1>4. f \in 1..m /\ f - 1 \in 0..m /\ f - 1 < f
  BY <1>0, <1>3
<1>5. g[f] = fs[f] \o g[f - 1] /\ h[f] = gs[f] \o h[f - 1]
  BY <1>4 DEF NewerRows
<1>6. CASE f = k + 1
  <2>1. f - 1 = k
    BY <1>0, <1>6
  <2>2. g[k] \in Seq(S)
    <3>1. k \in 0..m
      BY <1>0
    <3> QED BY <3>1, NewerRowsAreRows
  <2>3. g[f] = <<>> \o g[k]
    BY <1>0, <1>5, <1>6, <2>1
  <2>4. g[f] = g[k]
    BY <2>2, <2>3, ConcatEmptySeq
  <2> QED BY <1>0, <1>3, <1>6, <2>4
<1>7. CASE f # k + 1
  <2>1. f - 1 > k
    BY <1>0, <1>3, <1>7
  <2>2. f - 1 \notin Bad
    <3>1. ~(f <= f - 1)
      BY <1>4
    <3> HIDE DEF Bad
    <3> QED BY <1>2, <3>1
  <2>3. h[f - 1] = g[f - 1]
    BY <1>4, <2>1, <2>2
  <2>4. gs[f] = fs[f]
    BY <1>0, <1>3, <1>7
  <2> QED BY <1>3, <1>5, <2>3, <2>4
<1> QED BY <1>6, <1>7
-----------------------------------------------------------------------------
(* Rows.                                                                   *)

\* f gives, for each of the first n sequences of s, all up to it in one.
Flattens(f, s, n) ==
    f = [i \in 1..n |-> IF i = 1 THEN s[i] ELSE f[i - 1] \o s[i]]

\* There is such a function.
LEMMA FlatteningExists ==
    ASSUME NEW n \in Nat, NEW s
    PROVE  \E f : Flattens(f, s, n)
<1> DEFINE Bad == {m \in 0..n : ~\E f : Flattens(f, s, m)}
<1> SUFFICES ASSUME n \in Bad PROVE FALSE
  OBVIOUS
<1>1. PICK m \in Bad : \A k \in Bad : m <= k
  <2>1. Bad \subseteq Nat /\ Bad # {}
    OBVIOUS
  <2> HIDE DEF Bad
  <2> QED BY <2>1, Least
<1>2. m \in 0..n /\ m \in Nat /\ ~\E f : Flattens(f, s, m)
  OBVIOUS
<1>3. CASE m = 0
  <2> DEFINE e == [i \in 1..0 |-> {}]
  <2>1. \A i \in 1..0 : FALSE
    OBVIOUS
  <2>2. e = [i \in 1..0 |-> IF i = 1 THEN s[i] ELSE e[i - 1] \o s[i]]
    <3> HIDE DEF e
    <3>1. e = [i \in 1..0 |-> e[i]]
      BY DEF e
    <3> QED BY <2>1, <3>1
  <2>3. Flattens(e, s, m)
    BY <1>3, <2>2 DEF Flattens
  <2> QED BY <1>2, <2>3
<1>4. CASE m # 0
  <2>1. m - 1 \in 0..n /\ m - 1 \notin Bad
    BY <1>1, <1>2, <1>4
  <2>2. PICK h : Flattens(h, s, m - 1)
    BY <2>1
  <2> DEFINE new == IF m = 1 THEN s[m] ELSE h[m - 1] \o s[m]
             f == [i \in 1..m |-> IF i = m THEN new ELSE h[i]]
  <2>3. ASSUME NEW i \in 1..m
        PROVE  f[i] = IF i = 1 THEN s[i] ELSE f[i - 1] \o s[i]
    <3>1. i # 1 => i - 1 \in 1..m /\ i - 1 # m
      BY <1>2
    <3>2. i # 1 => f[i - 1] = h[i - 1]
      BY <3>1
    <3>3. CASE i = m
      BY <3>2, <3>3
    <3>4. CASE i # m
      <4>1. i \in 1..(m - 1)
        BY <1>2, <3>4
      <4>2. h[i] = IF i = 1 THEN s[i] ELSE h[i - 1] \o s[i]
        BY <2>2, <4>1 DEF Flattens
      <4>3. f[i] = h[i]
        BY <3>4
      <4> QED BY <3>2, <4>2, <4>3
    <3> QED BY <3>3, <3>4
  <2>4. f = [i \in 1..m |-> f[i]]
    OBVIOUS
  <2>5. Flattens(f, s, m)
    <3> HIDE DEF f
    <3> QED BY <2>3, <2>4 DEF Flattens
  <2> QED BY <1>2, <2>5
<1> QED BY <1>3, <1>4

\* The files as they are listed for FlattenSeq(), oldest first.
OldestFirst(fs, m) == [n \in 1..(m + 1) |-> fs[m + 1 - n]]

\* What is flattened up to a file, and the rows of the newer files, are all rows.
LEMMA FlattenedFiles ==
    ASSUME NEW S, NEW m \in Nat, NEW fs \in [0..m -> Seq(S)], NEW g, NewerRows(g, fs, m),
           NEW f, Flattens(f, OldestFirst(fs, m), m + 1)
    PROVE  f[m + 1] = g[m]
<1>1. \A n \in 1..(m + 1) :
         f[n] = IF n = 1 THEN fs[m] ELSE f[n - 1] \o fs[m + 1 - n]
  <2> PICK s : s = OldestFirst(fs, m)
    OBVIOUS
  <2>1. \A n \in 1..(m + 1) : s[n] = fs[m + 1 - n]
    BY DEF OldestFirst
  <2>2. m + 1 - 1 = m
    OBVIOUS
  <2>3. \A n \in 1..(m + 1) : f[n] = IF n = 1 THEN s[n] ELSE f[n - 1] \o s[n]
    <3>1. Flattens(f, s, m + 1)
      OBVIOUS
    <3> QED BY <3>1 DEF Flattens
  <2> QED BY <2>1, <2>2, <2>3
<1> DEFINE Fine(n) == f[n] \in Seq(S) /\ f[n] \o g[m - n] = g[m]
           Bad == {n \in 1..m : ~Fine(n)}
<1>2. Bad = {}
  <2> SUFFICES ASSUME Bad # {} PROVE FALSE
    OBVIOUS
  <2>1. PICK n \in Bad : \A k \in Bad : n <= k
    <3>1. Bad \subseteq Nat
      <4> HIDE DEF Fine
      <4> QED OBVIOUS
    <3> HIDE DEF Bad
    <3> QED BY <3>1, Least
  <2>2. n \in 1..m /\ ~Fine(n)
    OBVIOUS
  <2>3. CASE n = 1
    <3>1. 1 \in 1..(m + 1) /\ m \in 1..m /\ m \in 0..m
      BY <2>2, <2>3
    <3>2. f[1] = fs[m] /\ f[1] \in Seq(S)
      BY <1>1, <3>1
    <3>3. g[m] = fs[m] \o g[m - 1]
      BY <3>1 DEF NewerRows
    <3> QED BY <2>2, <2>3, <3>2, <3>3
  <2>4. CASE n # 1
    <3>1. n - 1 \in 1..m /\ ~(n <= n - 1)
      BY <2>2, <2>4
    <3>2. Fine(n - 1)
      <4>1. n - 1 \notin Bad
        <5> HIDE DEF Bad
        <5> QED BY <2>1, <3>1
      <4> QED BY <3>1, <4>1
    <3> PICK k : k = m + 1 - n
      OBVIOUS
    <3>3. k \in 1..m /\ k \in 0..m /\ k = m - (n - 1) /\ k - 1 = m - n /\ k - 1 \in 0..m
      BY <2>2, <3>1
    <3> PICK s : s = f[n - 1]
      OBVIOUS
    <3> PICK t : t = fs[k]
      OBVIOUS
    <3> PICK u : u = g[k - 1]
      OBVIOUS
    <3>4. f[n] = s \o t
      <4>1. n \in 1..(m + 1)
        BY <2>2
      <4> QED BY <1>1, <2>4, <4>1
    <3>5. g[k] = t \o u
      BY <3>3 DEF NewerRows
    <3>6. s \in Seq(S) /\ s \o g[k] = g[m]
      BY <3>2, <3>3
    <3>7. t \in Seq(S)
      BY <3>3
    <3>8. u \in Seq(S)
      BY <3>3, NewerRowsAreRows
    <3>9. s \o t \in Seq(S) /\ (s \o t) \o u = s \o (t \o u)
      BY ONLY <3>6, <3>7, <3>8, ConcatProperties, ConcatAssociative
    <3>10. f[n] \in Seq(S) /\ f[n] \o u = g[m]
      BY <3>4, <3>5, <3>6, <3>9
    <3>11. g[m - n] = u
      BY <3>3
    <3> QED BY <2>2, <3>10, <3>11
  <2> QED BY <2>3, <2>4
<1>3. CASE m = 0
  <2>1. f[1] = fs[m]
    BY <1>1, <1>3
  <2> QED BY <1>3, <2>1 DEF NewerRows
<1>4. CASE m # 0
  <2>1. m \in 1..m /\ m + 1 \in 1..(m + 1) /\ m + 1 # 1 /\ (m + 1) - 1 = m /\ m + 1 - (m + 1) = 0
    BY <1>4
  <2>2. Fine(m)
    BY <1>2, <2>1
  <2>3. f[m + 1] = f[m] \o fs[0]
    BY <1>1, <2>1
  <2>4. g[m - m] = fs[0]
    BY DEF NewerRows
  <2> QED BY <2>2, <2>3, <2>4
<1> QED BY <1>3, <1>4

\* FlattenSeq() of the files gives the rows of all of them.
LEMMA FlattenSeqIsNewerRows ==
    ASSUME NEW S, NEW m \in Nat, NEW fs \in [0..m -> Seq(S)], NEW g, NewerRows(g, fs, m)
    PROVE  FlattenSeq(OldestFirst(fs, m)) = g[m]
<1> PICK s : s = OldestFirst(fs, m)
  OBVIOUS
<1>1. s \in [1..(m + 1) -> Seq(S)]
  BY DEF OldestFirst
<1>2. s \in Seq(Seq(S)) /\ Len(s) = m + 1 /\ Len(s) # 0
  <2>1. m + 1 \in Nat
    OBVIOUS
  <2>2. s \in Seq(Seq(S))
    BY <1>1, <2>1, SeqDef
  <2>3. DOMAIN s = 1..(m + 1) /\ DOMAIN s = 1..Len(s) /\ Len(s) \in Nat
    BY <1>1, <2>2, LenProperties
  <2>4. Len(s) = m + 1
    BY <2>1, <2>3
  <2> QED BY <2>2, <2>4
<1>3. FlattenSeq(s) = (CHOOSE f : Flattens(f, s, Len(s)))[Len(s)]
  BY <1>2 DEF FlattenSeq, Flattens
<1>4. \E f : Flattens(f, s, m + 1)
  <2>1. m + 1 \in Nat
    OBVIOUS
  <2> QED BY <2>1, FlatteningExists
<1> PICK f : f = CHOOSE h : Flattens(h, s, m + 1)
  OBVIOUS
<1>5. Flattens(f, OldestFirst(fs, m), m + 1)
  BY <1>4
<1>6. f[m + 1] = g[m]
  BY <1>5, FlattenedFiles
<1> QED BY <1>2, <1>3, <1>6
-----------------------------------------------------------------------------
(* Readers.                                                                *)

\* LastRows() returns the last rows, n of them if there are that many.
LEMMA LastRowsAreLast ==
    ASSUME NEW S, NEW s \in Seq(S), NEW n \in Nat
    PROVE  /\ LastRows(s, n) \in Seq(S)
           /\ Len(LastRows(s, n)) = IF Len(s) > n THEN n ELSE Len(s)
           /\ \A i \in 1..Len(LastRows(s, n)) :
                 LastRows(s, n)[i] = s[Len(s) - Len(LastRows(s, n)) + i]
<1>1. Len(s) \in Nat /\ \A i \in 1..Len(s) : s[i] \in S
  BY LenProperties, ElementOfSeq
<1>2. CASE Len(s) > n
  <2> PICK a, b : a = Len(s) - n + 1 /\ b = Len(s)
    OBVIOUS
  <2>1. a \in Int /\ b \in Int /\ \A i \in a..b : s[i] \in S
    BY <1>1, <1>2
  <2> PICK t : t = SubSeq(s, a, b)
    OBVIOUS
  <2>2. /\ t \in Seq(S) /\ Len(t) = IF a <= b THEN b - a + 1 ELSE 0
        /\ \A i \in 1..(b - a + 1) : t[i] = s[a + i - 1]
    BY <2>1, SubSeqProperties
  <2>3. Len(t) = n /\ b - a + 1 = n
    BY <1>1, <1>2, <2>2
  <2>4. ASSUME NEW i \in 1..Len(t) PROVE t[i] = s[Len(s) - Len(t) + i]
    <3> PICK l : l = Len(s)
      OBVIOUS
    <3>1. l \in Nat /\ a = l - n + 1 /\ b = l /\ i \in 1..n
      BY <1>1, <2>3
    <3>2. a + i - 1 = l - n + i /\ i \in 1..(b - a + 1)
      BY ONLY <3>1, n \in Nat
    <3>3. a + i - 1 = Len(s) - Len(t) + i
      BY <2>3, <3>2
    <3> QED BY <2>2, <3>2, <3>3
  <2>5. LastRows(s, n) = t
    BY <1>2 DEF LastRows
  <2> QED BY <1>2, <2>2, <2>3, <2>4, <2>5
<1>3. CASE ~(Len(s) > n)
  <2>1. LastRows(s, n) = s
    BY <1>3 DEF LastRows
  <2>2. \A i \in 1..Len(s) : s[i] = s[Len(s) - Len(s) + i]
    BY <1>1
  <2> QED BY <1>3, <2>1, <2>2
<1> QED BY <1>2, <1>3

\* What is missing of the last rows is the last rows of the file before.
LEMMA LastRowsOfTwo ==
    ASSUME NEW S, NEW s \in Seq(S), NEW t \in Seq(S), NEW n \in Nat
    PROVE  LastRows(s, n - Len(LastRows(t, n))) \o LastRows(t, n) = LastRows(s \o t, n)
<1>1. Len(s) \in Nat /\ Len(t) \in Nat
  BY LenProperties
<1> PICK ls, lt : ls = Len(s) /\ lt = Len(t)
  OBVIOUS
<1> PICK b : b = LastRows(t, n)
  OBVIOUS
<1> PICK lb : lb = Len(b)
  OBVIOUS
<1>2. /\ b \in Seq(S) /\ lb = IF lt > n THEN n ELSE lt
      /\ \A i \in 1..lb : b[i] = t[lt - lb + i]
  BY LastRowsAreLast
<1> PICK m : m = n - lb
  OBVIOUS
<1>3. m \in Nat /\ lb \in Nat /\ ls \in Nat /\ lt \in Nat
  BY <1>1, <1>2
<1> PICK a : a = LastRows(s, m)
  OBVIOUS
<1> PICK la : la = Len(a)
  OBVIOUS
<1>4. /\ a \in Seq(S) /\ la = IF ls > m THEN m ELSE ls
      /\ \A i \in 1..la : a[i] = s[ls - la + i]
  BY <1>3, LastRowsAreLast
<1> PICK c : c = a \o b
  OBVIOUS
<1> PICK lc : lc = Len(c)
  OBVIOUS
<1>5. /\ c \in Seq(S) /\ lc = la + lb
      /\ \A i \in 1..lc : c[i] = IF i <= la THEN a[i] ELSE b[i - la]
  <2>1. /\ a \o b \in Seq(S)
        /\ Len(a \o b) = Len(a) + Len(b)
        /\ \A i \in 1..(Len(a) + Len(b)) : (a \o b)[i] = IF i <= Len(a) THEN a[i] ELSE b[i - Len(a)]
    <3>1. a \in Seq(S) /\ b \in Seq(S)
      BY <1>2, <1>4
    <3> QED BY ONLY <3>1, ConcatProperties
  <2> QED BY <2>1
<1> PICK u : u = s \o t
  OBVIOUS
<1> PICK lu : lu = Len(u)
  OBVIOUS
<1>6. /\ u \in Seq(S) /\ lu = ls + lt
      /\ \A i \in 1..lu : u[i] = IF i <= ls THEN s[i] ELSE t[i - ls]
  BY ConcatProperties
<1> PICK d : d = LastRows(u, n)
  OBVIOUS
<1> PICK ld : ld = Len(d)
  OBVIOUS
<1>7. /\ d \in Seq(S) /\ ld = IF lu > n THEN n ELSE lu
      /\ \A i \in 1..ld : d[i] = u[lu - ld + i]
  <2>1. u \in Seq(S)
    BY <1>6
  <2>2. /\ LastRows(u, n) \in Seq(S)
        /\ Len(LastRows(u, n)) = IF Len(u) > n THEN n ELSE Len(u)
        /\ \A i \in 1..Len(LastRows(u, n)) :
              LastRows(u, n)[i] = u[Len(u) - Len(LastRows(u, n)) + i]
    BY ONLY <2>1, n \in Nat, LastRowsAreLast
  <2> QED BY <2>2
\* Only numbers from here.
<1>8. /\ n \in Nat /\ m \in Nat /\ ls \in Nat /\ lt \in Nat /\ lb \in Nat /\ m = n - lb
      /\ lb = (IF lt > n THEN n ELSE lt) /\ la = (IF ls > m THEN m ELSE ls)
      /\ lc = la + lb /\ lu = ls + lt /\ ld = (IF lu > n THEN n ELSE lu)
  BY <1>2, <1>3, <1>4, <1>5, <1>6, <1>7
<1>9. lc = ld /\ la \in Nat /\ lc \in Nat
  BY ONLY <1>8
<1>10. ASSUME NEW i \in 1..lc PROVE c[i] = d[i]
  <2>1. d[i] = u[lu - ld + i]
    BY <1>7, <1>9
  <2>2. i \in 1..lc
    OBVIOUS
  <2>3. CASE i <= la
    <3> PICK k : k = ls - la + i
      OBVIOUS
    <3>1. i \in 1..la /\ k = lu - ld + i /\ k \in 1..lu /\ k <= ls
      BY ONLY <1>8, <1>9, <2>2, <2>3, k = ls - la + i
    <3>2. c[i] = a[i]
      BY <1>5, <2>3
    <3>3. a[i] = s[k]
      BY <1>4, <3>1
    <3>4. u[k] = s[k]
      BY <1>6, <3>1
    <3> QED BY <2>1, <3>1, <3>2, <3>3, <3>4
  <2>4. CASE ~(i <= la)
    <3> PICK j : j = i - la
      OBVIOUS
    <3> PICK k : k = lu - ld + i
      OBVIOUS
    <3>1. j \in 1..lb /\ k \in 1..lu /\ ~(k <= ls) /\ k - ls = lt - lb + j
      BY ONLY <1>8, <1>9, <2>2, <2>4, j = i - la, k = lu - ld + i
    <3>2. c[i] = b[j]
      BY <1>5, <2>4
    <3>3. b[j] = t[k - ls]
      BY <1>2, <3>1
    <3>4. u[k] = t[k - ls]
      BY <1>6, <3>1
    <3> QED BY <2>1, <3>2, <3>3, <3>4
  <2> QED BY <2>3, <2>4
<1>11. c = d
  <2>1. c \in Seq(S) /\ d \in Seq(S) /\ Len(c) = Len(d) /\ \A i \in 1..Len(c) : c[i] = d[i]
    BY <1>5, <1>7, <1>9, <1>10
  <2> QED BY ONLY <2>1, SeqEqual
<1> QED BY <1>11

\* What read_journal() collects of the files fs, as an equation.
Collects(r, fs, m, tail) ==
    r = [f \in 0..m |-> IF f = 0 THEN LastRows(fs[0], tail)
                                 ELSE LastRows(fs[f], tail - Len(r[f - 1])) \o r[f - 1]]

\* The last rows of the newest files are such a collection.
LEMMA LastRowsAreCollected ==
    ASSUME NEW S, NEW m \in Nat, NEW fs \in [0..m -> Seq(S)], NEW g, NewerRows(g, fs, m),
           NEW tail \in Nat
    PROVE  Collects([f \in 0..m |-> LastRows(g[f], tail)], fs, m, tail)
<1> PICK r : r = [f \in 0..m |-> LastRows(g[f], tail)]
  OBVIOUS
<1>1. ASSUME NEW f \in 0..m
      PROVE  r[f] = IF f = 0 THEN LastRows(fs[0], tail)
                             ELSE LastRows(fs[f], tail - Len(r[f - 1])) \o r[f - 1]
  <2>1. CASE f = 0
    BY <2>1 DEF NewerRows
  <2>2. CASE f # 0
    <3>1. f \in 1..m /\ f - 1 \in 0..m
      BY <2>2
    <3>2. g[f] = fs[f] \o g[f - 1] /\ r[f - 1] = LastRows(g[f - 1], tail)
      BY <3>1 DEF NewerRows
    <3> PICK s : s = fs[f]
      OBVIOUS
    <3> PICK t : t = g[f - 1]
      OBVIOUS
    <3>3. s \in Seq(S) /\ t \in Seq(S)
      <4>1. t \in Seq(S)
        BY <3>1, NewerRowsAreRows
      <4> QED BY <4>1
    <3>4. LastRows(s, tail - Len(LastRows(t, tail))) \o LastRows(t, tail) = LastRows(s \o t, tail)
      BY ONLY <3>3, tail \in Nat, LastRowsOfTwo
    <3> QED BY <2>2, <3>2, <3>4
  <2> QED BY <2>1, <2>2
<1>2. r = [f \in 0..m |-> r[f]]
  OBVIOUS
<1>3. Collects(r, fs, m, tail)
  BY <1>1, <1>2 DEF Collects
<1> QED BY <1>3

\* There is no other one.
LEMMA CollectedOnce ==
    ASSUME NEW m \in Nat, NEW fs, NEW tail, NEW r, NEW q,
           Collects(r, fs, m, tail), Collects(q, fs, m, tail)
    PROVE  r[m] = q[m]
<1> DEFINE Bad == {f \in 0..m : r[f] # q[f]}
<1> SUFFICES ASSUME Bad # {} PROVE FALSE
  OBVIOUS
<1>1. PICK f \in Bad : \A k \in Bad : f <= k
  <2>1. Bad \subseteq Nat
    OBVIOUS
  <2> HIDE DEF Bad
  <2> QED BY <2>1, Least
<1>2. f \in 0..m /\ r[f] # q[f]
  OBVIOUS
<1>3. f # 0
  BY <1>2 DEF Collects
<1>4. f - 1 \in 0..m /\ ~(f <= f - 1)
  BY <1>2, <1>3
<1>5. r[f - 1] = q[f - 1]
  <2>1. f - 1 \notin Bad
    <3> HIDE DEF Bad
    <3> QED BY <1>1, <1>4
  <2> QED BY <1>4, <2>1
<1>6. /\ r[f] = LastRows(fs[f], tail - Len(r[f - 1])) \o r[f - 1]
      /\ q[f] = LastRows(fs[f], tail - Len(q[f - 1])) \o q[f - 1]
  BY <1>2, <1>3 DEF Collects
<1> QED BY <1>2, <1>5, <1>6
-----------------------------------------------------------------------------
(* What the steps do to the files and to the rows.                         *)

\* What comes after the first of two sequences is the second.
LEMMA SecondOfTwo ==
    ASSUME NEW S, NEW s \in Seq(S), NEW t \in Seq(S)
    PROVE  /\ s \o t \in Seq(S) /\ Len(s \o t) = Len(s) + Len(t)
           /\ SubSeq(s \o t, Len(s) + 1, Len(s \o t)) = t
<1> PICK u : u = s \o t
  OBVIOUS
<1>1. Len(s) \in Nat /\ Len(t) \in Nat
  BY LenProperties
<1>2. /\ u \in Seq(S) /\ Len(u) = Len(s) + Len(t)
      /\ \A i \in 1..Len(u) : u[i] = IF i <= Len(s) THEN s[i] ELSE t[i - Len(s)]
  BY ConcatProperties
<1> PICK a, b : a = Len(s) + 1 /\ b = Len(u)
  OBVIOUS
<1>3. a \in Int /\ b \in Int /\ b - a + 1 = Len(t) /\ \A i \in a..b : u[i] \in S
  <2>1. a \in Int /\ b \in Int /\ b - a + 1 = Len(t)
    BY <1>1, <1>2
  <2>2. \A i \in a..b : i \in 1..Len(u)
    BY <1>1, <1>2
  <2>3. \A i \in 1..Len(u) : u[i] \in S
    BY <1>2, ElementOfSeq
  <2> QED BY <2>1, <2>2, <2>3
<1> PICK v : v = SubSeq(u, a, b)
  OBVIOUS
<1>4. /\ v \in Seq(S) /\ Len(v) = IF a <= b THEN b - a + 1 ELSE 0
      /\ \A i \in 1..(b - a + 1) : v[i] = u[a + i - 1]
  BY <1>3, SubSeqProperties
<1>5. Len(v) = Len(t)
  BY <1>1, <1>3, <1>4
<1>6. ASSUME NEW i \in 1..Len(v) PROVE v[i] = t[i]
  <2> PICK k : k = a + i - 1
    OBVIOUS
  <2>1. k \in 1..Len(u) /\ ~(k <= Len(s)) /\ k - Len(s) = i
    BY <1>1, <1>2, <1>5
  <2>2. v[i] = u[k]
    BY <1>3, <1>4, <1>5
  <2>3. u[k] = t[k - Len(s)]
    BY <1>2, <2>1
  <2> QED BY <2>1, <2>2, <2>3
<1>7. v = t
  BY ONLY <1>4, <1>5, <1>6, t \in Seq(S), SeqEqual
<1> QED BY <1>2, <1>7

\* os.replace() of file k as a move.
LEMMA ReplaceMovesUp ==
    ASSUME NEW S, NEW m \in Nat, NEW fs \in [0..m -> Seq(S)], NEW k \in 0..(m - 1),
           NEW gs, gs = [fs EXCEPT ![k + 1] = fs[k], ![k] = <<>>]
    PROVE  gs \in [0..m -> Seq(S)] /\ MovedUp(gs, fs, k, m)
<1>1. k \in 0..m /\ k + 1 \in 0..m /\ k + 1 # k
  OBVIOUS
<1>2. gs = [f \in 0..m |-> IF f = k THEN <<>> ELSE IF f = k + 1 THEN fs[k] ELSE fs[f]]
  BY <1>1
<1>3. <<>> \in Seq(S) /\ fs[k] \in Seq(S)
  BY <1>1, EmptySeq
<1>4. gs[k] = <<>> /\ gs[k + 1] = fs[k] /\ \A f \in 0..m : f # k /\ f # k + 1 => gs[f] = fs[f]
  BY <1>1, <1>2
<1>5. gs \in [0..m -> Seq(S)]
  BY <1>2, <1>3
<1> QED BY <1>4, <1>5 DEF MovedUp

\* Only the oldest rows go from log to new, and enough newer ones are left.
Forgets(log, new) ==
    \E n \in 1..Len(log) : Len(log) - n >= Kept /\ new = SubSeq(log, n + 1, Len(log))

\* A move over the oldest file costs the rows of that file.
LEMMA MoveOverTheOldest ==
    ASSUME NEW S, NEW m \in Nat, m >= 2, NEW fs \in [0..m -> Seq(S)], NEW gs, NEW g, NEW h,
           NewerRows(g, fs, m), NewerRows(h, gs, m), NEW k, MovedUp(gs, fs, k, m),
           Len(fs[0]) = RowsPerFile, Len(fs[k]) = RowsPerFile, k + 1 = m
    PROVE  h[m] = g[m] \/ Forgets(g[m], h[m])
<1>1. /\ k \in 1..m /\ k \in 0..m /\ m - 1 = k /\ k - 1 \in 0..m /\ m \in 1..m
      /\ m \in 0..m
  BY DEF MovedUp
<1>2. h[m] = g[k]
  <2>1. h[k + 1] = g[k]
    BY RowsMoveUp
  <2> QED BY <2>1
<1>3. g[m] = fs[m] \o g[k] /\ g[k] = fs[k] \o g[k - 1]
  BY <1>1 DEF NewerRows
<1> PICK s : s = fs[m]
  OBVIOUS
<1> PICK t : t = g[k]
  OBVIOUS
<1>4. s \in Seq(S) /\ t \in Seq(S) /\ Len(s) \in Nat /\ Len(t) \in Nat
  <2>1. t \in Seq(S)
    BY <1>1, NewerRowsAreRows
  <2>2. s \in Seq(S)
    BY <1>1
  <2> QED BY <2>1, <2>2, LenProperties
<1>5. Len(t) >= Kept
  <2> PICK p : p = fs[k]
    OBVIOUS
  <2> PICK q : q = g[k - 1]
    OBVIOUS
  <2>1. q \in Seq(S) /\ Len(q) \in Nat /\ RowsPerFile <= Len(q)
    <3>1. \A f \in 0..m : g[f] \in Seq(S) /\ Len(g[f]) \in Nat /\ Len(fs[0]) <= Len(g[f])
      BY NewerRowsAreRows
    <3> QED BY <1>1, <3>1
  <2>2. p \in Seq(S) /\ Len(p) = RowsPerFile
    BY <1>1
  <2>3. t = p \o q
    BY <1>3
  <2>4. Len(t) = Len(p) + Len(q)
    BY ONLY <2>1, <2>2, <2>3, ConcatProperties
  <2> QED BY <2>1, <2>2, <2>4, RowsPerFileAssumption DEF Kept
<1> PICK u : u = g[m]
  OBVIOUS
<1>6. u = s \o t
  BY <1>3
<1>7. Len(u) = Len(s) + Len(t) /\ SubSeq(u, Len(s) + 1, Len(u)) = t
  BY ONLY <1>4, <1>6, SecondOfTwo
<1>8. CASE s = <<>>
  BY <1>2, <1>4, <1>6, <1>8, ConcatEmptySeq
<1>9. CASE s # <<>>
  <2>1. Len(s) \in 1..Len(u) /\ Len(u) - Len(s) >= Kept
    <3>1. Len(s) # 0
      BY <1>4, <1>9, EmptySeq
    <3>2. Kept \in Nat
      BY RowsPerFileAssumption DEF Kept
    <3> QED BY <1>4, <1>5, <1>7, <3>1, <3>2
  <2>2. Forgets(u, t)
    BY <1>7, <2>1 DEF Forgets
  <2> QED BY <1>2, <2>2
<1> QED BY <1>8, <1>9
\* The rows of the files fs.
RowsOf(fs) == FlattenSeq(OldestFirst(fs, MaxBackups))

\* Rows, before and after a step.
LEMMA RowsAreOfFiles == Rows = RowsOf(files) /\ Rows' = RowsOf(files')
<1>1. Rows = RowsOf(files)
  BY DEF Rows, RowsOf, OldestFirst
<1>2. Rows' = RowsOf(files')
  BY DEF Rows, RowsOf, OldestFirst
<1> QED BY <1>1, <1>2

\* Rows are the rows of the newest files up to the oldest.
LEMMA RowsAreNewerRows ==
    ASSUME NEW S, NEW fs \in [Files -> Seq(S)]
    PROVE  \E g : NewerRows(g, fs, MaxBackups) /\ RowsOf(fs) = g[MaxBackups] /\ g[MaxBackups] \in Seq(S)
<1>1. MaxBackups \in Nat /\ MaxBackups \in 0..MaxBackups
  BY MaxBackupsAssumption
<1>2. fs \in [0..MaxBackups -> Seq(S)]
  BY DEF Files
<1>3. PICK g : NewerRows(g, fs, MaxBackups)
  BY <1>1, NewerRowsExist
<1>4. RowsOf(fs) = g[MaxBackups]
  BY <1>1, <1>2, <1>3, FlattenSeqIsNewerRows DEF RowsOf
<1>5. g[MaxBackups] \in Seq(S)
  <2>1. \A f \in 0..MaxBackups : g[f] \in Seq(S)
    BY <1>1, <1>2, <1>3, NewerRowsAreRows
  <2> QED BY <1>1, <2>1
<1> QED BY <1>3, <1>4, <1>5

\* A backup that is there is a full file: it was one when it was moved.
BackupsAreFull ==
    \A f \in 1..MaxBackups : files[f] = <<>> \/ Len(files[f]) = RowsPerFile

\* What the process that appends can rely on at each of its stages: the fragment
\* is gone, and the rotation moves files into the gap it left before, until file
\* 0 is empty.
AtStage ==
    /\ pc \in {"rotate", "write", "fsync"} => ~torn
    /\ pc # "none" => row >= 1
    /\ pc = "rotate" => Len(files[0]) = RowsPerFile /\ (index < MaxBackups => files[index] = <<>>)
    /\ pc = "write" => Len(files[0]) < RowsPerFile

\* A row added to file 0 is added to the rows.
LEMMA WriteAddsRow ==
    ASSUME NEW S, NEW fs, fs \in [Files -> Seq(S)], NEW x, x \in S,
           NEW gs, gs = [fs EXCEPT ![0] = Append(@, x)]
    PROVE  RowsOf(gs) = Append(RowsOf(fs), x)
<1> PICK m : m = MaxBackups
  OBVIOUS
<1>1. m \in Nat /\ m \in 0..m /\ 0 \in 0..m /\ Files = 0..m
  BY MaxBackupsAssumption DEF Files
<1>2. fs[0] \in Seq(S) /\ Append(fs[0], x) \in Seq(S)
  BY <1>1, AppendProperties
<1>3. gs \in [Files -> Seq(S)] /\ gs[0] = Append(fs[0], x) /\ \A f \in 1..m : gs[f] = fs[f]
  BY <1>1, <1>2
<1>4. PICK g : NewerRows(g, fs, m) /\ RowsOf(fs) = g[m]
  BY RowsAreNewerRows
<1>5. PICK h : NewerRows(h, gs, m) /\ RowsOf(gs) = h[m]
  BY <1>3, RowsAreNewerRows
<1>6. Extended(h[m], g[m], x)
  <2>1. fs \in [0..m -> Seq(S)]
    BY <1>1
  <2>2. RowAdded(gs, fs, x, m)
    BY <1>3 DEF RowAdded
  <2>3. NewerRows(g, fs, m) /\ NewerRows(h, gs, m) /\ m \in Nat /\ x \in S
    BY <1>1, <1>4, <1>5
  <2> QED BY ONLY <2>1, <2>2, <2>3, RowAddedAtTheEnd, SMT
<1> QED BY <1>4, <1>5, <1>6 DEF Extended

\* A move of the rotation keeps the rows, or forgets those of the oldest file.
LEMMA RotateForgetsTheOldest ==
    ASSUME NEW S, NEW fs, fs \in [Files -> Seq(S)], NEW k, k \in 0..(MaxBackups - 1),
           NEW gs, gs = [fs EXCEPT ![k + 1] = fs[k], ![k] = <<>>],
           Len(fs[0]) = RowsPerFile, Len(fs[k]) = RowsPerFile,
           k + 1 < MaxBackups => fs[k + 1] = <<>>
    PROVE  RowsOf(gs) = RowsOf(fs) \/ Forgets(RowsOf(fs), RowsOf(gs))
<1> PICK m : m = MaxBackups
  OBVIOUS
<1>1. m \in Nat /\ m >= 2 /\ Files = 0..m /\ k \in 0..(m - 1) /\ fs \in [0..m -> Seq(S)]
  BY MaxBackupsAssumption DEF Files
<1>2. gs \in [0..m -> Seq(S)] /\ MovedUp(gs, fs, k, m)
  BY <1>1, ReplaceMovesUp
<1>3. PICK g : NewerRows(g, fs, m) /\ RowsOf(fs) = g[m]
  BY RowsAreNewerRows
<1>4. PICK h : NewerRows(h, gs, m) /\ RowsOf(gs) = h[m]
  <2>1. gs \in [Files -> Seq(S)]
    BY <1>1, <1>2
  <2> QED BY <2>1, RowsAreNewerRows
<1>5. CASE k + 1 = m
  <2>1. h[m] = g[m] \/ Forgets(g[m], h[m])
    BY ONLY <1>1, <1>2, <1>3, <1>4, <1>5, Len(fs[0]) = RowsPerFile, Len(fs[k]) = RowsPerFile,
            MoveOverTheOldest
  <2> QED BY <1>3, <1>4, <2>1
<1>6. CASE k + 1 # m
  <2>1. fs[k + 1] = <<>>
    BY <1>1, <1>6
  <2>2. h[m] = g[m]
    <3>1. MovedIntoGap(gs, fs, k, m)
      BY <1>2, <2>1 DEF MovedIntoGap
    <3>2. NewerRows(g, fs, m) /\ NewerRows(h, gs, m) /\ m \in Nat /\ fs \in [0..m -> Seq(S)]
      BY <1>1, <1>3, <1>4
    <3> QED BY ONLY <3>1, <3>2, MoveIntoGapKeepsRows, SMT
  <2> QED BY <1>3, <1>4, <2>2
<1> QED BY <1>5, <1>6
-----------------------------------------------------------------------------
(* The files and the stages.                                               *)

\* The invariant of the files.
FilesInv == TypeOK /\ BackupsAreFull /\ AtStage

\* The files at the start.
LEMMA FilesInvInit == Init => FilesInv
<1> SUFFICES ASSUME Init PROVE FilesInv
  OBVIOUS
<1> USE MaxBackupsAssumption, RowsPerFileAssumption, MaxRowsAssumption
<1> PICK S : S = Garbage..MaxRows
  OBVIOUS
<1>1. files = [f \in Files |-> <<>>] /\ <<>> \in Seq(S) /\ Len(<<>>) = 0
  BY EmptySeq DEF Init
<1>2. files \in [Files -> Seq(S)] /\ \A f \in Files : Len(files[f]) <= RowsPerFile
  BY <1>1
<1>3. TypeOK
  <2>1. torn = FALSE /\ pc = "none" /\ index = 1 /\ row = 0 /\ durable = {}
    BY DEF Init
  <2>2. index \in 1..MaxBackups /\ row \in 0..MaxRows /\ durable \subseteq 1..row
    BY <2>1
  <2> QED BY <1>2, <2>1, <2>2 DEF TypeOK
<1>4. BackupsAreFull
  BY <1>1 DEF BackupsAreFull, Files
<1>5. AtStage
  BY DEF Init, AtStage
<1> QED BY <1>3, <1>4, <1>5 DEF FilesInv

\* The types as facts about one file.
LEMMA FileTypes ==
    ASSUME TypeOK, NEW f \in Files
    PROVE  /\ files[f] \in Seq(Garbage..MaxRows) /\ Len(files[f]) \in Nat
           /\ Len(files[f]) <= RowsPerFile
           /\ files[f] = <<>> \/ Len(files[f]) >= 1
<1>1. files[f] \in Seq(Garbage..MaxRows) /\ Len(files[f]) <= RowsPerFile
  BY DEF TypeOK
<1>2. Len(files[f]) \in Nat
  BY <1>1, LenProperties
<1>3. files[f] # <<>> => Len(files[f]) \in Nat \ {0}
  BY <1>1, EmptySeq
<1> QED BY <1>1, <1>2, <1>3

\* A row is written to a file that has room for it.
LEMMA WriteRowFiles == FilesInv /\ WriteRow => FilesInv'
<1> SUFFICES ASSUME FilesInv, WriteRow PROVE FilesInv'
  OBVIOUS
<1>1. TypeOK /\ BackupsAreFull /\ AtStage /\ pc = "write" /\ ~torn /\ row >= 1
  BY DEF FilesInv, WriteRow, AtStage
<1> PICK S : S = Garbage..MaxRows
  OBVIOUS
<1> PICK fs : fs = files
  OBVIOUS
<1>2. /\ fs \in [Files -> Seq(S)] /\ (\A f \in Files : Len(fs[f]) <= RowsPerFile)
      /\ index \in 1..MaxBackups /\ row \in 0..MaxRows /\ durable \subseteq 1..row
  BY <1>1 DEF TypeOK
<1>3. index' = index /\ row' = row /\ durable' = durable
  BY DEF WriteRow
<1>4. CASE pc' = "fsync" /\ torn' = FALSE /\ files' = [fs EXCEPT ![0] = Append(@, row)]
  <2>1. 0 \in Files /\ \A f \in 1..MaxBackups : f \in Files /\ f # 0
    BY MaxBackupsAssumption DEF Files
  <2>2. fs[0] \in Seq(S) /\ row \in S /\ Len(fs[0]) < RowsPerFile /\ Len(fs[0]) \in Nat
    <3>1. row \in S
      BY <1>2 DEF Garbage
    <3>2. Len(fs[0]) < RowsPerFile
      BY <1>1 DEF AtStage
    <3> QED BY <1>2, <2>1, <3>1, <3>2, LenProperties
  <2> PICK t : t = Append(fs[0], row)
    OBVIOUS
  <2>3. t \in Seq(S) /\ Len(t) = Len(fs[0]) + 1
    BY <2>2, AppendProperties
  <2>4. files' = [fs EXCEPT ![0] = t]
    BY <1>4
  <2>5. files' \in [Files -> Seq(S)] /\ \A f \in Files : Len(files'[f]) <= RowsPerFile
    <3>1. Len(t) <= RowsPerFile
      BY <2>2, <2>3, RowsPerFileAssumption
    <3> QED BY <1>2, <2>1, <2>3, <2>4, <3>1
  <2>6. \A f \in 1..MaxBackups : files'[f] = fs[f]
    BY <1>2, <2>1, <2>4
  <2>7. TypeOK'
    BY <1>2, <1>3, <1>4, <2>5 DEF TypeOK
  <2>8. BackupsAreFull'
    BY <1>1, <2>6 DEF BackupsAreFull
  <2>9. AtStage'
    BY <1>1, <1>3, <1>4 DEF AtStage
  <2> QED BY <2>7, <2>8, <2>9 DEF FilesInv
<1>5. CASE pc' = "none" /\ torn' = TRUE /\ files' = files
  <2>1. TypeOK'
    BY <1>1, <1>3, <1>5 DEF TypeOK
  <2>2. BackupsAreFull'
    BY <1>1, <1>5 DEF BackupsAreFull
  <2>3. AtStage'
    BY <1>5 DEF AtStage
  <2> QED BY <2>1, <2>2, <2>3 DEF FilesInv
<1>6. \/ pc' = "fsync" /\ torn' = FALSE /\ files' = [fs EXCEPT ![0] = Append(@, row)]
      \/ pc' = "none" /\ torn' = TRUE /\ files' = files
  BY <1>1 DEF WriteRow
<1> QED BY <1>4, <1>5, <1>6

\* The file of which a step of the rotation is about.
LEMMA RotateFile ==
    ASSUME FilesInv, Rotate
    PROVE  \E k \in 0..(MaxBackups - 1) :
              /\ k = index - 1 /\ k + 1 = index /\ k \in Files /\ k + 1 \in Files
              /\ Len(files[0]) = RowsPerFile /\ (k + 1 < MaxBackups => files[k + 1] = <<>>)
              /\ files[k] = <<>> \/ Len(files[k]) = RowsPerFile
              /\ files' = IF files[k] # <<>>
                            THEN [files EXCEPT ![k + 1] = files[k], ![k] = <<>>]
                            ELSE files
<1>1. TypeOK /\ BackupsAreFull /\ AtStage /\ pc = "rotate" /\ index \in 1..MaxBackups
  BY DEF FilesInv, Rotate, TypeOK
<1> PICK k : k = index - 1
  OBVIOUS
<1>2. k \in 0..(MaxBackups - 1) /\ k + 1 = index /\ k \in Files /\ k + 1 \in Files
  BY <1>1, MaxBackupsAssumption DEF Files
<1>3. Len(files[0]) = RowsPerFile /\ (k + 1 < MaxBackups => files[k + 1] = <<>>)
  BY <1>1, <1>2 DEF AtStage
<1>4. files[k] = <<>> \/ Len(files[k]) = RowsPerFile
  <2>1. k = 0 \/ k \in 1..MaxBackups
    BY <1>2, MaxBackupsAssumption
  <2> QED BY <1>1, <1>3, <2>1 DEF BackupsAreFull
<1>5. files' = IF files[k] # <<>>
                 THEN [files EXCEPT ![k + 1] = files[k], ![k] = <<>>]
                 ELSE files
  BY DEF Rotate, RotationOrder
<1> QED BY <1>2, <1>3, <1>4, <1>5

\* A move leaves full files, and a gap where the next one goes.
LEMMA RotateFiles == FilesInv /\ Rotate => FilesInv'
<1> SUFFICES ASSUME FilesInv, Rotate PROVE FilesInv'
  OBVIOUS
<1>1. TypeOK /\ BackupsAreFull /\ AtStage /\ pc = "rotate"
  BY DEF FilesInv, Rotate
<1> PICK S : S = Garbage..MaxRows
  OBVIOUS
<1> PICK fs, gs : fs = files /\ gs = files'
  OBVIOUS
<1>2. /\ fs \in [Files -> Seq(S)] /\ (\A f \in Files : Len(fs[f]) <= RowsPerFile)
      /\ index \in 1..MaxBackups /\ row \in 0..MaxRows /\ durable \subseteq 1..row
      /\ torn \in BOOLEAN /\ row >= 1 /\ ~torn
  BY <1>1 DEF TypeOK, AtStage
<1>3. /\ torn' = torn /\ row' = row /\ durable' = durable
      /\ IF index = 1 THEN pc' = "write" /\ index' = index
                      ELSE pc' = "rotate" /\ index' = index - 1
  BY <1>1 DEF Rotate
<1>4. PICK k \in 0..(MaxBackups - 1) :
         /\ k = index - 1 /\ k + 1 = index /\ k \in Files /\ k + 1 \in Files
         /\ Len(fs[0]) = RowsPerFile
         /\ fs[k] = <<>> \/ Len(fs[k]) = RowsPerFile
         /\ gs = IF fs[k] # <<>> THEN [fs EXCEPT ![k + 1] = fs[k], ![k] = <<>>] ELSE fs
  BY RotateFile
<1>5. \A f \in 1..MaxBackups : fs[f] = <<>> \/ Len(fs[f]) = RowsPerFile
  BY <1>1 DEF BackupsAreFull
<1>6. /\ gs \in [Files -> Seq(S)] /\ gs[k] = <<>>
      /\ \A f \in Files : gs[f] = fs[f] \/ gs[f] = <<>> \/ (f # 0 /\ gs[f] = fs[k])
  <2>1. CASE fs[k] = <<>>
    BY <1>2, <1>4, <2>1
  <2>2. CASE fs[k] # <<>>
    <3> PICK m : m = MaxBackups
      OBVIOUS
    <3>1. /\ m \in Nat /\ fs \in [0..m -> Seq(S)] /\ k \in 0..(m - 1) /\ Files = 0..m
          /\ gs = [fs EXCEPT ![k + 1] = fs[k], ![k] = <<>>]
      BY <1>2, <1>4, <2>2, MaxBackupsAssumption DEF Files
    <3>2. gs \in [0..m -> Seq(S)] /\ MovedUp(gs, fs, k, m)
      BY ONLY <3>1, ReplaceMovesUp
    <3>3. gs[k] = <<>> /\ gs[k + 1] = fs[k] /\ \A f \in 0..m : f # k /\ f # k + 1 => gs[f] = fs[f]
      BY <3>2 DEF MovedUp
    <3>4. k + 1 # 0
      BY <3>1
    <3> QED BY <3>1, <3>2, <3>3, <3>4
  <2> QED BY <2>1, <2>2
<1>7. Len(<<>>) = 0 /\ 0 <= RowsPerFile
  BY EmptySeq, RowsPerFileAssumption
<1>8. \A f \in Files : Len(gs[f]) <= RowsPerFile
  BY <1>2, <1>4, <1>6, <1>7
<1>9. index' \in 1..MaxBackups
  <2>1. MaxBackups \in Nat /\ index \in 1..MaxBackups /\ (index' = index \/ (index # 1 /\ index' = index - 1))
    BY <1>2, <1>3, MaxBackupsAssumption
  <2> QED BY ONLY <2>1
<1>10. TypeOK'
  BY <1>2, <1>3, <1>6, <1>8, <1>9 DEF TypeOK
<1>11. BackupsAreFull'
  <2>1. \A f \in 1..MaxBackups : f \in Files
    BY MaxBackupsAssumption DEF Files
  <2>2. \A f \in 1..MaxBackups : gs[f] = <<>> \/ Len(gs[f]) = RowsPerFile
    BY <1>4, <1>5, <1>6, <2>1
  <2> QED BY <2>2 DEF BackupsAreFull
<1>12. AtStage'
  <2>1. CASE index = 1
    <3>1. pc' = "write" /\ k = 0
      BY <1>3, <1>4, <2>1
    <3>2. Len(gs[0]) < RowsPerFile
      BY <1>6, <1>7, <3>1, RowsPerFileAssumption
    <3> QED BY <1>2, <1>3, <3>1, <3>2 DEF AtStage
  <2>2. CASE index # 1
    <3>1. pc' = "rotate" /\ index' = k /\ k # 0
      BY <1>2, <1>3, <1>4, <2>2
    <3>3. gs[0] = fs[0]
      <4>1. CASE fs[k] = <<>>
        BY <1>4, <4>1
      <4>2. CASE fs[k] # <<>>
        <5>1. gs = [fs EXCEPT ![k + 1] = fs[k], ![k] = <<>>] /\ k + 1 # 0 /\ 0 \in Files
          BY <1>4, <4>2, MaxBackupsAssumption DEF Files
        <5> QED BY <1>2, <3>1, <5>1
      <4> QED BY <4>1, <4>2
    <3>4. gs[index'] = <<>> /\ Len(gs[0]) = RowsPerFile
      BY <1>4, <1>6, <3>1, <3>3
    <3> QED BY <1>2, <1>3, <3>1, <3>4 DEF AtStage
  <2> QED BY <2>1, <2>2
<1> QED BY <1>10, <1>11, <1>12 DEF FilesInv
\* The files at every step.
LEMMA FilesInvNext == FilesInv /\ [Next]_vars => FilesInv'
<1> SUFFICES ASSUME FilesInv, [Next]_vars PROVE FilesInv'
  OBVIOUS
<1>1. TypeOK /\ BackupsAreFull /\ AtStage
  BY DEF FilesInv
<1>2. CASE BeginAppend
  <2>1. TypeOK'
    BY <1>1, <1>2, MaxRowsAssumption DEF BeginAppend, TypeOK
  <2>2. BackupsAreFull'
    BY <1>1, <1>2 DEF BeginAppend, BackupsAreFull
  <2>3. row' >= 1
    BY <1>1, <1>2 DEF BeginAppend, TypeOK
  <2>4. AtStage'
    BY <1>2, <2>3 DEF BeginAppend, AtStage
  <2> QED BY <2>1, <2>2, <2>4 DEF FilesInv
<1>3. CASE RepairFragment
  <2>1. /\ pc = "repair" /\ row >= 1 /\ torn' = FALSE /\ files' = files
        /\ row' = row /\ durable' = durable
    BY <1>1, <1>3 DEF RepairFragment, AtStage
  <2>2. 0 \in Files
    BY MaxBackupsAssumption DEF Files
  <2>3. Len(files[0]) \in Nat /\ Len(files[0]) <= RowsPerFile
    BY <1>1, <2>2, FileTypes
  <2>4. CASE Full
    <3>1. pc' = "rotate" /\ index' = MaxBackups
      BY <1>3, <2>4 DEF RepairFragment
    <3>2. Len(files[0]) = RowsPerFile
      BY <2>3, <2>4, RowsPerFileAssumption DEF Full
    <3>3. TypeOK'
      <4>1. index' \in 1..MaxBackups
        BY <3>1, MaxBackupsAssumption
      <4> QED BY <1>1, <2>1, <3>1, <4>1 DEF TypeOK
    <3>4. BackupsAreFull'
      BY <1>1, <2>1 DEF BackupsAreFull
    <3>5. AtStage'
      BY <2>1, <3>1, <3>2, MaxBackupsAssumption DEF AtStage
    <3> QED BY <3>3, <3>4, <3>5 DEF FilesInv
  <2>5. CASE ~Full
    <3>1. pc' = "write" /\ index' = index
      BY <1>3, <2>5 DEF RepairFragment
    <3>2. Len(files[0]) < RowsPerFile
      BY <2>3, <2>5, RowsPerFileAssumption DEF Full
    <3>3. TypeOK'
      BY <1>1, <2>1, <3>1 DEF TypeOK
    <3>4. BackupsAreFull'
      BY <1>1, <2>1 DEF BackupsAreFull
    <3>5. AtStage'
      BY <2>1, <3>1, <3>2 DEF AtStage
    <3> QED BY <3>3, <3>4, <3>5 DEF FilesInv
  <2> QED BY <2>4, <2>5
<1>4. CASE Rotate
  BY <1>4, RotateFiles
<1>5. CASE WriteRow
  BY <1>5, WriteRowFiles
<1>6. CASE Fsync
  <2>1. row \in 1..row
    BY <1>1, <1>6 DEF Fsync, AtStage, TypeOK
  <2>2. TypeOK'
    BY <1>1, <1>6, <2>1 DEF Fsync, TypeOK
  <2>3. BackupsAreFull'
    BY <1>1, <1>6 DEF Fsync, BackupsAreFull
  <2>4. AtStage'
    BY <1>6 DEF Fsync, AtStage
  <2> QED BY <2>2, <2>3, <2>4 DEF FilesInv
<1>7. CASE GiveUp
  <2>1. TypeOK'
    BY <1>1, <1>7 DEF GiveUp, TypeOK
  <2>2. BackupsAreFull'
    BY <1>1, <1>7 DEF GiveUp, BackupsAreFull
  <2>3. AtStage'
    BY <1>7 DEF GiveUp, AtStage
  <2> QED BY <2>1, <2>2, <2>3 DEF FilesInv
<1>8. CASE UNCHANGED vars
  <2>1. TypeOK'
    BY <1>1, <1>8 DEF vars, TypeOK
  <2>2. BackupsAreFull'
    BY <1>1, <1>8 DEF vars, BackupsAreFull
  <2>3. AtStage'
    BY <1>1, <1>8 DEF vars, AtStage
  <2> QED BY <2>1, <2>2, <2>3 DEF FilesInv
<1> QED BY <1>2, <1>3, <1>4, <1>5, <1>6, <1>7, <1>8 DEF Next

\* What a step does to the rows.
RowsStep ==
    \/ Rows' = Rows /\ pc' # "fsync"
    \/ pc = "write" /\ pc' = "fsync" /\ Extended(Rows', Rows, row)
    \/ pc = "rotate" /\ pc' # "fsync" /\ Forgets(Rows, Rows')

\* Every step keeps the rows, adds the newest one, or forgets the oldest ones.
LEMMA RowsStepNext == FilesInv /\ Next => RowsStep /\ (Rows' = Rows \/ pc \in {"write", "rotate"})
<1> SUFFICES ASSUME FilesInv, Next
             PROVE  RowsStep /\ (Rows' = Rows \/ pc \in {"write", "rotate"})
  OBVIOUS
<1>1. TypeOK /\ AtStage
  BY DEF FilesInv
<1> PICK S : S = Garbage..MaxRows
  OBVIOUS
<1> PICK fs, gs : fs = files /\ gs = files'
  OBVIOUS
<1>2. fs \in [Files -> Seq(S)]
  BY <1>1 DEF TypeOK
<1>3. Rows = RowsOf(fs) /\ Rows' = RowsOf(gs)
  BY RowsAreOfFiles
<1>4. CASE gs = fs
  <2>1. Rows' = Rows
    BY <1>3, <1>4
  <2>2. pc' # "fsync"
    <3>1. ASSUME WriteRow, pc' = "fsync" PROVE FALSE
      <4>1. 0 \in Files
        BY MaxBackupsAssumption DEF Files
      <4> PICK x : x = IF torn THEN Garbage ELSE row
        OBVIOUS
      <4>2. gs = [fs EXCEPT ![0] = Append(@, x)]
        BY <3>1 DEF WriteRow
      <4>3. fs[0] = Append(fs[0], x) /\ fs[0] \in Seq(S) /\ x \in S
        <5>1. x \in S
          <6>1. row \in 0..MaxRows
            BY <1>1 DEF TypeOK
          <6>2. 0 \in S /\ row \in S
            BY <6>1, MaxRowsAssumption DEF Garbage
          <6>3. x = 0 \/ x = row
            BY DEF Garbage
          <6> QED BY <6>2, <6>3
        <5> QED BY <1>2, <1>4, <4>1, <4>2, <5>1
      <4>4. Len(fs[0]) = Len(fs[0]) + 1 /\ Len(fs[0]) \in Nat
        BY <4>3, AppendProperties, LenProperties
      <4> QED BY <4>4
    <3> QED BY <3>1 DEF Next, BeginAppend, RepairFragment, Rotate, Fsync, GiveUp
  <2> QED BY <2>1, <2>2 DEF RowsStep
<1>5. CASE gs # fs
  <2>1. CASE WriteRow
    <3>1. pc = "write" /\ ~torn
      BY <1>1, <2>1 DEF WriteRow, AtStage
    <3>2. pc' = "fsync" /\ gs = [fs EXCEPT ![0] = Append(@, row)]
      BY <1>5, <2>1, <3>1 DEF WriteRow
    <3>3. row \in S
      BY <1>1 DEF TypeOK, Garbage
    <3>4. RowsOf(gs) = Append(RowsOf(fs), row)
      BY ONLY <1>2, <3>2, <3>3, WriteAddsRow
    <3> QED BY <1>3, <3>1, <3>2, <3>4 DEF RowsStep, Extended
  <2>2. CASE Rotate
    <3>1. PICK k \in 0..(MaxBackups - 1) :
             /\ Len(fs[0]) = RowsPerFile /\ (k + 1 < MaxBackups => fs[k + 1] = <<>>)
             /\ fs[k] = <<>> \/ Len(fs[k]) = RowsPerFile
             /\ gs = IF fs[k] # <<>> THEN [fs EXCEPT ![k + 1] = fs[k], ![k] = <<>>] ELSE fs
      BY <2>2, RotateFile
    <3>2. gs = [fs EXCEPT ![k + 1] = fs[k], ![k] = <<>>] /\ Len(fs[k]) = RowsPerFile
      BY <1>5, <3>1
    <3>3. RowsOf(gs) = RowsOf(fs) \/ Forgets(RowsOf(fs), RowsOf(gs))
      BY <1>2, <3>1, <3>2, RotateForgetsTheOldest
    <3>4. pc = "rotate" /\ pc' # "fsync"
      BY <2>2 DEF Rotate
    <3> QED BY <1>3, <3>3, <3>4 DEF RowsStep
  <2> QED BY <1>5, <2>1, <2>2 DEF Next, BeginAppend, RepairFragment, Fsync, GiveUp
<1> QED BY <1>4, <1>5
-----------------------------------------------------------------------------
(* The order of the rows.                                                  *)

\* The rows s are whole rows up to n, each newer than the one before.
Ascending(s, n) ==
    /\ s \in Seq(Nat)
    /\ \A i \in 1..Len(s) : s[i] \in 1..n
    /\ \A i, j \in 1..Len(s) : i < j => s[i] < s[j]

\* All of s is older than x.
Older(s, x) == \A i \in 1..Len(s) : s[i] < x

\* x is in s.
Occurs(x, s) == \E i \in 1..Len(s) : s[i] = x

\* What DurableRowsStay says of the rows s.
Stay(ds, s) == \A r \in ds : Occurs(r, s) \/ (Len(s) >= Kept /\ \A i \in 1..Len(s) : s[i] > r)

\* The order survives a row that is newer than all.
LEMMA ExtendedStaysAscending ==
    ASSUME NEW n \in Nat, NEW s, NEW t, NEW x \in 1..n, NEW ds, ds \subseteq 1..n, x \notin ds,
           \A r \in ds : r <= x,
           Ascending(s, n), Older(s, x), Stay(ds, s), Extended(t, s, x)
    PROVE  Ascending(t, n) /\ Occurs(x, t) /\ Stay(ds, t)
<1> PICK l : l = Len(s)
  OBVIOUS
<1>1. s \in Seq(Nat) /\ x \in Nat /\ t = Append(s, x) /\ l \in Nat
  BY LenProperties DEF Ascending, Extended
<1>2. /\ t \in Seq(Nat) /\ Len(t) = l + 1
      /\ \A i \in 1..l : t[i] = s[i]
      /\ t[l + 1] = x
  BY <1>1, AppendProperties
<1>3. \A i \in 1..Len(t) : i \in 1..l \/ i = l + 1
  BY <1>1, <1>2
<1>4. \A i \in 1..l : t[i] \in 1..n /\ t[i] < x
  BY <1>2 DEF Ascending, Older
<1>5. Ascending(t, n)
  <2>1. \A i \in 1..Len(t) : t[i] \in 1..n
    BY <1>2, <1>3, <1>4
  <2>2. ASSUME NEW i \in 1..Len(t), NEW j \in 1..Len(t), i < j PROVE t[i] < t[j]
    <3>1. i \in 1..l
      BY <1>1, <1>2, <2>2
    <3>2. CASE j = l + 1
      BY <1>2, <1>4, <3>1, <3>2
    <3>3. CASE j \in 1..l
      BY <1>2, <2>2, <3>1, <3>3 DEF Ascending
    <3> QED BY <1>3, <3>2, <3>3
  <2> QED BY <1>2, <2>1, <2>2 DEF Ascending
<1>6. Occurs(x, t)
  <2>1. l + 1 \in 1..Len(t)
    BY <1>1, <1>2
  <2> QED BY <1>2, <2>1 DEF Occurs
<1>7. ASSUME NEW r \in ds
      PROVE  Occurs(r, t) \/ (Len(t) >= Kept /\ \A i \in 1..Len(t) : t[i] > r)
  <2>1. r \in Nat /\ x \in Nat /\ x > r
    BY <1>7
  <2>2. CASE Occurs(r, s)
    <3>1. PICK i \in 1..l : s[i] = r
      BY <2>2 DEF Occurs
    <3>2. i \in 1..Len(t) /\ t[i] = r
      BY <1>1, <1>2, <3>1
    <3> QED BY <3>2 DEF Occurs
  <2>3. CASE l >= Kept /\ \A i \in 1..l : s[i] > r
    <3>1. Len(t) >= Kept
      BY <1>1, <1>2, <2>3, RowsPerFileAssumption DEF Kept
    <3>2. \A i \in 1..Len(t) : t[i] > r
      BY <1>2, <1>3, <2>1, <2>3
    <3> QED BY <3>1, <3>2
  <2> QED BY <1>7, <2>2, <2>3 DEF Stay
<1>8. Stay(ds, t)
  BY <1>7 DEF Stay
<1> QED BY <1>5, <1>6, <1>8

\* The order survives that the oldest rows are forgotten.
LEMMA ForgottenStaysAscending ==
    ASSUME NEW n \in Nat, NEW s, NEW t, NEW ds, ds \subseteq 1..n,
           Ascending(s, n), Older(s, n), Stay(ds, s), Forgets(s, t)
    PROVE  Ascending(t, n) /\ Older(t, n) /\ Stay(ds, t)
<1> PICK l : l = Len(s)
  OBVIOUS
<1>1. s \in Seq(Nat) /\ l \in Nat /\ \A i \in 1..l : s[i] \in Nat
  BY LenProperties, ElementOfSeq DEF Ascending
<1>2. PICK d \in 1..l : l - d >= Kept /\ t = SubSeq(s, d + 1, l)
  BY DEF Forgets
<1> PICK k : k = l - d
  OBVIOUS
<1>3. d \in Nat /\ k \in Nat /\ k >= Kept /\ Kept \in Nat /\ l = d + k
  BY <1>1, <1>2, RowsPerFileAssumption DEF Kept
<1>4. t \in Seq(Nat) /\ Len(t) = k /\ \A i \in 1..k : t[i] = s[d + i]
  <2> PICK a : a = d + 1
    OBVIOUS
  <2>1. a \in Int /\ l \in Int /\ \A i \in a..l : s[i] \in Nat
    BY <1>1, <1>3
  <2>2. /\ SubSeq(s, a, l) \in Seq(Nat)
        /\ Len(SubSeq(s, a, l)) = IF a <= l THEN l - a + 1 ELSE 0
        /\ \A i \in 1..(l - a + 1) : SubSeq(s, a, l)[i] = s[a + i - 1]
    BY ONLY <2>1, SubSeqProperties
  <2>3. l - a + 1 = k /\ (IF a <= l THEN l - a + 1 ELSE 0) = k /\ \A i \in 1..k : a + i - 1 = d + i
    BY <1>1, <1>3
  <2> QED BY <1>2, <2>2, <2>3
<1>5. \A i \in 1..k : d + i \in 1..l
  BY <1>3
<1>6. Ascending(t, n)
  <2>1. \A i \in 1..Len(t) : t[i] \in 1..n
    BY <1>4, <1>5 DEF Ascending
  <2>2. ASSUME NEW i \in 1..k, NEW j \in 1..k, i < j PROVE t[i] < t[j]
    <3>1. d + i < d + j /\ d + i \in 1..l /\ d + j \in 1..l
      BY <1>3, <2>2
    <3>2. s[d + i] < s[d + j]
      BY <3>1 DEF Ascending
    <3> QED BY <1>4, <3>2
  <2> QED BY <1>4, <2>1, <2>2 DEF Ascending
<1>7. ASSUME NEW r \in ds
      PROVE  Occurs(r, t) \/ (Len(t) >= Kept /\ \A i \in 1..Len(t) : t[i] > r)
  <2>1. CASE Occurs(r, s)
    <3>1. PICK j \in 1..l : s[j] = r
      BY <2>1 DEF Occurs
    <3>2. CASE j > d
      <4>1. j - d \in 1..k /\ d + (j - d) = j
        BY <1>3, <3>2
      <4> QED BY <1>4, <3>1, <4>1 DEF Occurs
    <3>3. CASE ~(j > d)
      <4>1. ASSUME NEW i \in 1..k PROVE t[i] > r
        <5>1. j < d + i /\ d + i \in 1..l
          BY <1>3, <3>3
        <5>2. s[j] < s[d + i]
          BY <5>1 DEF Ascending
        <5>3. s[j] \in Nat /\ s[d + i] \in Nat
          BY <1>1, <5>1
        <5> QED BY <1>4, <3>1, <5>2, <5>3
      <4> QED BY <1>3, <1>4, <4>1
    <3> QED BY <3>2, <3>3
  <2>2. CASE \A i \in 1..l : s[i] > r
    BY <1>3, <1>4, <1>5, <2>2
  <2> QED BY <1>7, <2>1, <2>2 DEF Stay
<1>8. Stay(ds, t)
  BY <1>7 DEF Stay
<1>9. Older(t, n)
  BY <1>4, <1>5 DEF Older
<1> QED BY <1>6, <1>8, <1>9
\* The invariant of the rows: they are in order, the row that is being appended is
\* newer than all, and no durable row was lost.
RowsInOrder ==
    /\ Ascending(Rows, row)
    /\ pc \in {"repair", "rotate", "write"} => Older(Rows, row) /\ row \notin durable
    /\ pc = "fsync" => Occurs(row, Rows)
    /\ Stay(durable, Rows)

\* DurableRowsStay is the last part of it.
LEMMA StayIsDurableRowsStay == Stay(durable, Rows) <=> DurableRowsStay
BY DEF Stay, Occurs, DurableRowsStay

\* The inductive invariant.
IInv == FilesInv /\ RowsInOrder

\* There are no rows at first.
LEMMA NoRows == Init => Rows = <<>>
<1> SUFFICES ASSUME Init PROVE Rows = <<>>
  OBVIOUS
<1> PICK m : m = MaxBackups
  OBVIOUS
<1> PICK fs : fs = files
  OBVIOUS
<1>1. m \in Nat /\ m \in 0..m /\ \A f \in 0..m : fs[f] = <<>>
  BY MaxBackupsAssumption DEF Init, Files
<1>2. fs \in [Files -> Seq(Nat)]
  BY EmptySeq DEF Init
<1>3. PICK g : NewerRows(g, fs, m) /\ RowsOf(fs) = g[m]
  BY <1>2, RowsAreNewerRows
<1>4. \A f \in 0..m : g[f] = <<>>
  BY <1>1, <1>3, NoRowsAtFirst
<1> QED BY <1>1, <1>3, <1>4, RowsAreOfFiles

\* The invariant holds at first.
LEMMA IInvInit == Init => IInv
<1> SUFFICES ASSUME Init PROVE IInv
  OBVIOUS
<1>1. FilesInv
  BY FilesInvInit
<1>2. Rows = <<>> /\ <<>> \in Seq(Nat) /\ Len(<<>>) = 0
  BY NoRows, EmptySeq
<1>3. pc = "none" /\ row = 0 /\ durable = {}
  BY DEF Init
<1>4. Ascending(Rows, row)
  BY <1>2 DEF Ascending
<1>5. Stay(durable, Rows)
  BY <1>3 DEF Stay
<1>6. RowsInOrder
  BY <1>3, <1>4, <1>5 DEF RowsInOrder
<1> QED BY <1>1, <1>6 DEF IInv

\* The order of the rows at every step.
LEMMA RowsInOrderNext == IInv /\ Next => RowsInOrder'
<1> SUFFICES ASSUME IInv, Next PROVE RowsInOrder'
  OBVIOUS
<1>1. FilesInv /\ RowsInOrder /\ TypeOK /\ AtStage
  BY DEF IInv, FilesInv
<1> PICK s, t : s = Rows /\ t = Rows'
  OBVIOUS
<1> PICK n, ds : n = row /\ ds = durable
  OBVIOUS
<1>2. n \in Nat /\ ds \subseteq 1..n /\ Ascending(s, n) /\ Stay(ds, s)
  BY <1>1 DEF TypeOK, RowsInOrder
<1>3. /\ t = s \/ pc \in {"write", "rotate"}
      /\ \/ t = s /\ pc' # "fsync"
         \/ pc = "write" /\ pc' = "fsync" /\ Extended(t, s, n)
         \/ pc = "rotate" /\ pc' # "fsync" /\ Forgets(s, t)
  BY <1>1, RowsStepNext DEF RowsStep
<1>4. CASE BeginAppend
  <2>1. t = s /\ row' = n + 1 /\ durable' = ds /\ pc' = "repair"
    BY <1>3, <1>4 DEF BeginAppend
  <2>2. \A i \in 1..Len(s) : s[i] \in 1..n
    BY <1>2 DEF Ascending
  <2>3. Ascending(s, n + 1) /\ Older(s, n + 1)
    <3>1. \A i \in 1..n : i \in 1..(n + 1) /\ i < n + 1
      BY <1>2
    <3> QED BY <1>2, <2>2, <3>1 DEF Ascending, Older
  <2>4. n + 1 \notin ds
    BY <1>2
  <2> QED BY <1>2, <2>1, <2>3, <2>4 DEF RowsInOrder
<1>5. CASE RepairFragment
  <2>1. /\ t = s /\ row' = n /\ durable' = ds /\ pc = "repair"
        /\ pc' \in {"rotate", "write"}
    BY <1>3, <1>5 DEF RepairFragment
  <2>2. Older(s, n) /\ n \notin ds
    BY <1>1, <2>1 DEF RowsInOrder
  <2> QED BY <1>2, <2>1, <2>2 DEF RowsInOrder
<1>6. CASE Rotate
  <2>1. /\ row' = n /\ durable' = ds /\ pc = "rotate"
        /\ pc' \in {"rotate", "write"}
    BY <1>6 DEF Rotate
  <2>2. Older(s, n) /\ n \notin ds
    BY <1>1, <2>1 DEF RowsInOrder
  <2>3. Ascending(t, n) /\ Stay(ds, t) /\ Older(t, n)
    <3>1. CASE t = s
      BY <1>2, <2>2, <3>1
    <3>2. CASE Forgets(s, t)
      BY ONLY <1>2, <2>2, <3>2, ForgottenStaysAscending
    <3> QED BY <1>3, <2>1, <3>1, <3>2
  <2> QED BY <2>1, <2>2, <2>3 DEF RowsInOrder
<1>7. CASE WriteRow
  <2>1. row' = n /\ durable' = ds /\ pc = "write"
    BY <1>7 DEF WriteRow
  <2>2. Older(s, n) /\ n \notin ds /\ n >= 1
    BY <1>1, <2>1 DEF RowsInOrder, AtStage
  <2>3. CASE pc' = "fsync"
    <3>1. Extended(t, s, n)
      BY <1>3, <2>3
    <3>2. n \in 1..n /\ \A r \in ds : r <= n
      BY <1>2, <2>2
    <3>3. Ascending(t, n) /\ Occurs(n, t) /\ Stay(ds, t)
      BY ONLY <1>2, <2>2, <3>1, <3>2, ExtendedStaysAscending
    <3> QED BY <2>1, <2>3, <3>3 DEF RowsInOrder
  <2>4. CASE pc' # "fsync"
    <3>1. pc' = "none" /\ t = s
      BY <1>3, <1>7, <2>1, <2>4 DEF WriteRow
    <3> QED BY <1>2, <2>1, <3>1 DEF RowsInOrder
  <2> QED BY <2>3, <2>4
<1>8. CASE Fsync
  <2>1. t = s /\ row' = n /\ durable' = ds \cup {n} /\ pc = "fsync" /\ pc' = "none"
    BY <1>3, <1>8 DEF Fsync
  <2>2. Occurs(n, s)
    BY <1>1, <2>1 DEF RowsInOrder
  <2>3. Stay(ds \cup {n}, s)
    BY <1>2, <2>2 DEF Stay
  <2> QED BY <1>2, <2>1, <2>3 DEF RowsInOrder
<1>9. CASE GiveUp
  <2>1. t = s \/ pc \in {"write", "rotate"}
    BY <1>3
  <2>2. files' = files /\ row' = n /\ durable' = ds /\ pc' = "none"
    BY <1>9 DEF GiveUp
  <2>3. t = s
    BY <2>2, RowsAreOfFiles
  <2> QED BY <1>2, <2>2, <2>3 DEF RowsInOrder
<1> QED BY <1>4, <1>5, <1>6, <1>7, <1>8, <1>9 DEF Next

\* The invariant at every step.
LEMMA IInvNext == IInv /\ [Next]_vars => IInv'
<1> SUFFICES ASSUME IInv, [Next]_vars PROVE IInv'
  OBVIOUS
<1>1. FilesInv'
  BY FilesInvNext DEF IInv
<1>2. CASE Next
  BY <1>1, <1>2, RowsInOrderNext DEF IInv
<1>3. CASE UNCHANGED vars
  <2>1. files' = files /\ pc' = pc /\ row' = row /\ durable' = durable
    BY <1>3 DEF vars
  <2>2. Rows' = Rows
    BY <2>1, RowsAreOfFiles
  <2>3. RowsInOrder
    BY DEF IInv
  <2>4. RowsInOrder'
    BY <2>1, <2>2, <2>3 DEF RowsInOrder
  <2> QED BY <1>1, <2>4 DEF IInv
<1> QED BY <1>2, <1>3

\* The invariant holds in every state.
THEOREM InvariantHolds == Spec => []IInv
BY IInvInit, IInvNext, PTL DEF Spec

\* TypeOK: no file grows past its limit, whatever process died when, and no row is
\* durable before it was appended.
THEOREM JournalTypes == Spec => []TypeOK
<1>1. IInv => TypeOK
  BY DEF IInv, FilesInv
<1> QED BY <1>1, InvariantHolds, PTL

\* DurableRowsStay: a row whose append returned stays until enough newer rows are
\* there, however many rotations were cut short.
THEOREM NoDurableRowIsLost == Spec => []DurableRowsStay
<1>1. IInv => DurableRowsStay
  BY StayIsDurableRowsStay DEF IInv, RowsInOrder
<1> QED BY <1>1, InvariantHolds, PTL

\* What a reader collects of the files is the end of all rows.
LEMMA ReadJournalIsLastRows ==
    ASSUME TypeOK, NEW tail \in Nat
    PROVE  ReadJournal(tail) = LastRows(Rows, tail)
<1> PICK S : S = Garbage..MaxRows
  OBVIOUS
<1> PICK m : m = MaxBackups
  OBVIOUS
<1> PICK fs : fs = files
  OBVIOUS
<1>1. m \in Nat /\ m \in 0..m /\ fs \in [Files -> Seq(S)] /\ fs \in [0..m -> Seq(S)]
  BY MaxBackupsAssumption DEF TypeOK, Files
<1>2. PICK g : NewerRows(g, fs, m) /\ RowsOf(fs) = g[m]
  BY <1>1, RowsAreNewerRows
<1>3. ReadJournal(tail) = (CHOOSE r : Collects(r, fs, m, tail))[m]
  BY DEF ReadJournal, ReadBackups, Collects, Files
<1> PICK q : q = [f \in 0..m |-> LastRows(g[f], tail)]
  OBVIOUS
<1>4. Collects(q, fs, m, tail)
  BY <1>1, <1>2, LastRowsAreCollected
<1> PICK p : p = CHOOSE r : Collects(r, fs, m, tail)
  OBVIOUS
<1>5. Collects(p, fs, m, tail)
  BY <1>4
<1>6. p[m] = q[m]
  BY <1>1, <1>4, <1>5, CollectedOnce
<1>7. q[m] = LastRows(g[m], tail)
  BY <1>1
<1> QED BY <1>2, <1>3, <1>6, <1>7, RowsAreOfFiles

\* ReadersSeeTheNewest: read_journal() returns the newest rows, in order and
\* without a gap, whatever was left behind by processes that died.
THEOREM ReadersAreGivenTheNewest == Spec => []ReadersSeeTheNewest
<1>1. TypeOK => ReadersSeeTheNewest
  <2> SUFFICES ASSUME TypeOK, NEW tail \in Tails
               PROVE  ReadJournal(tail) = LastRows(Rows, tail)
    BY DEF ReadersSeeTheNewest
  <2>1. tail \in Nat
    BY TailsAssumption
  <2> QED BY <2>1, ReadJournalIsLastRows
<1> QED BY <1>1, JournalTypes, PTL

\* A step of the journal is a step of the log.
LEMMA StepIsLogStep == IInv /\ [Next]_vars => [Log!Add \/ Log!Forget]_Rows
<1> SUFFICES ASSUME IInv, [Next]_vars PROVE [Log!Add \/ Log!Forget]_Rows
  OBVIOUS
<1>1. CASE UNCHANGED vars
  <2>1. files' = files
    BY <1>1 DEF vars
  <2>2. Rows' = Rows
    BY <2>1, RowsAreOfFiles
  <2> QED BY <2>2
<1>2. CASE Next
  <2>1. RowsStep /\ RowsInOrder
    BY <1>2, RowsStepNext DEF IInv
  <2>2. CASE Rows' = Rows
    BY <2>2
  <2>3. CASE pc = "write" /\ Extended(Rows', Rows, row)
    <3> PICK s, t, x : s = Rows /\ t = Rows' /\ x = row
      OBVIOUS
    <3>1. Older(s, x) /\ Ascending(s, x) /\ t = Append(s, x) /\ x \in Nat
      <4>1. Older(s, x) /\ Ascending(s, x)
        BY <2>1, <2>3 DEF RowsInOrder
      <4>2. x \in Nat
        BY DEF IInv, FilesInv, TypeOK
      <4> QED BY <2>3, <4>1, <4>2 DEF Extended
    <3>2. t # <<>> /\ Len(t) = Len(s) + 1 /\ t[Len(s) + 1] = x
      <4>1. s \in Seq(Nat)
        BY <3>1 DEF Ascending
      <4> QED BY <3>1, <4>1, AppendProperties
    <3>3. \A i \in 1..Len(s) : s[i] < t[Len(t)]
      BY <3>1, <3>2 DEF Older
    <3>4. Log!Newest' = t[Len(t)]
      BY DEF Log!Newest
    <3>5. Log!Add
      BY <3>1, <3>2, <3>3, <3>4 DEF Log!Add
    <3> QED BY <3>5
  <2>4. CASE Forgets(Rows, Rows')
    <3>1. Log!Forget
      BY <2>4 DEF Forgets, Log!Forget
    <3> QED BY <3>1
  <2> QED BY <2>1, <2>2, <2>3, <2>4 DEF RowsStep
<1> QED BY <1>1, <1>2

\* IsRowLog: with its rotation, its repair and the processes that die in them, the
\* journal is a log that forgets nothing but its oldest rows.
THEOREM ImplementsRowLog == Spec => IsRowLog
<1>1. Init => Log!Init
  BY NoRows DEF Log!Init
<1>2. IInv /\ [Next]_vars => [Log!Add \/ Log!Forget]_Rows
  BY StepIsLogStep
<1> QED BY <1>1, <1>2, InvariantHolds, PTL DEF Spec, IsRowLog, Log!Spec

===============================================================================
