------------------------ MODULE SessionManager_proofs ------------------------
(***************************************************************************)
(* Proofs about SessionManager, for any files, kinds of entry, faults and  *)
(* bounds.                                                                 *)
(***************************************************************************)
EXTENDS SessionManager, FiniteSetTheorems, SequenceTheorems, WellFoundedInduction, TLAPS

\* What is proved of numbers by a least counterexample.
LEMMA LeastNat ==
  ASSUME NEW T \in SUBSET Nat, T # {}
  PROVE  \E m \in T : \A n \in T : m <= n
<1> DEFINE R == {p \in Nat \X Nat : p[1] < p[2]}
<1>1. IsWellFoundedOn(R, Nat)
  BY NatLessThanWellFounded DEF OpToRel
<1>2. \A x, y \in Nat : x < y => <<x, y>> \in R
  OBVIOUS
<1> HIDE DEF R
<1>3. PICK m \in T : \A y \in T : ~ (<<y, m>> \in R)
  BY <1>1, WFMin
<1>4. \A n \in T : ~ (n < m)
  BY <1>2, <1>3
<1> QED
  BY <1>4

-----------------------------------------------------------------------------
(* The filter *)

OnlySoFar(g, n, s, S) ==
  /\ g \in [0..n -> Seq(Int)]
  /\ g[0] = <<>>
  /\ \A i \in 1..n : g[i] = IF s[i] \in S THEN Append(g[i - 1], s[i]) ELSE g[i - 1]

\* There is a function that filters, because a shorter one can be extended.
LEMMA OnlyExists ==
  ASSUME NEW s \in Seq(Int), NEW S
  PROVE  \E g : OnlySoFar(g, Len(s), s, S)
<1> DEFINE Bad == {n \in Nat : n <= Len(s) /\ ~\E g : OnlySoFar(g, n, s, S)}
<1>1. Bad = {}
  <2> SUFFICES ASSUME Bad # {} PROVE FALSE
    OBVIOUS
  <2>1. PICK n \in Bad : \A k \in Bad : n <= k
    <3>1. Bad \in SUBSET Nat
      OBVIOUS
    <3> QED
      BY <3>1, LeastNat
  <2>2. CASE n = 0
    <3>1. OnlySoFar([i \in 0..0 |-> <<>>], 0, s, S)
      BY DEF OnlySoFar
    <3> QED
      BY <2>2, <3>1
  <2>3. CASE n # 0
    <3>1. n - 1 \in Nat /\ n - 1 <= Len(s) /\ n \in 1..Len(s) /\ n \in Nat /\ s[n] \in Int
      BY <2>3
    <3>2. n - 1 \notin Bad
      <4>1. ~(n <= n - 1)
        BY <3>1
      <4> HIDE DEF Bad
      <4> QED
        BY <2>1, <4>1
    <3>3. PICK g : OnlySoFar(g, n - 1, s, S)
      BY <3>1, <3>2
    <3> DEFINE new == IF s[n] \in S THEN Append(g[n - 1], s[n]) ELSE g[n - 1]
               h == [i \in 0..n |-> IF i = n THEN new ELSE g[i]]
    <3>4. g \in [0..n - 1 -> Seq(Int)] /\ g[0] = <<>>
      BY <3>3 DEF OnlySoFar
    <3>5. new \in Seq(Int)
      <4>1. g[n - 1] \in Seq(Int)
        BY <3>4, <3>1
      <4> QED
        BY <4>1, <3>1
    <3>6. h \in [0..n -> Seq(Int)]
      <4> HIDE DEF new
      <4>1. ASSUME NEW i \in 0..n PROVE h[i] \in Seq(Int)
        BY <4>1, <3>1, <3>4, <3>5
      <4> QED
        BY <4>1
    <3>7. h[0] = <<>>
      BY <3>1, <3>4
    <3>8. ASSUME NEW i \in 1..n
          PROVE  h[i] = IF s[i] \in S THEN Append(h[i - 1], s[i]) ELSE h[i - 1]
      <4>1. CASE i = n
        <5>1. h[i] = new /\ h[i - 1] = g[n - 1]
          BY <4>1, <3>1
        <5> QED
          BY <5>1, <4>1
      <4>2. CASE i # n
        <5>1. i \in 1..n - 1 /\ h[i] = g[i] /\ h[i - 1] = g[i - 1]
          BY <4>2, <3>1
        <5>2. g[i] = IF s[i] \in S THEN Append(g[i - 1], s[i]) ELSE g[i - 1]
          BY <5>1, <3>3 DEF OnlySoFar
        <5> QED
          BY <5>1, <5>2
      <4> QED
        BY <4>1, <4>2
    <3> HIDE DEF h
    <3>9. OnlySoFar(h, n, s, S)
      BY <3>6, <3>7, <3>8 DEF OnlySoFar
    <3> QED
      BY <3>9
  <2> QED
    BY <2>2, <2>3
<1>2. Len(s) \in Nat /\ Len(s) <= Len(s)
  OBVIOUS
<1> QED
  BY <1>1, <1>2

\* OnlyUpTo is that function: what it makes of a list, element by element.
LEMMA OnlyUpToIs ==
  ASSUME NEW s \in Seq(Int), NEW S
  PROVE  LET f == OnlyUpTo(s, S)
         IN  /\ f[0] = <<>>
             /\ \A i \in 1..Len(s) : f[i] = IF s[i] \in S THEN Append(f[i - 1], s[i]) ELSE f[i - 1]
<1> DEFINE Rec(f) ==
      f = [i \in 0..Len(s) |-> IF i = 0 THEN <<>>
                               ELSE IF s[i] \in S THEN Append(f[i - 1], s[i]) ELSE f[i - 1]]
<1>1. OnlyUpTo(s, S) = CHOOSE f : Rec(f)
  BY DEF OnlyUpTo
<1>2. PICK g : OnlySoFar(g, Len(s), s, S)
  BY OnlyExists
<1>3. g \in [0..Len(s) -> Seq(Int)] /\ Len(s) \in Nat
  BY <1>2 DEF OnlySoFar
<1>4. \A i \in 0..Len(s) :
        g[i] = IF i = 0 THEN <<>> ELSE IF s[i] \in S THEN Append(g[i - 1], s[i]) ELSE g[i - 1]
  <2> SUFFICES ASSUME NEW i \in 0..Len(s)
               PROVE  g[i] = IF i = 0 THEN <<>>
                             ELSE IF s[i] \in S THEN Append(g[i - 1], s[i]) ELSE g[i - 1]
    OBVIOUS
  <2>1. i = 0 \/ i \in 1..Len(s)
    BY <1>3
  <2> QED
    BY <2>1, <1>2 DEF OnlySoFar
<1>5. Rec(g)
  BY <1>3, <1>4
<1> HIDE DEF Rec
<1>6. Rec(OnlyUpTo(s, S))
  BY <1>1, <1>5
<1> DEFINE f == OnlyUpTo(s, S)
<1>7. f = [i \in 0..Len(s) |-> IF i = 0 THEN <<>>
                               ELSE IF s[i] \in S THEN Append(f[i - 1], s[i]) ELSE f[i - 1]]
  BY <1>6 DEF Rec
<1> HIDE DEF f
<1>8. f[0] = <<>>
  BY <1>7, <1>3
<1>9. ASSUME NEW i \in 1..Len(s)
      PROVE  f[i] = IF s[i] \in S THEN Append(f[i - 1], s[i]) ELSE f[i - 1]
  <2>1. i \in 0..Len(s) /\ i # 0
    BY <1>3
  <2> QED
    BY <1>7, <2>1
<1> QED
  BY <1>8, <1>9 DEF f

Once(s) == \A i, j \in 1..Len(s) : s[i] = s[j] => i = j

\* f is what is left of the first n items of s.
Filtered(f, n, s, S) ==
  /\ f \in Seq(Int)
  /\ \A j \in 1..Len(f) : f[j] \in S /\ \E k \in 1..n : f[j] = s[k]
  /\ \A k \in 1..n : s[k] \in S => \E j \in 1..Len(f) : f[j] = s[k]
  /\ (\A k, l \in 1..n : s[k] = s[l] => k = l) => Once(f)
  /\ (\A k \in 1..n : s[k] \in S) => Len(f) = n /\ \A k \in 1..n : f[k] = s[k]

\* One more item.
LEMMA FilteredMore ==
  ASSUME NEW s \in Seq(Int), NEW S, NEW n \in 1..Len(s), NEW f, Filtered(f, n - 1, s, S)
  PROVE  Filtered(IF s[n] \in S THEN Append(f, s[n]) ELSE f, n, s, S)
<1>1. f \in Seq(Int) /\ s[n] \in Int /\ Len(f) \in Nat /\ n \in Nat /\ n - 1 \in Nat
  BY DEF Filtered
<1>2. CASE s[n] \notin S
  <2>1. \A k \in 1..n : k \in 1..n - 1 \/ k = n
    BY <1>1
  <2>2. \A j \in 1..Len(f) : f[j] \in S /\ \E k \in 1..n : f[j] = s[k]
    BY <1>1 DEF Filtered
  <2>3. \A k \in 1..n : s[k] \in S => \E j \in 1..Len(f) : f[j] = s[k]
    BY <1>2, <2>1 DEF Filtered
  <2>4. (\A k, l \in 1..n : s[k] = s[l] => k = l) => Once(f)
    BY <1>1 DEF Filtered
  <2>5. ~(\A k \in 1..n : s[k] \in S)
    BY <1>1, <1>2
  <2>6. Filtered(f, n, s, S)
    BY <1>1, <2>2, <2>3, <2>4, <2>5 DEF Filtered
  <2> QED
    BY <1>2, <2>6
<1>3. CASE s[n] \in S
  <2> DEFINE g == Append(f, s[n])
  <2>1. g \in Seq(Int) /\ Len(g) = Len(f) + 1 /\ g[Len(f) + 1] = s[n] /\ \A j \in 1..Len(f) : g[j] = f[j]
    BY <1>1, AppendProperties
  <2>2. \A j \in 1..Len(g) : j \in 1..Len(f) \/ j = Len(f) + 1
    BY <1>1, <2>1, SMTT(20), ZenonT(20)
  <2>3. \A k \in 1..n : k \in 1..n - 1 \/ k = n
    BY <1>1
  <2> HIDE DEF g
  <2>4. ASSUME NEW j \in 1..Len(g) PROVE g[j] \in S /\ \E k \in 1..n : g[j] = s[k]
    <3>1. CASE j \in 1..Len(f)
      <4>1. f[j] \in S /\ \E k \in 1..n - 1 : f[j] = s[k]
        BY <3>1 DEF Filtered
      <4>2. \A k \in 1..n - 1 : k \in 1..n
        BY <1>1
      <4> QED
        BY <2>1, <3>1, <4>1, <4>2
    <3>2. CASE j = Len(f) + 1
      BY <1>3, <2>1, <3>2
    <3> QED
      BY <2>2, <3>1, <3>2
  <2>5. ASSUME NEW k \in 1..n, s[k] \in S PROVE \E j \in 1..Len(g) : g[j] = s[k]
    <3>1. CASE k \in 1..n - 1
      <4>1. PICK j \in 1..Len(f) : f[j] = s[k]
        BY <2>5, <3>1 DEF Filtered
      <4>2. j \in 1..Len(g) /\ g[j] = f[j]
        BY <1>1, <2>1
      <4> QED
        BY <4>1, <4>2
    <3>2. CASE k = n
      <4>1. Len(f) + 1 \in 1..Len(g) /\ g[Len(f) + 1] = s[k]
        BY <1>1, <2>1, <3>2
      <4> QED
        BY <4>1
    <3> QED
      BY <2>3, <3>1, <3>2
  <2>6. ASSUME \A k, l \in 1..n : s[k] = s[l] => k = l PROVE Once(g)
    <3>1. Once(f)
      BY <1>1, <2>6 DEF Filtered
    <3>2. \A j \in 1..Len(f) : f[j] # s[n]
      <4> SUFFICES ASSUME NEW j \in 1..Len(f), f[j] = s[n] PROVE FALSE
        OBVIOUS
      <4>1. PICK k \in 1..n - 1 : f[j] = s[k]
        BY DEF Filtered
      <4>2. k \in 1..n /\ k # n /\ n \in 1..n
        BY <1>1
      <4>3. s[k] = s[n]
        BY <4>1
      <4> QED
        BY <2>6, <4>2, <4>3
    <3>3. ASSUME NEW i \in 1..Len(g), NEW j \in 1..Len(g), g[i] = g[j] PROVE i = j
      BY <2>1, <2>2, <3>1, <3>2, <3>3 DEF Once
    <3> QED
      BY <3>3 DEF Once
  <2>7. ASSUME \A k \in 1..n : s[k] \in S PROVE Len(g) = n /\ \A k \in 1..n : g[k] = s[k]
    <3>1. Len(f) = n - 1 /\ \A k \in 1..n - 1 : f[k] = s[k]
      BY <1>1, <2>7 DEF Filtered
    <3> QED
      BY <1>1, <2>1, <2>3, <3>1
  <2>8. Filtered(g, n, s, S)
    BY <2>1, <2>4, <2>5, <2>6, <2>7 DEF Filtered
  <2> QED
    BY <1>3, <2>8 DEF g
<1> QED
  BY <1>2, <1>3

\* What Only returns.
LEMMA OnlyFilters ==
  ASSUME NEW s \in Seq(Int), NEW S
  PROVE  Filtered(Only(s, S), Len(s), s, S)
<1> DEFINE f == OnlyUpTo(s, S)
           Bad == {n \in Nat : n <= Len(s) /\ ~Filtered(f[n], n, s, S)}
<1>1. /\ f[0] = <<>>
      /\ \A i \in 1..Len(s) : f[i] = IF s[i] \in S THEN Append(f[i - 1], s[i]) ELSE f[i - 1]
  BY OnlyUpToIs
<1> HIDE DEF f
<1>2. Bad = {}
  <2> SUFFICES ASSUME Bad # {} PROVE FALSE
    OBVIOUS
  <2>1. PICK n \in Bad : \A k \in Bad : n <= k
    <3>1. Bad \in SUBSET Nat
      OBVIOUS
    <3> QED
      BY <3>1, LeastNat
  <2>2. n # 0
    <3>1. Filtered(<<>>, 0, s, S)
      BY DEF Filtered, Once
    <3> QED
      BY <1>1, <2>1, <3>1
  <2>3. n \in 1..Len(s) /\ n - 1 \in Nat /\ n - 1 <= Len(s)
    BY <2>1, <2>2
  <2>4. n - 1 \notin Bad
    BY <2>1, <2>3
  <2>5. Filtered(f[n - 1], n - 1, s, S)
    BY <2>3, <2>4
  <2>6. Filtered(f[n], n, s, S)
    BY <1>1, <2>3, <2>5, FilteredMore
  <2> QED
    BY <2>1, <2>6
<1>3. Len(s) \in Nat /\ Len(s) <= Len(s)
  OBVIOUS
<1> QED
  BY <1>2, <1>3 DEF Only, f

\* The elements that are left.
LEMMA OnlyElements ==
  ASSUME NEW s \in Seq(Int), NEW S
  PROVE  /\ Only(s, S) \in Seq(Int)
         /\ ToSet(Only(s, S)) = ToSet(s) \intersect S
<1> DEFINE f == Only(s, S)
<1>1. Filtered(f, Len(s), s, S)
  BY OnlyFilters
<1> HIDE DEF f
<1>2. f \in Seq(Int) /\ DOMAIN f = 1..Len(f) /\ DOMAIN s = 1..Len(s)
  BY <1>1 DEF Filtered
<1>3. ASSUME NEW x \in ToSet(f) PROVE x \in ToSet(s) \intersect S
  <2>1. PICK j \in 1..Len(f) : x = f[j]
    BY <1>2 DEF ToSet
  <2>2. f[j] \in S /\ \E k \in 1..Len(s) : f[j] = s[k]
    BY <1>1 DEF Filtered
  <2> QED
    BY <1>2, <2>1, <2>2 DEF ToSet
<1>4. ASSUME NEW x \in ToSet(s) \intersect S PROVE x \in ToSet(f)
  <2>1. PICK k \in 1..Len(s) : x = s[k]
    BY <1>2 DEF ToSet
  <2>2. \E j \in 1..Len(f) : f[j] = s[k]
    BY <1>1, <2>1 DEF Filtered
  <2> QED
    BY <1>2, <2>1, <2>2 DEF ToSet
<1> QED
  BY <1>2, <1>3, <1>4 DEF f

\* A list without a repeated item stays one.
LEMMA OnlyOnce ==
  ASSUME NEW s \in Seq(Int), NEW S, Once(s)
  PROVE  Once(Only(s, S))
<1>1. Filtered(Only(s, S), Len(s), s, S)
  BY OnlyFilters
<1>2. \A k, l \in 1..Len(s) : s[k] = s[l] => k = l
  BY DEF Once
<1> QED
  BY <1>1, <1>2 DEF Filtered

\* A list that has nothing to leave out stays as it is.
LEMMA OnlyAll ==
  ASSUME NEW s \in Seq(Int), NEW S, ToSet(s) \subseteq S
  PROVE  Only(s, S) = s
<1> DEFINE f == Only(s, S)
<1>1. Filtered(f, Len(s), s, S)
  BY OnlyFilters
<1> HIDE DEF f
<1>2. \A k \in 1..Len(s) : s[k] \in S
  BY DEF ToSet
<1>3. f \in Seq(Int) /\ Len(f) = Len(s) /\ \A k \in 1..Len(s) : f[k] = s[k]
  BY <1>1, <1>2 DEF Filtered
<1>4. f = s
  BY <1>3, SeqEqual
<1> QED
  BY <1>4 DEF f

\* The same of a list of natural numbers.
LEMMA OnlyNat ==
  ASSUME NEW n \in Nat, NEW s \in Seq(0..n), NEW S
  PROVE  Only(s, S) \in Seq(0..n)
<1> DEFINE f == Only(s, S)
<1>1. s \in Seq(Int)
  OBVIOUS
<1>2. f \in Seq(Int) /\ ToSet(f) \subseteq ToSet(s)
  BY <1>1, OnlyElements
<1> HIDE DEF f
<1>3. \A i \in 1..Len(f) : f[i] \in 0..n
  <2>1. DOMAIN f = 1..Len(f)
    BY <1>2
  <2>2. \A x \in ToSet(s) : x \in 0..n
    BY DEF ToSet
  <2> QED
    BY <1>2, <2>1, <2>2 DEF ToSet
<1>4. f \in Seq(0..n)
  BY <1>2, <1>3
<1> QED
  BY <1>4 DEF f

-----------------------------------------------------------------------------
(* Branches *)

\* What the tree is: a parent is older than its child.
Earlier(tree) == \A i \in DOMAIN tree : tree[i].parent < i

\* Branches and Branch, for any tree.
PathsIn(tree, known) ==
  LET path[i \in 0..Len(tree)] ==
        IF i \in known THEN Append(path[tree[i].parent], i) ELSE <<>>
  IN  path

PathIn(tree, known, id) == PathsIn(tree, known)[id]

LEMMA BranchIn == \A known, id : Branch(known, id) = PathIn(log, known, id)
BY DEF Branch, Branches, PathIn, PathsIn

\* What every entry is.
LEMMA TreeFacts ==
  ASSUME NEW tree \in Seq(Entry)
  PROVE  /\ Len(tree) \in Nat /\ DOMAIN tree = 1..Len(tree)
         /\ \A i \in 1..Len(tree) :
              tree[i].parent \in Nat /\ tree[i].ref \in Nat /\ tree[i].kind \in AllKinds
<1>1. Len(tree) \in Nat /\ DOMAIN tree = 1..Len(tree)
  OBVIOUS
<1>2. \A i \in 1..Len(tree) : tree[i] \in Entry
  OBVIOUS
<1>3. \A e \in Entry : e.parent \in Nat /\ e.ref \in Nat /\ e.kind \in AllKinds
  BY DEF Entry
<1> QED
  BY <1>1, <1>2, <1>3

BranchSoFar(g, n, tree, known) ==
  /\ g \in [0..n -> Seq(Nat)]
  /\ \A i \in 0..n : g[i] = IF i \in known THEN Append(g[tree[i].parent], i) ELSE <<>>

\* There is a function that follows the parents.
LEMMA BranchesExist ==
  ASSUME NEW tree \in Seq(Entry), Earlier(tree), NEW known \in SUBSET (1..Len(tree))
  PROVE  \E g : BranchSoFar(g, Len(tree), tree, known)
<1>1. /\ Len(tree) \in Nat /\ DOMAIN tree = 1..Len(tree)
      /\ \A i \in 1..Len(tree) : tree[i].parent \in Nat /\ tree[i].parent < i
  BY TreeFacts DEF Earlier
<1> DEFINE Bad == {n \in Nat : n <= Len(tree) /\ ~\E g : BranchSoFar(g, n, tree, known)}
<1>2. Bad = {}
  <2> SUFFICES ASSUME Bad # {} PROVE FALSE
    OBVIOUS
  <2>1. PICK n \in Bad : \A k \in Bad : n <= k
    <3>1. Bad \in SUBSET Nat
      OBVIOUS
    <3> QED
      BY <3>1, LeastNat
  <2>2. CASE n = 0
    <3>1. 0 \notin known
      OBVIOUS
    <3>2. BranchSoFar([i \in 0..0 |-> <<>>], 0, tree, known)
      BY <3>1 DEF BranchSoFar
    <3> QED
      BY <2>2, <3>2
  <2>3. CASE n # 0
    <3>1. n - 1 \in Nat /\ n - 1 <= Len(tree) /\ n \in 1..Len(tree) /\ n \in Nat
      BY <2>3
    <3>2. n - 1 \notin Bad
      <4>1. ~(n <= n - 1)
        BY <3>1
      <4> HIDE DEF Bad
      <4> QED
        BY <2>1, <4>1
    <3>3. PICK g : BranchSoFar(g, n - 1, tree, known)
      BY <3>1, <3>2
    <3> DEFINE new == IF n \in known THEN Append(g[tree[n].parent], n) ELSE <<>>
               h == [i \in 0..n |-> IF i = n THEN new ELSE g[i]]
    <3>4. g \in [0..n - 1 -> Seq(Nat)]
      BY <3>3 DEF BranchSoFar
    <3>5. new \in Seq(Nat) /\ tree[n].parent \in 0..n - 1
      <4>1. tree[n].parent \in 0..n - 1
        BY <1>1, <3>1
      <4>2. g[tree[n].parent] \in Seq(Nat)
        BY <3>4, <4>1
      <4> QED
        BY <3>1, <4>1, <4>2
    <3>6. h \in [0..n -> Seq(Nat)]
      <4> HIDE DEF new
      <4>1. ASSUME NEW i \in 0..n PROVE h[i] \in Seq(Nat)
        BY <4>1, <3>1, <3>4, <3>5
      <4> QED
        BY <4>1
    <3>7. ASSUME NEW i \in 0..n
          PROVE  h[i] = IF i \in known THEN Append(h[tree[i].parent], i) ELSE <<>>
      <4>1. CASE i = n
        <5>1. h[i] = new /\ h[tree[n].parent] = g[tree[n].parent]
          BY <4>1, <3>1, <3>5
        <5> QED
          BY <5>1, <4>1
      <4>2. CASE i # n
        <5>1. i \in 0..n - 1 /\ h[i] = g[i]
          BY <4>2, <3>1
        <5>2. g[i] = IF i \in known THEN Append(g[tree[i].parent], i) ELSE <<>>
          BY <5>1, <3>3 DEF BranchSoFar
        <5>3. i \in known => h[tree[i].parent] = g[tree[i].parent]
          <6> SUFFICES ASSUME i \in known PROVE h[tree[i].parent] = g[tree[i].parent]
            OBVIOUS
          <6>1. tree[i].parent \in Nat /\ tree[i].parent < i
            BY <1>1
          <6>2. tree[i].parent \in 0..n /\ tree[i].parent # n
            BY <3>1, <5>1, <6>1
          <6> QED
            BY <6>2
        <5> HIDE DEF h
        <5> QED
          BY <5>1, <5>2, <5>3
      <4> QED
        BY <4>1, <4>2
    <3> HIDE DEF h
    <3>8. BranchSoFar(h, n, tree, known)
      BY <3>6, <3>7 DEF BranchSoFar
    <3> QED
      BY <3>8
  <2> QED
    BY <2>2, <2>3
<1> QED
  BY <1>1, <1>2

\* Branch follows the parents.
LEMMA BranchIs ==
  ASSUME NEW tree \in Seq(Entry), Earlier(tree), NEW known \in SUBSET (1..Len(tree)), NEW id \in 0..Len(tree)
  PROVE  PathIn(tree, known, id) = IF id \in known THEN Append(PathIn(tree, known, tree[id].parent), id) ELSE <<>>
<1> DEFINE Rec(f) ==
      f = [i \in 0..Len(tree) |-> IF i \in known THEN Append(f[tree[i].parent], i) ELSE <<>>]
<1>1. PathsIn(tree, known) = CHOOSE f : Rec(f)
  BY DEF PathsIn
<1>2. PICK g : BranchSoFar(g, Len(tree), tree, known)
  BY BranchesExist
<1>3. Rec(g)
  BY <1>2 DEF BranchSoFar
<1> HIDE DEF Rec
<1>4. Rec(PathsIn(tree, known))
  BY <1>1, <1>3
<1> DEFINE f == PathsIn(tree, known)
<1>5. f = [i \in 0..Len(tree) |-> IF i \in known THEN Append(f[tree[i].parent], i) ELSE <<>>]
  BY <1>4 DEF Rec
<1> HIDE DEF f
<1>6. f[id] = IF id \in known THEN Append(f[tree[id].parent], id) ELSE <<>>
  BY <1>5
<1> QED
  BY <1>6 DEF PathIn, f

\* A path is a list of known entries, from old to new, that ends with the entry
\* asked for.
PathTo(path, id, known) ==
  /\ path \in Seq(Int)
  /\ \A j \in 1..Len(path) : path[j] \in known /\ path[j] <= id
  /\ Once(path)
  /\ id \in known => Len(path) > 0 /\ path[Len(path)] = id

LEMMA PathMore ==
  ASSUME NEW known, NEW parent \in Nat, NEW id \in known, id \in Nat, parent < id,
         NEW path, PathTo(path, parent, known)
  PROVE  PathTo(Append(path, id), id, known)
<1> DEFINE longer == Append(path, id)
<1>1. /\ path \in Seq(Int) /\ Len(path) \in Nat
      /\ \A j \in 1..Len(path) : path[j] \in Int /\ path[j] \in known /\ path[j] <= parent
  BY DEF PathTo
<1>2. /\ longer \in Seq(Int) /\ Len(longer) = Len(path) + 1 /\ longer[Len(path) + 1] = id
      /\ \A j \in 1..Len(path) : longer[j] = path[j]
  BY <1>1, AppendProperties
<1>3. \A j \in 1..Len(longer) : j \in 1..Len(path) \/ j = Len(path) + 1
  BY <1>1, <1>2
<1>4. \A j \in 1..Len(path) : path[j] <= id /\ path[j] # id
  BY <1>1
<1> HIDE DEF longer
<1>5. \A j \in 1..Len(longer) : longer[j] \in known /\ longer[j] <= id
  <2> SUFFICES ASSUME NEW j \in 1..Len(longer) PROVE longer[j] \in known /\ longer[j] <= id
    OBVIOUS
  <2>1. CASE j \in 1..Len(path)
    <3>1. longer[j] = path[j]
      BY <1>2, <2>1
    <3>2. path[j] \in known
      BY <1>1, <2>1
    <3>3. path[j] <= id
      BY <1>4, <2>1
    <3> QED
      BY <3>1, <3>2, <3>3
  <2>2. CASE j = Len(path) + 1
    <3>1. longer[j] = id
      BY <1>2, <2>2
    <3> QED
      BY <3>1
  <2> QED
    BY <1>3, <2>1, <2>2
<1>6. Once(longer)
  <2>1. Once(path)
    BY DEF PathTo
  <2>2. ASSUME NEW i \in 1..Len(longer), NEW j \in 1..Len(longer), longer[i] = longer[j] PROVE i = j
    <3>1. CASE i \in 1..Len(path) /\ j \in 1..Len(path)
      BY <1>2, <2>1, <2>2, <3>1 DEF Once
    <3>2. CASE i \in 1..Len(path) /\ j = Len(path) + 1
      BY <1>2, <1>4, <2>2, <3>2
    <3>3. CASE i = Len(path) + 1 /\ j \in 1..Len(path)
      BY <1>2, <1>4, <2>2, <3>3
    <3> QED
      BY <1>3, <3>1, <3>2, <3>3
  <2> QED
    BY <2>2 DEF Once
<1>7. PathTo(longer, id, known)
  BY <1>1, <1>2, <1>5, <1>6 DEF PathTo
<1> QED
  BY <1>7 DEF longer

LEMMA BranchPath ==
  ASSUME NEW tree \in Seq(Entry), Earlier(tree), NEW known \in SUBSET (1..Len(tree)), NEW id \in 0..Len(tree)
  PROVE  PathTo(PathIn(tree, known, id), id, known)
<1>1. /\ Len(tree) \in Nat /\ DOMAIN tree = 1..Len(tree)
      /\ \A i \in 1..Len(tree) : tree[i].parent \in Nat /\ tree[i].parent < i
  BY TreeFacts DEF Earlier
<1> DEFINE Bad == {n \in Nat : n <= Len(tree) /\ ~PathTo(PathIn(tree, known, n), n, known)}
<1>2. Bad = {}
  <2> SUFFICES ASSUME Bad # {} PROVE FALSE
    OBVIOUS
  <2>1. PICK n \in Bad : \A k \in Bad : n <= k
    <3>1. Bad \in SUBSET Nat
      OBVIOUS
    <3> QED
      BY <3>1, LeastNat
  <2>2. n \in Nat /\ n \in 0..Len(tree) /\ ~PathTo(PathIn(tree, known, n), n, known)
    BY <1>1
  <2>3. n \in known
    <3> SUFFICES ASSUME n \notin known PROVE FALSE
      OBVIOUS
    <3>1. PathIn(tree, known, n) = <<>>
      BY <2>2, BranchIs
    <3>2. PathTo(<<>>, n, known)
      BY DEF PathTo, Once
    <3> QED
      BY <2>2, <3>1, <3>2
  <2>4. n \in 1..Len(tree) /\ tree[n].parent \in Nat /\ tree[n].parent < n
    BY <1>1, <2>3
  <2>5. PathTo(PathIn(tree, known, tree[n].parent), tree[n].parent, known)
    <3>1. ~(n <= tree[n].parent) /\ tree[n].parent <= Len(tree)
      BY <1>1, <2>2, <2>4
    <3>2. tree[n].parent \notin Bad
      <4> HIDE DEF Bad
      <4> QED
        BY <2>1, <3>1
    <3> QED
      BY <2>4, <3>1, <3>2
  <2>6. PathIn(tree, known, n) = Append(PathIn(tree, known, tree[n].parent), n)
    BY <2>2, <2>3, BranchIs
  <2>7. PathTo(PathIn(tree, known, n), n, known)
    BY <2>2, <2>3, <2>4, <2>5, <2>6, PathMore
  <2> QED
    BY <2>2, <2>7
<1> QED
  BY <1>1, <1>2

-----------------------------------------------------------------------------
(* Labels *)

\* LabelsBut, for any tree.
LabelsIn(tree, s, skipped) ==
  {t \in 1..Len(tree) :
     \E k \in DOMAIN s :
       /\ s[k] # Header /\ s[k] \notin skipped
       /\ tree[s[k]].kind = "label" /\ tree[s[k]].ref = t
       /\ tree[s[k]].on
       /\ \A m \in DOMAIN s :
            (/\ s[m] # Header /\ s[m] \notin skipped
             /\ tree[s[m]].kind = "label" /\ tree[s[m]].ref = t) => m <= k}

LEMMA LabelsOfIs ==
  /\ \A s, skipped : LabelsBut(s, skipped) = LabelsIn(log, s, skipped)
  /\ \A s : LabelsOf(s) = LabelsIn(log, s, {})
<1>1. \A s, skipped : LabelsBut(s, skipped) = LabelsIn(log, s, skipped)
  BY DEF LabelsBut, LabelsIn, IsKind
<1> QED
  BY <1>1 DEF LabelsOf

\* What StoreInv says of labels.
LabelsInv == unmarked \subseteq 1..Len(log) /\ LabelsAreCurrent /\ WritingLabel

LEMMA LabelsNow ==
  LabelsAreCurrent <=>
    /\ labelsById = LabelsIn(log, fileEntries, unmarked)
    /\ unmarked \ failed \subseteq (IF pending = <<>> THEN {} ELSE {Last(pending)})
BY LabelsOfIs DEF LabelsAreCurrent

LEMMA LabelsNext ==
  LabelsAreCurrent' <=>
    /\ labelsById' = LabelsIn(log', fileEntries', unmarked')
    /\ unmarked' \ failed' \subseteq (IF pending' = <<>> THEN {} ELSE {Last(pending')})
BY DEF LabelsAreCurrent, LabelsBut, LabelsIn, IsKind

LEMMA LabelsHold ==
  ASSUME StoreInv
  PROVE  LabelsInv /\ labelsById = LabelsIn(log, fileEntries, unmarked)
BY LabelsNow DEF StoreInv, TypeOK, LabelsInv

\* An index that is built anew leaves no label out.
LEMMA LabelsRebuilt ==
  ASSUME labelsById' = LabelsIn(log', fileEntries', {}), unmarked' = {}
  PROVE  LabelsInv'
<1>1. LabelsAreCurrent'
  BY LabelsNext
<1> QED
  BY <1>1 DEF LabelsInv, WritingLabel

LEMMA LabelsKept ==
  ASSUME StoreInv, UNCHANGED <<log, fileEntries, labelsById, unmarked, pending, failed>>
  PROVE  LabelsInv'
<1>1. LabelsInv /\ labelsById = LabelsIn(log, fileEntries, unmarked)
  BY LabelsHold
<1>2. LabelsAreCurrent'
  BY <1>1, LabelsNext, LabelsNow DEF LabelsInv
<1>3. WritingLabel'
  BY <1>1 DEF LabelsInv, WritingLabel, IsKind
<1> QED
  BY <1>1, <1>2, <1>3 DEF LabelsInv

\* The labels with one more entry, whose id is given.
Relabelled(labels, e, id, skipped) ==
  IF e.kind # "label" \/ id \in skipped THEN labels
  ELSE IF e.on THEN labels \union {e.ref} ELSE labels \ {e.ref}

\* One more entry: a label decides about its target, unless it is skipped, and
\* another entry about none.
LEMMA LabelsAppend ==
  ASSUME NEW tree \in Seq(Entry), NEW s \in Seq(0..Len(tree)), NEW e \in Entry,
         \A id \in DOMAIN tree : tree[id].kind = "label" => tree[id].ref \in DOMAIN tree,
         e.kind = "label" => e.ref \in DOMAIN tree,
         NEW skipped
  PROVE  LabelsIn(Append(tree, e), Append(s, Len(tree) + 1), skipped)
           = Relabelled(LabelsIn(tree, s, skipped), e, Len(tree) + 1, skipped)
<1> DEFINE n == Len(tree)
           more == Append(tree, e)
           r == Append(s, n + 1)
           About(k, t) == /\ s[k] # Header /\ s[k] \notin skipped
                          /\ tree[s[k]].kind = "label" /\ tree[s[k]].ref = t
           Now(k, t) == /\ r[k] # Header /\ r[k] \notin skipped
                        /\ more[r[k]].kind = "label" /\ more[r[k]].ref = t
<1>1. /\ n \in Nat /\ DOMAIN tree = 1..n /\ Len(more) = n + 1 /\ more[n + 1] = e
      /\ \A i \in 1..n : more[i] = tree[i]
  BY AppendProperties
<1>2. /\ DOMAIN s = 1..Len(s) /\ Len(s) \in Nat /\ DOMAIN r = 1..Len(s) + 1 /\ r[Len(s) + 1] = n + 1
      /\ \A k \in 1..Len(s) : r[k] = s[k] /\ s[k] \in 0..n
  BY <1>1, AppendProperties
<1> HIDE DEF n, more, r
<1>3. ASSUME NEW k \in 1..Len(s), NEW t
      PROVE  /\ Now(k, t) <=> About(k, t)
             /\ About(k, t) => more[r[k]].on = tree[s[k]].on /\ t \in 1..n
  <2>1. r[k] = s[k] /\ s[k] \in 0..n
    BY <1>2
  <2>2. CASE s[k] = 0
    BY <2>1, <2>2 DEF Header
  <2>3. CASE s[k] # 0
    <3>1. s[k] \in 1..n
      BY <1>1, <2>1, <2>3
    <3>2. more[r[k]] = tree[s[k]]
      BY <1>1, <2>1, <3>1
    <3>3. tree[s[k]].kind = "label" => tree[s[k]].ref \in 1..n
      BY <1>1, <3>1
    <3> QED
      BY <2>1, <3>2, <3>3
  <2> QED
    BY <2>2, <2>3
<1>4. \A t : Now(Len(s) + 1, t) <=> n + 1 \notin skipped /\ e.kind = "label" /\ e.ref = t
  BY <1>1, <1>2 DEF Header
<1>5. LabelsIn(tree, s, skipped)
        = {t \in 1..n : \E k \in 1..Len(s) :
             About(k, t) /\ tree[s[k]].on /\ \A m \in 1..Len(s) : About(m, t) => m <= k}
  BY <1>2 DEF LabelsIn, n
<1>6. LabelsIn(more, r, skipped)
        = {t \in 1..n + 1 : \E k \in 1..Len(s) + 1 :
             Now(k, t) /\ more[r[k]].on /\ \A m \in 1..Len(s) + 1 : Now(m, t) => m <= k}
  BY <1>1, <1>2 DEF LabelsIn
<1> HIDE DEF About, Now
<1>7. \A k : k \in 1..Len(s) + 1 <=> k \in 1..Len(s) \/ k = Len(s) + 1
  BY <1>2
<1>8. ASSUME NEW t, ~(n + 1 \notin skipped /\ e.kind = "label" /\ e.ref = t)
      PROVE  t \in LabelsIn(more, r, skipped) <=> t \in LabelsIn(tree, s, skipped)
  <2>1. ~Now(Len(s) + 1, t)
    BY <1>4, <1>8
  <2>2. ASSUME t \in LabelsIn(more, r, skipped) PROVE t \in LabelsIn(tree, s, skipped)
    <3>1. PICK k \in 1..Len(s) + 1 :
            Now(k, t) /\ more[r[k]].on /\ \A m \in 1..Len(s) + 1 : Now(m, t) => m <= k
      BY <1>6, <2>2
    <3>2. k \in 1..Len(s)
      BY <1>7, <2>1, <3>1
    <3>3. About(k, t) /\ tree[s[k]].on /\ t \in 1..n
      BY <1>3, <3>1, <3>2
    <3>4. \A m \in 1..Len(s) : About(m, t) => m <= k
      BY <1>3, <1>7, <3>1
    <3> QED
      BY <1>5, <3>2, <3>3, <3>4
  <2>3. ASSUME t \in LabelsIn(tree, s, skipped) PROVE t \in LabelsIn(more, r, skipped)
    <3>1. PICK k \in 1..Len(s) :
            About(k, t) /\ tree[s[k]].on /\ \A m \in 1..Len(s) : About(m, t) => m <= k
      BY <1>5, <2>3
    <3>2. Now(k, t) /\ more[r[k]].on /\ t \in 1..n + 1
      <4>1. Now(k, t) /\ more[r[k]].on /\ t \in 1..n
        BY <1>3, <3>1
      <4> QED
        BY <1>1, <4>1
    <3>3. \A m \in 1..Len(s) + 1 : Now(m, t) => m <= k
      BY <1>3, <1>7, <2>1, <3>1
    <3> QED
      BY <1>6, <1>7, <3>2, <3>3
  <2> QED
    BY <2>2, <2>3
<1>9. ASSUME NEW t, n + 1 \notin skipped, e.kind = "label", e.ref = t
      PROVE  t \in LabelsIn(more, r, skipped) <=> e.on
  <2>1. Now(Len(s) + 1, t) /\ more[r[Len(s) + 1]].on = e.on /\ t \in 1..n + 1
    BY <1>1, <1>2, <1>4, <1>9
  <2>2. ASSUME e.on PROVE t \in LabelsIn(more, r, skipped)
    <3>1. \A m \in 1..Len(s) + 1 : m <= Len(s) + 1
      BY <1>2
    <3>2. Len(s) + 1 \in 1..Len(s) + 1
      BY <1>2
    <3> QED
      BY <1>6, <2>1, <2>2, <3>1, <3>2
  <2>3. ASSUME t \in LabelsIn(more, r, skipped) PROVE e.on
    <3>1. PICK k \in 1..Len(s) + 1 :
            Now(k, t) /\ more[r[k]].on /\ \A m \in 1..Len(s) + 1 : Now(m, t) => m <= k
      BY <1>6, <2>3
    <3>2. Len(s) + 1 \in 1..Len(s) + 1
      BY <1>2
    <3>3. Len(s) + 1 <= k
      BY <2>1, <3>1, <3>2
    <3>4. k = Len(s) + 1
      BY <1>2, <3>1, <3>3
    <3> QED
      BY <2>1, <3>1, <3>4
  <2> QED
    BY <2>2, <2>3
<1>10. LabelsIn(more, r, skipped)
         = IF e.kind # "label" \/ n + 1 \in skipped THEN LabelsIn(tree, s, skipped)
           ELSE IF e.on THEN LabelsIn(tree, s, skipped) \union {e.ref} ELSE LabelsIn(tree, s, skipped) \ {e.ref}
  <2>1. CASE e.kind # "label" \/ n + 1 \in skipped
    BY <1>8, <2>1
  <2>2. CASE e.kind = "label" /\ n + 1 \notin skipped /\ e.on
    BY <1>8, <1>9, <2>2
  <2>3. CASE e.kind = "label" /\ n + 1 \notin skipped /\ ~e.on
    BY <1>8, <1>9, <2>3
  <2> QED
    BY <2>1, <2>2, <2>3
<1> QED
  BY <1>10 DEF more, r, n, Relabelled

\* Only the entries of the log that are skipped matter.
LEMMA SkippedSame ==
  ASSUME NEW tree, NEW s \in Seq(0..Len(tree)), Len(tree) \in Nat,
         NEW A, NEW B, \A i \in 1..Len(tree) : i \in A <=> i \in B
  PROVE  LabelsIn(tree, s, A) = LabelsIn(tree, s, B)
<1> DEFINE InA(k, t) == s[k] # Header /\ s[k] \notin A /\ tree[s[k]].kind = "label" /\ tree[s[k]].ref = t
           InB(k, t) == s[k] # Header /\ s[k] \notin B /\ tree[s[k]].kind = "label" /\ tree[s[k]].ref = t
<1>1. ASSUME NEW k \in DOMAIN s, NEW t PROVE InA(k, t) <=> InB(k, t)
  <2>1. s[k] \in 0..Len(tree)
    OBVIOUS
  <2>2. s[k] # Header => s[k] \in 1..Len(tree)
    BY <2>1 DEF Header
  <2> QED
    BY <2>2
<1>2. /\ LabelsIn(tree, s, A)
           = {t \in 1..Len(tree) : \E k \in DOMAIN s :
                InA(k, t) /\ tree[s[k]].on /\ \A m \in DOMAIN s : InA(m, t) => m <= k}
      /\ LabelsIn(tree, s, B)
           = {t \in 1..Len(tree) : \E k \in DOMAIN s :
                InB(k, t) /\ tree[s[k]].on /\ \A m \in DOMAIN s : InB(m, t) => m <= k}
  BY DEF LabelsIn
<1> HIDE DEF InA, InB
<1> QED
  BY <1>1, <1>2

\* The last label of a list, when it is skipped no more, decides about its target.
LEMMA LabelsMarked ==
  ASSUME NEW tree \in Seq(Entry), NEW s \in Seq(0..Len(tree)), s # <<>>,
         NEW h, h = Last(s), h # Header, tree[h].kind = "label", tree[h].ref \in 1..Len(tree),
         NEW skipped, h \in skipped
  PROVE  LabelsIn(tree, s, skipped \ {h})
           = IF tree[h].on THEN LabelsIn(tree, s, skipped) \union {tree[h].ref}
             ELSE LabelsIn(tree, s, skipped) \ {tree[h].ref}
<1> DEFINE less == skipped \ {h}
           n == Len(s)
           About(k, t) == /\ s[k] # Header /\ s[k] \notin skipped
                          /\ tree[s[k]].kind = "label" /\ tree[s[k]].ref = t
           Now(k, t) == /\ s[k] # Header /\ s[k] \notin less
                        /\ tree[s[k]].kind = "label" /\ tree[s[k]].ref = t
<1>1. n \in Nat /\ n \in 1..n /\ DOMAIN s = 1..n /\ s[n] = h
  BY DEF Last
<1>2. LabelsIn(tree, s, skipped)
        = {t \in 1..Len(tree) : \E k \in 1..n :
             About(k, t) /\ tree[s[k]].on /\ \A m \in 1..n : About(m, t) => m <= k}
  BY <1>1 DEF LabelsIn
<1>3. LabelsIn(tree, s, less)
        = {t \in 1..Len(tree) : \E k \in 1..n :
             Now(k, t) /\ tree[s[k]].on /\ \A m \in 1..n : Now(m, t) => m <= k}
  BY <1>1 DEF LabelsIn
<1>4. \A k, t : t # tree[h].ref => (Now(k, t) <=> About(k, t))
  OBVIOUS
<1>5. Now(n, tree[h].ref)
  BY <1>1
<1> HIDE DEF About, Now, n
<1>6. ASSUME NEW t \in 1..Len(tree), t # tree[h].ref
      PROVE  t \in LabelsIn(tree, s, less) <=> t \in LabelsIn(tree, s, skipped)
  BY <1>2, <1>3, <1>4, <1>6
<1>7. tree[h].ref \in LabelsIn(tree, s, less) <=> tree[h].on
  <2>1. ASSUME tree[h].on PROVE tree[h].ref \in LabelsIn(tree, s, less)
    <3>1. \A m \in 1..n : m <= n
      BY <1>1
    <3> QED
      BY <1>1, <1>3, <1>5, <2>1, <3>1
  <2>2. ASSUME tree[h].ref \in LabelsIn(tree, s, less) PROVE tree[h].on
    <3>1. PICK k \in 1..n : tree[s[k]].on /\ \A m \in 1..n : Now(m, tree[h].ref) => m <= k
      BY <1>3, <2>2
    <3>2. n <= k
      BY <1>1, <1>5, <3>1
    <3>3. k = n
      BY <1>1, <3>2
    <3> QED
      BY <1>1, <3>1, <3>3
  <2> QED
    BY <2>1, <2>2
<1>8. /\ LabelsIn(tree, s, less) \subseteq 1..Len(tree)
      /\ LabelsIn(tree, s, skipped) \subseteq 1..Len(tree)
  BY <1>2, <1>3
<1> HIDE DEF less
<1>9. CASE tree[h].on
  BY <1>6, <1>7, <1>8, <1>9 DEF less
<1>10. CASE ~tree[h].on
  BY <1>6, <1>7, <1>8, <1>10 DEF less
<1> QED
  BY <1>9, <1>10

\* What is where in two lists put together.
LEMMA Joined ==
  ASSUME NEW A, NEW s \in Seq(A), NEW t \in Seq(A)
  PROVE  /\ s \o t \in Seq(A) /\ Len(s \o t) = Len(s) + Len(t)
         /\ \A i \in 1..Len(s) : (s \o t)[i] = s[i]
         /\ \A k \in 1..Len(t) : (s \o t)[Len(s) + k] = t[k]
<1> DEFINE st == s \o t
<1>1. /\ st \in Seq(A) /\ Len(st) = Len(s) + Len(t)
      /\ \A i \in 1..Len(s) + Len(t) : st[i] = IF i <= Len(s) THEN s[i] ELSE t[i - Len(s)]
  BY ConcatProperties
<1>2. Len(s) \in Nat /\ Len(t) \in Nat
  OBVIOUS
<1> HIDE DEF st
<1>3. ASSUME NEW i \in 1..Len(s) PROVE st[i] = s[i]
  BY <1>1, <1>2
<1>4. ASSUME NEW k \in 1..Len(t) PROVE st[Len(s) + k] = t[k]
  <2>1. Len(s) + k \in 1..Len(s) + Len(t) /\ ~(Len(s) + k <= Len(s)) /\ Len(s) + k - Len(s) = k
    BY <1>2
  <2> QED
    BY <1>1, <2>1
<1> QED
  BY <1>1, <1>3, <1>4 DEF st

\* A path without labels, then one label for each of the entries in kept.
LEMMA LabelsForked ==
  ASSUME NEW tree \in Seq(Entry), NEW path \in Seq(1..Len(tree)), NEW kept \in Seq(1..Len(tree)),
         \A j \in DOMAIN path : tree[path[j]].kind # "label",
         Once(kept),
         NEW labels \in Seq(Entry), Len(labels) = Len(kept),
         \A k \in DOMAIN kept :
           labels[k].kind = "label" /\ labels[k].ref = kept[k] /\ labels[k].on = TRUE,
         NEW s, s = <<Header>> \o path \o [k \in 1..Len(kept) |-> Len(tree) + k]
  PROVE  LabelsIn(tree \o labels, s, {}) = ToSet(kept)
<1> DEFINE n == Len(tree)
           more == tree \o labels
           ids == [k \in 1..Len(kept) |-> n + k]
           p == Len(path)
<1>0. n \in Nat /\ Len(kept) \in Nat /\ p \in Nat
  OBVIOUS
<1>1. /\ n \in Nat /\ Len(more) = n + Len(kept) /\ Len(kept) \in Nat /\ p \in Nat
      /\ \A i \in 1..n : more[i] = tree[i]
      /\ \A k \in 1..Len(kept) : more[n + k] = labels[k]
  <2>1. tree \in Seq(Entry) /\ labels \in Seq(Entry)
    OBVIOUS
  <2>2. /\ Len(more) = Len(tree) + Len(labels)
        /\ \A i \in 1..Len(tree) : more[i] = tree[i]
        /\ \A k \in 1..Len(labels) : more[Len(tree) + k] = labels[k]
    <3>0. Len(more) = Len(tree) + Len(labels)
      <4>1. \A x, y \in Seq(Entry) : Len(x \o y) = Len(x) + Len(y)
        BY ConcatProperties
      <4> QED
        BY <2>1, <4>1, Zenon
    <3>1. \A i \in 1..Len(tree) : more[i] = tree[i]
      BY <2>1, Joined
    <3>2. \A k \in 1..Len(labels) : more[Len(tree) + k] = labels[k]
      BY <2>1, Joined
    <3> QED
      BY <3>0, <3>1, <3>2
  <2> HIDE DEF more
  <2> QED
    BY <1>0, <2>2
<1>2. ids \in Seq(Nat) /\ Len(ids) = Len(kept) /\ \A k \in 1..Len(kept) : ids[k] = n + k
  BY <1>1
<1>3. /\ <<Header>> \in Seq(Nat) /\ Len(<<Header>>) = 1 /\ <<Header>>[1] = 0 /\ path \in Seq(Nat)
  BY <1>1 DEF Header
<1> HIDE DEF n, more, ids
<1> DEFINE q == <<Header>> \o path
<1>4. /\ q \in Seq(Nat) /\ Len(q) = 1 + p /\ q[1] = 0 /\ \A j \in 1..p : q[1 + j] = path[j]
  BY <1>1, <1>3, ConcatProperties
<1> HIDE DEF q, p
<1>5. /\ s = q \o ids
  BY DEF q, ids, n
<1>6. /\ s \in Seq(Nat) /\ Len(s) = 1 + p + Len(kept)
      /\ \A i \in 1..1 + p : s[i] = q[i]
      /\ \A k \in 1..Len(kept) : s[1 + p + k] = n + k
  <2>1. /\ s \in Seq(Nat) /\ Len(s) = Len(q) + Len(ids)
        /\ \A i \in 1..Len(q) : s[i] = q[i]
        /\ \A k \in 1..Len(ids) : s[Len(q) + k] = ids[k]
    <3>1. q \in Seq(Nat) /\ ids \in Seq(Nat)
      BY <1>2, <1>4
    <3>2. (q \o ids) \in Seq(Nat) /\ Len(q \o ids) = Len(q) + Len(ids)
      BY <3>1, Joined
    <3>3. \A i \in 1..Len(q) : (q \o ids)[i] = q[i]
      BY <3>1, Joined
    <3>4. \A k \in 1..Len(ids) : (q \o ids)[Len(q) + k] = ids[k]
      BY <3>1, Joined
    <3> QED
      BY <1>5, <3>2, <3>3, <3>4
  <2>2. Len(q) = 1 + p /\ Len(ids) = Len(kept)
    BY <1>2, <1>4
  <2>3. Len(s) = 1 + p + Len(kept) /\ \A i \in 1..1 + p : s[i] = q[i]
    BY <2>1, <2>2
  <2>4. ASSUME NEW k \in 1..Len(kept) PROVE s[1 + p + k] = n + k
    BY <1>2, <2>1, <2>2, SMTT(20), ZenonT(20)
  <2> QED
    BY <2>1, <2>3, <2>4
<1>7. DOMAIN s = 1..Len(s) /\ DOMAIN path = 1..p /\ DOMAIN kept = 1..Len(kept)
  BY <1>6 DEF p
<1> DEFINE About(i, t) == s[i] # Header /\ more[s[i]].kind = "label" /\ more[s[i]].ref = t
<1>8. ASSUME NEW i \in 1..1 + p, NEW t PROVE ~About(i, t)
  <2>1. CASE i = 1
    BY <1>4, <1>6, <2>1 DEF Header
  <2>2. CASE i # 1
    <3>1. i - 1 \in 1..p /\ s[i] = path[i - 1]
      <4>1. i - 1 \in 1..p /\ 1 + (i - 1) = i
        BY <1>1, <2>2
      <4> QED
        BY <1>4, <1>6, <4>1
    <3>2. path[i - 1] \in 1..n /\ tree[path[i - 1]].kind # "label"
      <4>1. \A j \in 1..p : path[j] \in 1..n
        BY DEF n, p
      <4>2. \A j \in 1..p : tree[path[j]].kind # "label"
        BY <1>7
      <4> QED
        BY <3>1, <4>1, <4>2
    <3>3. more[s[i]] = tree[path[i - 1]]
      <4>1. \A x \in 1..n : more[x] = tree[x]
        BY <1>1
      <4> QED
        BY <3>1, <3>2, <4>1
    <3> QED
      BY <3>2, <3>3
  <2> QED
    BY <2>1, <2>2
<1>9. ASSUME NEW k \in 1..Len(kept), NEW t
      PROVE  /\ About(1 + p + k, t) <=> kept[k] = t
             /\ more[s[1 + p + k]].on = TRUE
  <2>1. s[1 + p + k] = n + k /\ n + k # 0 /\ more[n + k] = labels[k]
    <3>1. s[1 + p + k] = n + k
      BY <1>6
    <3>2. more[n + k] = labels[k]
      BY <1>1
    <3>3. n + k # 0
      BY <1>1
    <3> QED
      BY <3>1, <3>2, <3>3
  <2>2. labels[k].kind = "label" /\ labels[k].ref = kept[k] /\ labels[k].on = TRUE
    BY <1>7
  <2>3. s[1 + p + k] # Header /\ more[s[1 + p + k]] = labels[k]
    BY <2>1 DEF Header
  <2> QED
    BY <2>2, <2>3
<1>10. \A i \in 1..Len(s) : i \in 1..1 + p \/ \E k \in 1..Len(kept) : i = 1 + p + k
  <2> SUFFICES ASSUME NEW i \in 1..Len(s), i \notin 1..1 + p
               PROVE  \E k \in 1..Len(kept) : i = 1 + p + k
    OBVIOUS
  <2>1. i - (1 + p) \in 1..Len(kept) /\ i = 1 + p + (i - (1 + p))
    BY <1>1, <1>6
  <2> QED
    BY <2>1
<1>11. LabelsIn(more, s, {})
         = {t \in 1..Len(more) : \E i \in 1..Len(s) :
              About(i, t) /\ more[s[i]].on /\ \A m \in 1..Len(s) : About(m, t) => m <= i}
  BY <1>7 DEF LabelsIn
<1> HIDE DEF About
<1>12. ASSUME NEW t \in LabelsIn(more, s, {}) PROVE t \in ToSet(kept)
  <2>1. PICK i \in 1..Len(s) : About(i, t)
    BY <1>11
  <2>2. PICK k \in 1..Len(kept) : i = 1 + p + k
    BY <1>8, <1>10, <2>1
  <2>3. kept[k] = t
    BY <1>9, <2>1, <2>2
  <2> QED
    BY <1>7, <2>3 DEF ToSet
<1>13. ASSUME NEW t \in ToSet(kept) PROVE t \in LabelsIn(more, s, {})
  <2>1. PICK k \in 1..Len(kept) : kept[k] = t
    BY <1>7 DEF ToSet
  <2> DEFINE i == 1 + p + k
  <2>2. i \in 1..Len(s) /\ About(i, t) /\ more[s[i]].on
    <3>1. i \in 1..Len(s)
      BY <1>1, <1>6
    <3>2. About(i, t)
      BY <1>9, <2>1
    <3>3. more[s[i]].on = TRUE
      BY <1>9
    <3> QED
      BY <3>1, <3>2, <3>3
  <2>3. ASSUME NEW m \in 1..Len(s), About(m, t) PROVE m <= i
    <3>1. PICK l \in 1..Len(kept) : m = 1 + p + l
      BY <1>8, <1>10, <2>3
    <3>2. kept[l] = t
      BY <1>9, <2>3, <3>1
    <3>3. l = k
      BY <2>1, <3>2 DEF Once
    <3> QED
      BY <1>1, <3>1, <3>3
  <2>4. t \in 1..Len(more)
    <3>1. t \in 1..n
      BY <2>1, <1>7 DEF n
    <3> QED
      BY <1>1, <3>1
  <2> HIDE DEF i
  <2> QED
    BY <1>11, <2>2, <2>3, <2>4
<1>14. LabelsIn(more, s, {}) = ToSet(kept)
  BY <1>12, <1>13
<1> QED
  BY <1>14 DEF more

-----------------------------------------------------------------------------
(* Lists that a step makes *)

\* SetToSeq lists every element of a finite set once.
LEMMA SetToSeqIs ==
  ASSUME NEW S, IsFiniteSet(S)
  PROVE  LET s == SetToSeq(S)
         IN  s \in Seq(S) /\ Once(s) /\ ToSet(s) = S
<1> DEFINE n == Cardinality(S)
           s == SetToSeq(S)
<1>1. n \in Nat /\ ExistsBijection(1..n, S)
  BY FS_CardinalityType
<1>2. IsFiniteSet(1..n) /\ Cardinality(1..n) = n
  <2>1. 1 \in Int /\ n \in Int
    BY <1>1
  <2>2. Cardinality(1..n) = IF 1 > n THEN 0 ELSE n - 1 + 1
    BY <2>1, FS_Interval
  <2>3. IsFiniteSet(1..n)
    BY <2>1, FS_Interval
  <2> QED
    BY <1>1, <2>2, <2>3
<1> HIDE DEF n
<1>3. \E f \in [1..n -> S] : IsInjective(f)
  BY <1>1 DEF ExistsBijection, Bijection, Injection
<1>4. s \in [1..n -> S] /\ IsInjective(s)
  <2>1. s = CHOOSE f \in [1..n -> S] : IsInjective(f)
    BY DEF SetToSeq, n
  <2> HIDE DEF s
  <2> QED
    BY <1>3, <2>1
<1> HIDE DEF s
<1>5. s \in Surjection(1..n, S)
  <2>1. s \in Injection(1..n, S)
    BY <1>4 DEF Injection
  <2>2. Cardinality(1..n) = Cardinality(S)
    BY <1>2 DEF n
  <2> QED
    BY <2>1, <2>2, FS_Injection
<1>6. s \in Seq(S) /\ Len(s) = n /\ DOMAIN s = 1..n
  BY <1>1, <1>4
<1>7. Once(s)
  BY <1>4, <1>6 DEF Once, IsInjective
<1>8. ToSet(s) = S
  BY <1>4, <1>5, <1>6 DEF ToSet, Surjection
<1> QED
  BY <1>6, <1>7, <1>8 DEF s

\* A list of the entries of a shorter log is one of a longer log.
LEMMA Wider ==
  ASSUME NEW m \in Nat, NEW n \in Nat, m <= n
  PROVE  /\ \A s \in Seq(0..m) : s \in Seq(0..n)
         /\ \A s \in Seq(-1..m) : s \in Seq(-1..n)
<1>1. 0..m \subseteq 0..n /\ -1..m \subseteq -1..n
  OBVIOUS
<1> QED
  BY <1>1

\* A list is one of the set its items are in.
LEMMA Narrower ==
  ASSUME NEW A, NEW s \in Seq(A), NEW T, \A i \in 1..Len(s) : s[i] \in T
  PROVE  s \in Seq(T)
<1> DEFINE n == Len(s)
<1>1. n \in Nat /\ DOMAIN s = 1..n /\ s = [i \in DOMAIN s |-> s[i]]
  OBVIOUS
<1> HIDE DEF n
<1>2. s \in [1..n -> T]
  BY <1>1 DEF n
<1>3. s \in UNION {[1..m -> T] : m \in Nat}
  BY <1>1, <1>2
<1> QED
  BY <1>3, SeqDef

\* The leaf a list leads to is an entry, or none.
LEMMA LastIdType ==
  ASSUME NEW n \in Nat, NEW s \in Seq(0..n)
  PROVE  LastId(s) \in 0..n
<1> DEFINE ids == Only(s, Ids(s))
<1>1. ids \in Seq(0..n)
  BY OnlyNat
<1>2. LastId(s) = IF ids = <<>> THEN 0 ELSE Last(ids)
  BY DEF LastId, Null
<1> HIDE DEF ids
<1>3. ids # <<>> => Last(ids) \in 0..n
  <2>1. ids # <<>> => Len(ids) \in 1..Len(ids)
    BY <1>1
  <2>2. \A i \in 1..Len(ids) : ids[i] \in 0..n
    BY <1>1
  <2> QED
    BY <2>1, <2>2 DEF Last
<1> QED
  BY <1>2, <1>3

\* What is read from a file.
LEMMA LoadedType ==
  ASSUME TypeOK, NEW f \in Files
  PROVE  Parsed(f) \in Seq(0..Len(log)) /\ Loaded(f) \in Seq(0..Len(log))
<1> DEFINE n == Len(log)
           s == disk[f]
           S == ToSet(s) \ {Garbage}
           r == Only(s, S)
<1>1. n \in Nat /\ s \in Seq(-1..n)
  BY DEF TypeOK
<1> HIDE DEF n, s
<1>2. s \in Seq(Int) /\ \A i \in 1..Len(s) : s[i] \in -1..n
  BY <1>1
<1>3. r \in Seq(Int) /\ ToSet(r) = ToSet(s) \intersect S
  BY <1>2, OnlyElements
<1> HIDE DEF r
<1>4. ASSUME NEW i \in 1..Len(r) PROVE r[i] \in 0..n
  <2>1. r[i] \in ToSet(r)
    BY <1>3 DEF ToSet
  <2>2. r[i] \in ToSet(s) /\ r[i] # Garbage
    BY <1>3, <2>1
  <2>3. PICK j \in 1..Len(s) : r[i] = s[j]
    BY <1>2, <2>2 DEF ToSet
  <2> QED
    BY <1>1, <1>2, <2>2, <2>3 DEF Garbage
<1>5. r \in Seq(0..n)
  BY <1>3, <1>4, Narrower
<1>6. Parsed(f) = r
  BY DEF Parsed, r, s
<1>7. Loaded(f) = r \/ Loaded(f) = <<>>
  BY <1>6 DEF Loaded
<1>8. <<>> \in Seq(0..n)
  OBVIOUS
<1>9. Parsed(f) \in Seq(0..n) /\ Loaded(f) \in Seq(0..n)
  BY <1>5, <1>6, <1>7, <1>8, Zenon
<1> QED
  BY <1>9 DEF n

-----------------------------------------------------------------------------
(* Every step keeps StoreInv: appending an entry *)

\* What is about entries stays about entries when there are more of them.
LEMMA Grown ==
  ASSUME TypeOK, NEW n \in Nat, Len(log) <= n
  PROVE  /\ Len(log) \in Nat
         /\ \A s \in Seq(0..Len(log)) : s \in Seq(0..n)
         /\ 0..Len(log) \subseteq 0..n /\ 1..Len(log) \subseteq 1..n
         /\ disk \in [Files -> Seq(-1..n)]
         /\ failed \subseteq 0..n
<1>1. Len(log) \in Nat
  BY DEF TypeOK
<1>2. /\ \A s \in Seq(0..Len(log)) : s \in Seq(0..n)
      /\ \A s \in Seq(-1..Len(log)) : s \in Seq(-1..n)
  BY <1>1, Wider
<1>3. 0..Len(log) \subseteq 0..n /\ 1..Len(log) \subseteq 1..n
  BY <1>1
<1>4. disk \in [Files -> Seq(-1..Len(log))]
  BY DEF TypeOK
<1>5. disk \in [Files -> Seq(-1..n)]
  BY <1>2, <1>4
<1>6. failed \subseteq 0..n
  BY <1>3 DEF TypeOK
<1> QED
  BY <1>1, <1>2, <1>3, <1>5, <1>6

\* StoreInv after a step whose log keeps the kinds of its entries, and that leaves
\* alone the files that stay in the old format.
LEMMA StepKeeps ==
  ASSUME StoreInv, scope' = scope,
         log' \in Seq(Entry), Len(log) <= Len(log'),
         \A i \in 1..Len(log) : log'[i].kind = log[i].kind,
         \A f \in old' : log'[3].ref \in 1..2,
         \A i \in 1..Len(log') :
           log'[i].parent < i /\ (log'[i].kind = "label" => log'[i].ref \in 1..Len(log')),
         fileEntries' \in Seq(0..Len(log')), leafId' \in 0..Len(log'),
         LabelsInv',
         flushed' \in BOOLEAN, sessionFile' \in Files, alive' \in BOOLEAN,
         pending' \in Seq(0..Len(log')),
         failed' \subseteq 0..Len(log'), faults' \in 0..scope.faults,
         disk' \in [Files -> Seq(-1..Len(log'))], present' \subseteq Files,
         openTail' \subseteq present', old' \subseteq present', old' \subseteq old,
         \A f \in old' : disk'[f] = disk[f] /\ f \notin openTail',
         \A f \in old' : alive' \/ pending' # <<>> => f # sessionFile',
         \A f \in Files \ present' : disk'[f] = <<>>
  PROVE  StoreInv'
<1>1. Len(log') \in Nat /\ DOMAIN log' = 1..Len(log') /\ Len(log) \in Nat /\ DOMAIN log = 1..Len(log)
  BY DEF StoreInv, TypeOK
<1>2. labelsById' \subseteq 1..Len(log') /\ unmarked' \subseteq 1..Len(log')
  BY LabelsNext DEF LabelsIn, LabelsInv
<1>3. TypeOK'
  BY <1>2 DEF TypeOK
<1>4. TreeInv'
  BY <1>1 DEF TreeInv, IsKind
<1>5. LabelsAreCurrent' /\ WritingLabel'
  BY DEF LabelsInv
<1>6. ASSUME NEW f \in old'
      PROVE  /\ disk'[f] = <<Header, 1, 2, 3>>
             /\ {1, 2, 3} \subseteq DOMAIN log'
             /\ log'[1].kind = "user" /\ log'[2].kind = "assistant" /\ log'[3].kind = "compaction"
  <2>1. /\ disk[f] = <<Header, 1, 2, 3>>
        /\ 1 \in 1..Len(log) /\ 2 \in 1..Len(log) /\ 3 \in 1..Len(log)
        /\ log[1].kind = "user" /\ log[2].kind = "assistant" /\ log[3].kind = "compaction"
    <3>1. f \in old
      OBVIOUS
    <3> QED
      BY <1>1, <3>1 DEF StoreInv, OldFilesInv, IsKind
  <2>2. log'[1].kind = log[1].kind /\ log'[2].kind = log[2].kind /\ log'[3].kind = log[3].kind
    BY <2>1
  <2>3. 1 \in DOMAIN log' /\ 2 \in DOMAIN log' /\ 3 \in DOMAIN log'
    BY <1>1, <2>1
  <2>4. disk'[f] = disk[f]
    OBVIOUS
  <2> QED
    BY <2>1, <2>2, <2>3, <2>4
<1>7. OldFilesInv'
  <2>1. OldFilesInv' <=>
          \A f \in old' :
            /\ alive' \/ pending' # <<>> => f # sessionFile'
            /\ f \notin openTail'
            /\ disk'[f] = <<Header, 1, 2, 3>>
            /\ {1, 2, 3} \subseteq DOMAIN log'
            /\ log'[1].kind = "user" /\ log'[2].kind = "assistant" /\ log'[3].kind = "compaction"
            /\ log'[3].ref \in 1..2
    BY DEF OldFilesInv, IsKind
  <2> QED
    BY <1>6, <2>1
<1>8. scope' \in Scopes
  BY DEF StoreInv
<1> QED
  BY <1>3, <1>4, <1>5, <1>7, <1>8 DEF StoreInv

\* The same of a step that writes nothing and changes no entry.
LEMMA SameFiles ==
  ASSUME StoreInv, UNCHANGED <<disk, openTail, old>>, scope' = scope, failed' = failed,
         faults' \in 0..scope.faults,
         present \subseteq present', present' \subseteq Files,
         log' \in Seq(Entry), Len(log) <= Len(log'),
         \A i \in 1..Len(log) : log'[i] = log[i],
         \A i \in 1..Len(log') :
           log'[i].parent < i /\ (log'[i].kind = "label" => log'[i].ref \in 1..Len(log')),
         fileEntries' \in Seq(0..Len(log')), leafId' \in 0..Len(log'),
         LabelsInv',
         flushed' \in BOOLEAN, sessionFile' \in Files, alive' \in BOOLEAN,
         pending' \in Seq(0..Len(log')),
         \A f \in old : alive' \/ pending' # <<>> => f # sessionFile'
  PROVE  StoreInv'
<1>1. Len(log') \in Nat
  OBVIOUS
<1>2. disk \in [Files -> Seq(-1..Len(log'))] /\ failed \subseteq 0..Len(log')
  BY <1>1, Grown DEF StoreInv
<1>3. disk' = disk /\ openTail' = openTail /\ old' = old
  OBVIOUS
<1>4. openTail \subseteq present' /\ old \subseteq present'
  BY DEF StoreInv, TypeOK
<1>5. \A f \in Files \ present' : disk[f] = <<>>
  BY DEF StoreInv
<1>6. \A f \in old : f \notin openTail
  BY DEF StoreInv, OldFilesInv
<1>7. ASSUME NEW f \in old PROVE log'[3].ref \in 1..2
  <2>1. 3 \in 1..Len(log) /\ log[3].ref \in 1..2
    BY DEF StoreInv, OldFilesInv
  <2> QED
    BY <2>1
<1>8. \A i \in 1..Len(log) : log'[i].kind = log[i].kind
  OBVIOUS
<1> QED
  BY <1>2, <1>3, <1>4, <1>5, <1>6, <1>7, <1>8, StepKeeps

\* Appending one entry, whichever method does.
LEMMA AppendKeeps ==
  ASSUME StoreInv, Idle, NEW e \in Entry, e.parent \in 0..Len(log),
         e.kind = "label" => e.ref \in 1..Len(log),
         AppendEntry(e), UNCHANGED <<sessionFile, alive, files, old, bounds>>,
         \/ e.kind # "label" /\ UNCHANGED <<labelsById, unmarked>>
         \/ e.kind = "label" /\ pending' = <<>> /\ labelsById' = LabelsAfter(e) /\ UNCHANGED unmarked
         \/ /\ e.kind = "label" /\ pending' # <<>> /\ UNCHANGED labelsById
            /\ unmarked' = unmarked \union {Len(log) + 1}
  PROVE  StoreInv'
<1> DEFINE n == Len(log)
<1>1. /\ log \in Seq(Entry) /\ n \in Nat /\ DOMAIN log = 1..n
      /\ fileEntries \in Seq(0..n) /\ pending \in Seq(0..n) /\ flushed \in BOOLEAN
      /\ sessionFile \in Files /\ alive \in BOOLEAN
  BY DEF StoreInv, TypeOK
<1>2. /\ log' = Append(log, e) /\ fileEntries' = Append(fileEntries, n + 1) /\ leafId' = n + 1
      /\ PersistPending(fileEntries', n + 1)
  BY DEF AppendEntry
<1>3. /\ log' \in Seq(Entry) /\ Len(log') = n + 1 /\ log'[n + 1] = e
      /\ \A i \in 1..n : log'[i] = log[i]
  BY <1>1, <1>2, AppendProperties
<1>4. \A s \in Seq(0..n) : s \in Seq(0..n + 1)
  BY <1>1, Wider
<1>5. n + 1 \in 0..n + 1 /\ n \in 0..n + 1
  BY <1>1
<1>6. fileEntries' \in Seq(0..n + 1)
  BY <1>1, <1>2, <1>4, <1>5
<1>7. /\ flushed' \in {flushed, FALSE}
      /\ pending' = pending \/ pending' = <<n + 1>> \/ pending' = fileEntries'
  BY <1>2 DEF PersistPending
<1>8. pending' \in Seq(0..n + 1)
  <2>1. <<n + 1>> \in Seq(0..n + 1)
    BY <1>5
  <2> QED
    BY <1>1, <1>4, <1>6, <1>7, <2>1
<1>9. ASSUME NEW i \in 1..Len(log')
      PROVE  log'[i].parent < i /\ (log'[i].kind = "label" => log'[i].ref \in 1..Len(log'))
  <2>1. CASE i \in 1..n
    <3>1. log[i].parent < i /\ (log[i].kind = "label" => log[i].ref \in 1..n)
      BY <1>1, <2>1 DEF StoreInv, TreeInv, IsKind
    <3>2. 1..n \subseteq 1..Len(log')
      BY <1>1, <1>3
    <3> QED
      BY <1>3, <2>1, <3>1, <3>2
  <2>2. CASE i \notin 1..n
    <3>1. i = n + 1
      BY <1>1, <1>3, <2>2
    <3>2. e.parent < n + 1 /\ 1..n \subseteq 1..Len(log')
      BY <1>1, <1>3
    <3> QED
      BY <1>3, <3>1, <3>2
  <2> QED
    BY <2>1, <2>2
<1>10. LabelsInv'
  <2>1. /\ labelsById = LabelsIn(log, fileEntries, unmarked) /\ unmarked \subseteq 1..n
        /\ pending = <<>> /\ unmarked \subseteq failed
    BY LabelsHold, LabelsNow DEF LabelsInv, Idle
  <2>2. \A id \in DOMAIN log : log[id].kind = "label" => log[id].ref \in DOMAIN log
    BY DEF StoreInv, TreeInv, IsKind
  <2>3. failed' = failed /\ n + 1 \notin 1..n
    BY <1>1 DEF bounds
  <2>4. unmarked' \in {unmarked, unmarked \union {n + 1}}
    OBVIOUS
  <2>5. \A i \in 1..n : i \in unmarked' <=> i \in unmarked
    BY <2>3, <2>4
  <2>6. LabelsIn(log', fileEntries', unmarked')
          = Relabelled(LabelsIn(log, fileEntries, unmarked), e, n + 1, unmarked')
    <3> DEFINE now == unmarked'
    <3>1. LabelsIn(log, fileEntries, now) = LabelsIn(log, fileEntries, unmarked)
      <4>1. \A i \in 1..Len(log) : i \in now <=> i \in unmarked
        BY <2>5
      <4> HIDE DEF now
      <4> QED
        BY <1>1, <4>1, SkippedSame
    <3>2. LabelsIn(Append(log, e), Append(fileEntries, n + 1), now)
            = Relabelled(LabelsIn(log, fileEntries, now), e, n + 1, now)
      <4> HIDE DEF now
      <4> QED
        BY <1>1, <2>2, LabelsAppend
    <3> QED
      BY <1>2, <3>1, <3>2
  <2>7. labelsById' = LabelsIn(log', fileEntries', unmarked')
    BY <2>1, <2>3, <2>6 DEF LabelsAfter, Relabelled
  <2>8. pending' # <<>> => Last(pending') = n + 1 /\ Last(fileEntries') = n + 1
    <3>1. Last(fileEntries') = n + 1
      BY <1>1, <1>2, AppendProperties DEF Last
    <3>2. Last(<<n + 1>>) = n + 1
      BY DEF Last
    <3> QED
      BY <1>7, <2>1, <3>1, <3>2
  <2>9. unmarked' \ failed' \subseteq (IF pending' = <<>> THEN {} ELSE {Last(pending')})
    BY <2>1, <2>3, <2>4, <2>8
  <2>10. WritingLabel'
    <3>1. n + 1 \in unmarked' => e.kind = "label"
      BY <2>1, <2>3
    <3>2. fileEntries' # <<>>
      BY <1>1, <1>2, AppendProperties
    <3> QED
      BY <1>3, <2>8, <3>1, <3>2 DEF WritingLabel, IsKind
  <2>11. unmarked' \subseteq 1..Len(log')
    BY <1>1, <1>3, <2>1, <2>4
  <2> QED
    BY <2>7, <2>9, <2>10, <2>11, LabelsNext DEF LabelsInv
<1>11. /\ UNCHANGED <<disk, openTail, old>> /\ present' = present
       /\ scope' = scope /\ failed' = failed /\ faults' = faults
       /\ sessionFile' = sessionFile /\ alive' = alive
  BY DEF files, bounds
<1>12. \A f \in old : f # sessionFile'
  BY <1>11 DEF StoreInv, OldFilesInv, Idle
<1>13. /\ leafId' \in 0..Len(log') /\ fileEntries' \in Seq(0..Len(log')) /\ pending' \in Seq(0..Len(log'))
       /\ Len(log) <= Len(log') /\ flushed' \in BOOLEAN /\ sessionFile' \in Files /\ alive' \in BOOLEAN
  <2>1. leafId' \in 0..Len(log') /\ n <= Len(log')
    BY <1>1, <1>2, <1>3, <1>5
  <2>2. fileEntries' \in Seq(0..Len(log')) /\ pending' \in Seq(0..Len(log'))
    BY <1>3, <1>6, <1>8, Zenon
  <2>3. flushed' \in BOOLEAN /\ sessionFile' \in Files /\ alive' \in BOOLEAN
    BY <1>1, <1>7, <1>11
  <2> QED
    BY <2>1, <2>2, <2>3
<1> HIDE DEF n
<1>14. \A i \in 1..Len(log) : log'[i] = log[i]
  BY <1>3 DEF n
<1>15. faults \in 0..scope.faults /\ present \subseteq Files
  BY DEF StoreInv, TypeOK
<1> QED
  BY <1>3, <1>9, <1>10, <1>11, <1>12, <1>13, <1>14, <1>15, SameFiles

\* Entries without a reference, and a compaction that keeps one of its branch.
LEMMA AppendMessageKeeps ==
  ASSUME StoreInv, NEW kind \in AllKinds, AppendMessage(kind)
  PROVE  StoreInv'
<1> DEFINE e == NewEntry(kind, Null, FALSE)
<1>1. leafId \in 0..Len(log) /\ leafId \in Nat
  BY DEF StoreInv, TypeOK
<1>2. /\ e = [kind |-> kind, parent |-> leafId, ref |-> 0, on |-> FALSE]
      /\ kind # "label"
  BY DEF AppendMessage, NewEntry, Null
<1> HIDE DEF e
<1>3. e \in Entry /\ e.parent \in 0..Len(log) /\ e.kind # "label"
  BY <1>1, <1>2 DEF Entry
<1>4. /\ Idle /\ AppendEntry(e) /\ UNCHANGED <<labelsById, unmarked>>
      /\ UNCHANGED <<sessionFile, alive, files, old, bounds>>
  BY DEF AppendMessage, e
<1> QED
  BY <1>3, <1>4, AppendKeeps

LEMMA AppendCompactionKeeps ==
  ASSUME StoreInv, NEW firstKept \in 1..Len(log), AppendCompaction(firstKept)
  PROVE  StoreInv'
<1> DEFINE e == NewEntry("compaction", firstKept, FALSE)
<1>1. leafId \in 0..Len(log) /\ leafId \in Nat /\ firstKept \in Nat
  BY DEF StoreInv, TypeOK
<1>2. e = [kind |-> "compaction", parent |-> leafId, ref |-> firstKept, on |-> FALSE]
  BY DEF NewEntry
<1> HIDE DEF e
<1>3. e \in Entry /\ e.parent \in 0..Len(log) /\ e.kind # "label"
  BY <1>1, <1>2 DEF Entry, AllKinds
<1>4. /\ Idle /\ AppendEntry(e) /\ UNCHANGED <<labelsById, unmarked>>
      /\ UNCHANGED <<sessionFile, alive, files, old, bounds>>
  BY DEF AppendCompaction, e
<1> QED
  BY <1>3, <1>4, AppendKeeps

\* A label of an entry that is there.
LEMMA AppendLabelChangeKeeps ==
  ASSUME StoreInv, NEW target \in 1..Len(log), NEW on \in BOOLEAN, AppendLabelChange(target, on)
  PROVE  StoreInv'
<1> DEFINE e == NewEntry("label", target, on)
<1>1. leafId \in 0..Len(log) /\ leafId \in Nat /\ target \in Nat
  BY DEF StoreInv, TypeOK
<1>2. e = [kind |-> "label", parent |-> leafId, ref |-> target, on |-> on]
  BY DEF NewEntry
<1> HIDE DEF e
<1>3. e \in Entry /\ e.parent \in 0..Len(log) /\ e.kind = "label" /\ e.ref = target
  BY <1>1, <1>2 DEF Entry, AllKinds
<1>5. /\ Idle /\ AppendEntry(e)
      /\ \/ pending' = <<>> /\ labelsById' = LabelsAfter(e) /\ UNCHANGED unmarked
         \/ pending' # <<>> /\ unmarked' = unmarked \union {Len(log) + 1} /\ UNCHANGED labelsById
      /\ UNCHANGED <<sessionFile, alive, files, old, bounds>>
  BY DEF AppendLabelChange, e
<1> QED
  BY <1>3, <1>5, AppendKeeps

\* A summary hangs from the entry that is branched from.
LEMMA BranchWithSummaryKeeps ==
  ASSUME StoreInv, NEW id \in 0..Len(log), BranchWithSummary(id)
  PROVE  StoreInv'
<1> DEFINE e == [kind |-> "branch_summary", parent |-> id, ref |-> id, on |-> FALSE]
<1>1. id \in Nat
  BY DEF StoreInv, TypeOK
<1>3. e \in Entry /\ e.parent \in 0..Len(log) /\ e.kind # "label"
  BY <1>1 DEF Entry, AllKinds
<1>4. /\ Idle /\ AppendEntry(e) /\ UNCHANGED <<labelsById, unmarked>>
      /\ UNCHANGED <<sessionFile, alive, files, old, bounds>>
  BY DEF BranchWithSummary
<1> HIDE DEF e
<1> QED
  BY <1>3, <1>4, AppendKeeps

\* The leaf moves and nothing else does.
LEMMA LeafKeeps ==
  ASSUME StoreInv, leafId' \in 0..Len(log),
         UNCHANGED <<log, fileEntries, labelsById, unmarked, flushed, sessionFile, alive,
                     files, pending, old, bounds>>
  PROVE  StoreInv'
<1>1. /\ log \in Seq(Entry) /\ fileEntries \in Seq(0..Len(log)) /\ pending \in Seq(0..Len(log))
      /\ flushed \in BOOLEAN /\ sessionFile \in Files /\ alive \in BOOLEAN /\ Len(log) \in Nat
  BY DEF StoreInv, TypeOK
<1>2. LabelsInv'
  BY LabelsKept DEF bounds
<1>3. \A i \in 1..Len(log) :
        log[i].parent < i /\ (log[i].kind = "label" => log[i].ref \in 1..Len(log))
  BY <1>1 DEF StoreInv, TreeInv, IsKind
<1>4. \A f \in old : alive \/ pending # <<>> => f # sessionFile
  BY DEF StoreInv, OldFilesInv
<1>5. /\ log' = log /\ fileEntries' = fileEntries /\ flushed' = flushed
      /\ sessionFile' = sessionFile /\ alive' = alive /\ pending' = pending
      /\ UNCHANGED <<disk, openTail, old>> /\ present' = present
      /\ scope' = scope /\ failed' = failed /\ faults' = faults
  BY DEF files, bounds
<1>6. Len(log) <= Len(log) /\ faults \in 0..scope.faults /\ present \subseteq Files
  BY <1>1 DEF StoreInv, TypeOK
<1> QED
  BY <1>1, <1>2, <1>3, <1>4, <1>5, <1>6, SameFiles

LEMMA LeafMovesKeep ==
  ASSUME StoreInv, ResetLeaf \/ \E id \in 1..Len(log) : BranchTo(id)
  PROVE  StoreInv'
<1>1. Len(log) \in Nat
  BY DEF StoreInv, TypeOK
<1>2. CASE ResetLeaf
  <2>1. leafId' \in 0..Len(log)
    BY <1>1, <1>2 DEF ResetLeaf, Null
  <2> QED
    BY <1>2, <2>1, LeafKeeps DEF ResetLeaf
<1>3. CASE \E id \in 1..Len(log) : BranchTo(id)
  <2>1. PICK id \in 1..Len(log) : BranchTo(id)
    BY <1>3
  <2>2. leafId' \in 0..Len(log)
    BY <1>1, <2>1 DEF BranchTo
  <2> QED
    BY <2>1, <2>2, LeafKeeps DEF BranchTo
<1> QED
  BY <1>2, <1>3

-----------------------------------------------------------------------------
(* Every step keeps StoreInv: forking at an entry *)

\* The entries of a list, without its headers.
LEMMA IdsType ==
  ASSUME NEW n \in Nat, NEW s \in Seq(0..n)
  PROVE  Ids(s) \subseteq 1..n
<1>1. \A x \in ToSet(s) : x \in 0..n
  BY DEF ToSet
<1>2. \A x \in 0..n : x # 0 => x \in 1..n
  OBVIOUS
<1> QED
  BY <1>1, <1>2 DEF Ids, Header

\* The path a fork copies: entries of the session without labels, each once.
LEMMA ForkPathIs ==
  ASSUME StoreInv, NEW id \in 0..Len(log)
  PROVE  /\ ForkPath(id) \in Seq(1..Len(log)) /\ Once(ForkPath(id))
         /\ ToSet(ForkPath(id)) \subseteq Ids(fileEntries)
         /\ \A j \in DOMAIN ForkPath(id) : log[ForkPath(id)[j]].kind # "label"
<1> DEFINE n == Len(log)
           known == Ids(fileEntries)
           b == Branch(known, id)
           path == Only(b, Unlabelled(known))
<1>1. log \in Seq(Entry) /\ n \in Nat /\ DOMAIN log = 1..n /\ known \subseteq 1..n
  BY IdsType DEF StoreInv, TypeOK
<1>2. Earlier(log)
  BY DEF StoreInv, TreeInv, Earlier
<1>3. PathTo(b, id, known)
  <2>1. PathTo(PathIn(log, known, id), id, known)
    BY <1>1, <1>2, BranchPath
  <2> QED
    BY <2>1, BranchIn
<1> HIDE DEF known, b
<1>4. b \in Seq(Int) /\ Once(b)
  BY <1>3 DEF PathTo
<1>5. path \in Seq(Int) /\ Once(path) /\ ToSet(path) = ToSet(b) \intersect Unlabelled(known)
  BY <1>4, OnlyElements, OnlyOnce
<1> HIDE DEF path
<1>6. DOMAIN path = 1..Len(path) /\ \A j \in 1..Len(path) : path[j] \in Unlabelled(known)
  <2>1. DOMAIN path = 1..Len(path)
    BY <1>5
  <2> QED
    BY <1>5, <2>1 DEF ToSet
<1>7. \A x \in Unlabelled(known) : x \in known /\ x \in 1..n /\ log[x].kind # "label"
  BY <1>1 DEF Unlabelled, IsKind
<1>8. path \in Seq(1..n)
  BY <1>5, <1>6, <1>7, Narrower
<1>9. ToSet(path) \subseteq known
  BY <1>5, <1>7
<1>10. \A j \in DOMAIN path : log[path[j]].kind # "label"
  BY <1>6, <1>7
<1>11. ForkPath(id) = path
  BY DEF ForkPath, path, b, known
<1> QED
  BY <1>5, <1>8, <1>9, <1>10, <1>11 DEF n, known

\* The parts of the new session.
ForkKept(id) == SetToSeq(ForkLabels(ForkPath(id)))

ForkNew(id) ==
  [k \in 1..Len(ForkKept(id)) |->
     [kind   |-> "label",
      parent |-> IF k = 1 THEN Last(ForkPath(id)) ELSE Len(log) + k - 1,
      ref    |-> ForkKept(id)[k],
      on     |-> TRUE]]

ForkEntries(id) ==
  <<Header>> \o ForkPath(id) \o [k \in 1..Len(ForkKept(id)) |-> Len(log) + k]

LEMMA ForkStep ==
  ASSUME NEW id, CreateBranchedSession(id)
  PROVE  /\ Idle /\ id \in Ids(fileEntries)
         /\ log' = log \o ForkNew(id)
         /\ fileEntries' = ForkEntries(id)
         /\ leafId' = LastId(fileEntries')
         /\ labelsById' = ForkLabels(ForkPath(id)) /\ unmarked' = {}
         /\ sessionFile' \in FreshFiles
         /\ \/ /\ ForkWritesNow(ForkPath(id)) /\ Truncate(sessionFile')
               /\ pending' = fileEntries' /\ flushed' = flushed
            \/ /\ ~ForkWritesNow(ForkPath(id)) /\ UNCHANGED <<files, pending>> /\ flushed' = FALSE
         /\ UNCHANGED <<alive, old, bounds>>
BY DEF CreateBranchedSession, ForkNew, ForkEntries, ForkKept

\* The labels it keeps, one after the other.
LEMMA ForkKeptIs ==
  ASSUME StoreInv, NEW id \in 0..Len(log)
  PROVE  /\ ForkKept(id) \in Seq(1..Len(log)) /\ Once(ForkKept(id))
         /\ ToSet(ForkKept(id)) = ForkLabels(ForkPath(id))
         /\ ForkLabels(ForkPath(id)) \subseteq ToSet(ForkPath(id))
<1> DEFINE S == ForkLabels(ForkPath(id))
<1>1. S \subseteq ToSet(ForkPath(id)) /\ S \subseteq labelsById
  BY DEF ForkLabels
<1>2. Len(log) \in Nat /\ labelsById \subseteq 1..Len(log)
  BY DEF StoreInv, TypeOK
<1> HIDE DEF S
<1>3. IsFiniteSet(S)
  <2>1. IsFiniteSet(1..Len(log))
    BY <1>2, FS_Interval
  <2> QED
    BY <1>1, <1>2, <2>1, FS_Subset
<1>4. SetToSeq(S) \in Seq(S) /\ Once(SetToSeq(S)) /\ ToSet(SetToSeq(S)) = S
  BY <1>3, SetToSeqIs
<1>5. ForkKept(id) = SetToSeq(S)
  BY DEF ForkKept, S
<1>6. ForkKept(id) \in Seq(1..Len(log))
  <2>1. S \subseteq 1..Len(log)
    BY <1>1, <1>2
  <2>2. SetToSeq(S) \in Seq(1..Len(log))
    BY <1>4, <2>1, SeqMonotonic
  <2> QED
    BY <1>5, <2>2
<1> QED
  BY <1>1, <1>4, <1>5, <1>6 DEF S

\* The label entries it adds: each below the one before, the first below the path.
LEMMA ForkNewIs ==
  ASSUME StoreInv, NEW id \in 0..Len(log)
  PROVE  /\ ForkNew(id) \in Seq(Entry) /\ Len(ForkNew(id)) = Len(ForkKept(id))
         /\ \A k \in 1..Len(ForkKept(id)) :
              /\ ForkNew(id)[k].kind = "label" /\ ForkNew(id)[k].on = TRUE
              /\ ForkNew(id)[k].ref = ForkKept(id)[k] /\ ForkKept(id)[k] \in 1..Len(log)
              /\ ForkNew(id)[k].parent < Len(log) + k
<1> DEFINE n == Len(log)
           kept == ForkKept(id)
           path == ForkPath(id)
           new == ForkNew(id)
<1>1. n \in Nat
  BY DEF StoreInv, TypeOK
<1>2. kept \in Seq(1..n) /\ ToSet(kept) \subseteq ToSet(path) /\ path \in Seq(1..n)
  BY ForkKeptIs, ForkPathIs
<1>3. new = [k \in 1..Len(kept) |->
               [kind |-> "label", parent |-> IF k = 1 THEN Last(path) ELSE n + k - 1,
                ref |-> kept[k], on |-> TRUE]]
  BY DEF ForkNew
<1> HIDE DEF n, kept, path, new
<1>4. Len(kept) \in Nat /\ DOMAIN kept = 1..Len(kept) /\ Len(path) \in Nat /\ DOMAIN path = 1..Len(path)
  BY <1>2
<1>5. ASSUME NEW k \in 1..Len(kept) PROVE Last(path) \in 1..n
  <2>1. kept[k] \in ToSet(path)
    BY <1>2, <1>4 DEF ToSet
  <2>2. Len(path) # 0
    BY <1>4, <2>1 DEF ToSet
  <2>3. Len(path) \in 1..Len(path)
    BY <1>4, <2>2
  <2>4. \A j \in 1..Len(path) : path[j] \in 1..n
    <3>1. path \in Seq(1..n)
      BY <1>2
    <3> QED
      BY <3>1, ElementOfSeq
  <2>5. Last(path) = path[Len(path)]
    BY DEF Last
  <2> QED
    BY <2>3, <2>4, <2>5
<1>6. ASSUME NEW k \in 1..Len(kept)
      PROVE  /\ new[k] \in Entry
             /\ new[k].kind = "label" /\ new[k].on = TRUE
             /\ new[k].ref = kept[k] /\ kept[k] \in 1..n
             /\ new[k].parent < n + k
  <2> DEFINE parent == IF k = 1 THEN Last(path) ELSE n + k - 1
  <2>1. parent \in Nat /\ parent < n + k
    <3>1. CASE k = 1
      <4>1. Last(path) \in 1..n
        BY <1>5
      <4> QED
        BY <1>1, <3>1, <4>1
    <3>2. CASE k # 1
      BY <1>1, <3>2
    <3> QED
      BY <3>1, <3>2
  <2> HIDE DEF parent
  <2>2. new[k] = [kind |-> "label", parent |-> parent, ref |-> kept[k], on |-> TRUE]
    BY <1>3 DEF parent
  <2>3. kept[k] \in 1..n /\ kept[k] \in Nat
    BY <1>1, <1>2
  <2>4. new[k] \in Entry
    BY <2>1, <2>2, <2>3 DEF Entry, AllKinds
  <2> QED
    BY <2>1, <2>2, <2>3, <2>4
<1>7. new \in [1..Len(kept) -> Entry]
  BY <1>3, <1>6
<1>8. new \in Seq(Entry) /\ Len(new) = Len(kept)
  BY <1>4, <1>7
<1> QED
  BY <1>6, <1>8 DEF n, kept, new

\* What the fork makes of the log and of the list of entries.
LEMMA ForkLists ==
  ASSUME StoreInv, NEW id \in 0..Len(log), CreateBranchedSession(id)
  PROVE  /\ log' \in Seq(Entry) /\ Len(log') = Len(log) + Len(ForkKept(id))
         /\ \A i \in 1..Len(log) : log'[i] = log[i]
         /\ \A k \in 1..Len(ForkKept(id)) : log'[Len(log) + k] = ForkNew(id)[k]
         /\ fileEntries' \in Seq(0..Len(log'))
<1> DEFINE n == Len(log)
           kept == ForkKept(id)
           path == ForkPath(id)
           new == ForkNew(id)
           ids == [k \in 1..Len(kept) |-> n + k]
<1>1. log \in Seq(Entry) /\ n \in Nat
  BY DEF StoreInv, TypeOK
<1>2. kept \in Seq(1..n) /\ path \in Seq(1..n) /\ new \in Seq(Entry) /\ Len(new) = Len(kept)
  BY ForkKeptIs, ForkPathIs, ForkNewIs
<1>3. log' = log \o new
  BY ForkStep
<1>4. fileEntries' = <<Header>> \o path \o ids
  BY ForkStep DEF ForkEntries
<1> HIDE DEF kept, path, new
<1>5. /\ Len(kept) \in Nat /\ log \o new \in Seq(Entry)
      /\ Len(log \o new) = n + Len(new)
      /\ \A i \in 1..n : (log \o new)[i] = log[i]
      /\ \A k \in 1..Len(new) : (log \o new)[n + k] = new[k]
  <2>1. Len(kept) \in Nat
    BY <1>2
  <2>2. log \o new \in Seq(Entry) /\ Len(log \o new) = n + Len(new)
    BY <1>1, <1>2, Joined
  <2>3. \A i \in 1..n : (log \o new)[i] = log[i]
    BY <1>1, <1>2, Joined
  <2>4. \A k \in 1..Len(new) : (log \o new)[n + k] = new[k]
    BY <1>1, <1>2, Joined
  <2> QED
    BY <2>1, <2>2, <2>3, <2>4
<1> DEFINE m == n + Len(kept)
<1>6. m \in Nat /\ n <= m
  BY <1>1, <1>5
<1>7. path \in Seq(0..m)
  <2>1. 1..n \subseteq 0..m
    BY <1>1, <1>6
  <2> QED
    BY <1>2, <2>1, SeqMonotonic
<1>8. ids \in Seq(0..m)
  <2>1. \A k \in 1..Len(kept) : n + k \in 0..m
    BY <1>1, <1>5
  <2> HIDE DEF m
  <2> QED
    BY <1>5, <2>1
<1> HIDE DEF m, ids
<1>9. <<Header>> \in Seq(0..m)
  <2>1. Header \in 0..m
    BY <1>6 DEF Header
  <2> QED
    BY <2>1
<1>10. <<Header>> \o path \in Seq(0..m)
  BY <1>7, <1>9
<1>11. <<Header>> \o path \o ids \in Seq(0..m)
  BY <1>8, <1>10
<1>12. Len(log') = m
  BY <1>2, <1>3, <1>5 DEF m
<1> HIDE DEF n
<1>13. fileEntries' \in Seq(0..Len(log'))
  BY <1>4, <1>11, <1>12, Zenon
<1>14. log' \in Seq(Entry) /\ Len(log') = n + Len(kept)
  BY <1>3, <1>5, <1>12 DEF m
<1>15. \A i \in 1..n : log'[i] = log[i]
  BY <1>3, <1>5
<1>16. \A k \in 1..Len(kept) : log'[n + k] = new[k]
  BY <1>2, <1>3, <1>5
<1> QED
  BY <1>13, <1>14, <1>15, <1>16 DEF n, kept, new

\* Truncating a file that does not exist yet creates it.
LEMMA Created ==
  ASSUME StoreInv, NEW f \in FreshFiles, Truncate(f)
  PROVE  disk' = disk /\ openTail' = openTail /\ present \subseteq present' /\ present' \subseteq Files
<1>1. f \in Files /\ f \notin present
  BY DEF FreshFiles
<1>2. disk = [g \in Files |-> disk[g]] /\ disk[f] = <<>>
  BY <1>1 DEF StoreInv, TypeOK
<1>3. disk' = disk
  BY <1>1, <1>2 DEF Truncate
<1>4. openTail \subseteq present /\ present \subseteq Files
  BY DEF StoreInv, TypeOK
<1> QED
  BY <1>1, <1>3, <1>4 DEF Truncate

LEMMA CreateBranchedSessionKeeps ==
  ASSUME StoreInv, NEW id \in 1..Len(log), CreateBranchedSession(id)
  PROVE  StoreInv'
<1> DEFINE n == Len(log)
           kept == ForkKept(id)
           path == ForkPath(id)
           new == ForkNew(id)
<1>1. log \in Seq(Entry) /\ n \in Nat /\ DOMAIN log = 1..n /\ id \in 0..n
  BY DEF StoreInv, TypeOK
<1>2. kept \in Seq(1..n) /\ path \in Seq(1..n) /\ new \in Seq(Entry) /\ Len(new) = Len(kept)
  BY <1>1, ForkKeptIs, ForkPathIs, ForkNewIs
<1>3. /\ \A k \in 1..Len(kept) :
           /\ new[k].kind = "label" /\ new[k].on = TRUE
           /\ new[k].ref = kept[k] /\ kept[k] \in 1..n
           /\ new[k].parent < n + k
  BY <1>1, ForkNewIs
<1>4. /\ log' \in Seq(Entry) /\ Len(log') = n + Len(kept)
      /\ \A i \in 1..n : log'[i] = log[i]
      /\ \A k \in 1..Len(kept) : log'[n + k] = new[k]
      /\ fileEntries' \in Seq(0..Len(log'))
  BY <1>1, ForkLists
<1>5. /\ Idle /\ log' = log \o new /\ fileEntries' = ForkEntries(id)
      /\ leafId' = LastId(fileEntries') /\ labelsById' = ForkLabels(path) /\ unmarked' = {}
      /\ sessionFile' \in FreshFiles
      /\ UNCHANGED <<alive, old, bounds>>
  BY ForkStep
<1>6. (pending' = pending \/ pending' = fileEntries') /\ (flushed' = flushed \/ flushed' = FALSE)
  BY ForkStep
<1>7. /\ disk' = disk /\ openTail' = openTail /\ present \subseteq present' /\ present' \subseteq Files
  <2>1. CASE Truncate(sessionFile')
    BY <1>5, <2>1, Created
  <2>2. CASE UNCHANGED files
    BY <2>2 DEF files, StoreInv, TypeOK
  <2>3. Truncate(sessionFile') \/ UNCHANGED files
    BY ForkStep
  <2> QED
    BY <2>1, <2>2, <2>3
<1>8. Len(kept) \in Nat /\ n <= n + Len(kept) /\ n + Len(kept) \in Nat
  BY <1>1, <1>2
<1>9. LabelsInv'
  <2>1. Once(kept) /\ ToSet(kept) = ForkLabels(path)
    BY <1>1, ForkKeptIs
  <2>2. \A j \in DOMAIN path : log[path[j]].kind # "label"
    BY <1>1, ForkPathIs
  <2>3. \A k \in DOMAIN kept : new[k].kind = "label" /\ new[k].ref = kept[k] /\ new[k].on = TRUE
    BY <1>2, <1>3
  <2>4. fileEntries' = <<Header>> \o path \o [k \in 1..Len(kept) |-> n + k]
    BY <1>5 DEF ForkEntries
  <2> HIDE DEF kept, path, new
  <2>5. LabelsIn(log \o new, fileEntries', {}) = ToSet(kept)
    <3>1. \A s : s = <<Header>> \o path \o [k \in 1..Len(kept) |-> Len(log) + k]
                  => LabelsIn(log \o new, s, {}) = ToSet(kept)
      <4>1. log \in Seq(Entry) /\ path \in Seq(1..Len(log)) /\ kept \in Seq(1..Len(log))
            /\ new \in Seq(Entry) /\ Len(new) = Len(kept)
        BY <1>1, <1>2
      <4> HIDE DEF n
      <4> QED
        BY <2>1, <2>2, <2>3, <4>1, LabelsForked
    <3> QED
      BY <2>4, <3>1
  <2>6. labelsById' = LabelsIn(log', fileEntries', {})
    BY <1>5, <2>1, <2>5
  <2> QED
    BY <1>5, <2>6, LabelsRebuilt
<1> HIDE DEF kept, path, new, n
<1>10. ASSUME NEW i \in 1..Len(log')
       PROVE  log'[i].parent < i /\ (log'[i].kind = "label" => log'[i].ref \in 1..Len(log'))
  <2>0. \A x \in 1..n : x \in 1..Len(log')
    BY <1>1, <1>4, <1>8
  <2>1. CASE i \in 1..n
    <3>1. log[i].parent < i /\ (log[i].kind = "label" => log[i].ref \in 1..n)
      BY <1>1, <2>1 DEF StoreInv, TreeInv, IsKind
    <3> QED
      BY <1>4, <2>0, <2>1, <3>1
  <2>2. CASE i \notin 1..n
    <3> DEFINE k == i - n
    <3>1. k \in 1..Len(kept) /\ i = n + k
      BY <1>1, <1>4, <1>8, <2>2
    <3> HIDE DEF k
    <3>2. log'[i] = new[k]
      BY <1>4, <3>1
    <3> QED
      BY <1>3, <2>0, <3>1, <3>2
  <2> QED
    BY <2>1, <2>2
<1>11. pending \in Seq(0..n) /\ flushed \in BOOLEAN /\ alive \in BOOLEAN /\ old \subseteq present /\ faults \in 0..scope.faults
  BY DEF StoreInv, TypeOK, n
<1>12. pending' \in Seq(0..Len(log'))
  <2>1. \A s \in Seq(0..n) : s \in Seq(0..n + Len(kept))
    BY <1>1, <1>8, Wider
  <2> QED
    BY <1>4, <1>6, <1>11, <2>1
<1>13. leafId' \in 0..Len(log')
  BY <1>4, <1>5, <1>8, LastIdType
<1>14. sessionFile' \in Files /\ \A f \in old : f # sessionFile'
  BY <1>5, <1>11 DEF FreshFiles
<1>15. Len(log) <= Len(log') /\ \A i \in 1..Len(log) : log'[i] = log[i]
  BY <1>4, <1>8 DEF n
<1>16. /\ scope' = scope /\ failed' = failed /\ faults' = faults /\ alive' = alive /\ old' = old
  BY <1>5 DEF bounds
<1>17. flushed' \in BOOLEAN /\ alive' \in BOOLEAN /\ faults' \in 0..scope.faults
  BY <1>6, <1>11, <1>16
<1> QED
  BY <1>4, <1>7, <1>9, <1>10, <1>12, <1>13, <1>14, <1>15, <1>16, <1>17, SameFiles

-----------------------------------------------------------------------------
(* Every step keeps StoreInv: opening sessions *)

\* A new session has no labels.
LEMMA NoLabels == \A tree, skipped : LabelsIn(tree, <<Header>>, skipped) = {}
<1>1. DOMAIN <<Header>> = {1} /\ <<Header>>[1] = Header
  OBVIOUS
<1> QED
  BY <1>1 DEF LabelsIn

\* What StoreInv says of the log, for steps that do not change it.
LEMMA LogStays ==
  ASSUME StoreInv, log' = log
  PROVE  /\ log' \in Seq(Entry) /\ Len(log) <= Len(log') /\ Len(log) \in Nat
         /\ \A i \in 1..Len(log) : log'[i] = log[i]
         /\ \A i \in 1..Len(log') :
              log'[i].parent < i /\ (log'[i].kind = "label" => log'[i].ref \in 1..Len(log'))
         /\ faults \in 0..scope.faults /\ present \subseteq Files /\ old \subseteq present
         /\ failed \subseteq 0..Len(log')
<1>1. log \in Seq(Entry) /\ Len(log) \in Nat /\ DOMAIN log = 1..Len(log)
  BY DEF StoreInv, TypeOK
<1>2. \A i \in 1..Len(log) :
        log[i].parent < i /\ (log[i].kind = "label" => log[i].ref \in 1..Len(log))
  BY <1>1 DEF StoreInv, TreeInv, IsKind
<1>3. /\ faults \in 0..scope.faults /\ present \subseteq Files /\ old \subseteq present
      /\ failed \subseteq 0..Len(log)
  BY DEF StoreInv, TypeOK
<1>4. Len(log) <= Len(log)
  BY <1>1
<1> QED
  BY <1>1, <1>2, <1>3, <1>4

\* A session is opened, or none is left, and nothing is written yet.
LEMMA OpenKeeps ==
  ASSUME StoreInv, NEW s \in Seq(0..Len(log)), NEW p \in Seq(0..Len(log)),
         fileEntries' = s, leafId' \in 0..Len(log), LabelsInv',
         flushed' \in BOOLEAN, alive' \in BOOLEAN, pending' = p,
         sessionFile' \in Files, \A f \in old : alive' \/ pending' # <<>> => f # sessionFile',
         UNCHANGED <<log, disk, openTail, old, bounds>>,
         present \subseteq present', present' \subseteq Files
  PROVE  StoreInv'
<1>1. /\ log' = log /\ scope' = scope /\ failed' = failed /\ faults' = faults
      /\ UNCHANGED <<disk, openTail, old>>
  BY DEF bounds
<1>2. /\ log' \in Seq(Entry) /\ Len(log) <= Len(log')
      /\ \A i \in 1..Len(log) : log'[i] = log[i]
      /\ \A i \in 1..Len(log') :
           log'[i].parent < i /\ (log'[i].kind = "label" => log'[i].ref \in 1..Len(log'))
      /\ faults' \in 0..scope.faults
  BY <1>1, LogStays
<1>3. /\ fileEntries' \in Seq(0..Len(log')) /\ leafId' \in 0..Len(log')
      /\ pending' \in Seq(0..Len(log'))
  BY <1>1
<1> QED
  BY <1>1, <1>2, <1>3, SameFiles

\* A session without entries has no labels.
LEMMA FreshLabels ==
  ASSUME Fresh
  PROVE  LabelsInv'
<1>1. labelsById' = LabelsIn(log', fileEntries', {}) /\ unmarked' = {}
  BY NoLabels DEF Fresh
<1> QED
  BY <1>1, LabelsRebuilt

\* The same of a session without entries.
LEMMA FreshKeeps ==
  ASSUME StoreInv, Fresh, alive' \in BOOLEAN, pending' = pending,
         sessionFile' \in Files, \A f \in old : alive' \/ pending' # <<>> => f # sessionFile',
         UNCHANGED <<log, disk, openTail, old, bounds>>,
         present \subseteq present', present' \subseteq Files
  PROVE  StoreInv'
<1>1. Len(log) \in Nat /\ pending \in Seq(0..Len(log))
  BY DEF StoreInv, TypeOK
<1>2. 0 \in 0..Len(log) /\ <<Header>> \in Seq(0..Len(log))
  BY <1>1 DEF Header
<1>3. /\ fileEntries' = <<Header>> /\ leafId' \in 0..Len(log) /\ flushed' \in BOOLEAN
      /\ LabelsInv'
  BY <1>2, FreshLabels DEF Fresh, Null
<1> QED
  BY <1>1, <1>2, <1>3, OpenKeeps

LEMMA NewSessionKeeps ==
  ASSUME StoreInv, NewSession
  PROVE  StoreInv'
<1>1. /\ Fresh /\ alive' = TRUE /\ sessionFile' \in FreshFiles
      /\ UNCHANGED <<log, files, pending, old, bounds>>
  BY DEF NewSession
<1>2. sessionFile' \in Files /\ sessionFile' \notin present /\ old \subseteq present /\ present \subseteq Files
  BY <1>1 DEF FreshFiles, StoreInv, TypeOK
<1>3. UNCHANGED <<log, disk, openTail, old, bounds>> /\ present' = present /\ pending' = pending
  BY <1>1 DEF files
<1>4. /\ alive' \in BOOLEAN /\ present \subseteq present' /\ present' \subseteq Files
      /\ \A f \in old : f # sessionFile'
  BY <1>1, <1>2, <1>3
<1> QED
  BY <1>1, <1>2, <1>3, <1>4, FreshKeeps

\* An empty file appears while no session is open.
LEMMA TouchFileKeeps ==
  ASSUME StoreInv, NEW f \in Files, TouchFile(f)
  PROVE  StoreInv'
<1>1. /\ Len(log) \in Nat /\ fileEntries \in Seq(0..Len(log)) /\ pending \in Seq(0..Len(log))
      /\ leafId \in 0..Len(log) /\ flushed \in BOOLEAN /\ alive \in BOOLEAN /\ sessionFile \in Files
      /\ present \subseteq Files
  BY DEF StoreInv, TypeOK
<1>2. LabelsInv'
  BY LabelsKept DEF TouchFile, memory, bounds
<1>3. \A g \in old : alive \/ pending # <<>> => g # sessionFile
  BY DEF StoreInv, OldFilesInv
<1>4. /\ present' = present \union {f} /\ UNCHANGED <<log, disk, openTail, old, bounds>>
      /\ fileEntries' = fileEntries /\ leafId' = leafId
      /\ flushed' = flushed /\ sessionFile' = sessionFile /\ alive' = alive /\ pending' = pending
  BY DEF TouchFile, memory
<1>5. present \subseteq present' /\ present' \subseteq Files
  BY <1>1, <1>4
<1> QED
  BY <1>1, <1>2, <1>3, <1>4, <1>5, OpenKeeps

\* What _buildIndex makes of a list of entries.
LEMMA IndexedIs ==
  ASSUME StoreInv, NEW s \in Seq(0..Len(log)), Indexed(s)
  PROVE  fileEntries' = s /\ leafId' \in 0..Len(log) /\ labelsById' = LabelsIn(log, s, {}) /\ unmarked' = {}
<1>1. Len(log) \in Nat
  BY DEF StoreInv, TypeOK
<1>2. LastId(s) \in 0..Len(log)
  BY <1>1, LastIdType
<1> QED
  BY <1>2, LabelsOfIs DEF Indexed

\* The copy of the entries of another session.
LEMMA ForkFromKeeps ==
  ASSUME StoreInv, NEW src \in Files, ForkFrom(src)
  PROVE  StoreInv'
<1> DEFINE own == Only(Loaded(src), Ids(Loaded(src)))
           s == <<Header>> \o own
<1>1. Len(log) \in Nat /\ Loaded(src) \in Seq(0..Len(log))
  BY LoadedType DEF StoreInv, TypeOK
<1>2. own \in Seq(0..Len(log))
  BY <1>1, OnlyNat
<1>3. s \in Seq(0..Len(log))
  <2> HIDE DEF own
  <2>1. <<Header>> \in Seq(0..Len(log))
    BY <1>1 DEF Header
  <2> QED
    BY <1>2, <2>1
<1>4. /\ ~alive /\ sessionFile' \in FreshFiles /\ Indexed(s) /\ pending' = s /\ flushed' = FALSE
      /\ UNCHANGED <<log, files, alive, old, bounds>>
  BY DEF ForkFrom
<1> HIDE DEF s
<1>5. fileEntries' = s /\ leafId' \in 0..Len(log) /\ LabelsInv'
  BY <1>3, <1>4, IndexedIs, LabelsRebuilt
<1>6. sessionFile' \in Files /\ sessionFile' \notin present /\ old \subseteq present /\ present \subseteq Files /\ alive \in BOOLEAN
  BY <1>4 DEF FreshFiles, StoreInv, TypeOK
<1>7. UNCHANGED <<log, disk, openTail, old, bounds>> /\ present' = present /\ alive' = alive
  BY <1>4 DEF files
<1>8. /\ present \subseteq present' /\ present' \subseteq Files /\ alive' \in BOOLEAN /\ flushed' \in BOOLEAN
      /\ \A f \in old : f # sessionFile'
  BY <1>4, <1>6, <1>7
<1> QED
  BY <1>3, <1>4, <1>5, <1>6, <1>7, <1>8, OpenKeeps

\* An old file reads as it is: a header and the three entries.
LEMMA OldLoaded ==
  ASSUME StoreInv, NEW f \in old
  PROVE  Loaded(f) = <<Header, 1, 2, 3>>
<1> DEFINE s == <<Header, 1, 2, 3>>
<1>1. disk[f] = s
  BY DEF StoreInv, OldFilesInv
<1>2. s \in Seq(Int) /\ s # <<>> /\ Head(s) = Header
  BY DEF Header
<1>3. \A i \in DOMAIN s : s[i] # Garbage
  BY DEF Header, Garbage
<1> HIDE DEF s
<1>4. ToSet(s) \subseteq ToSet(s) \ {Garbage}
  BY <1>3 DEF ToSet
<1>5. Only(s, ToSet(s) \ {Garbage}) = s
  BY <1>2, <1>4, OnlyAll
<1>6. Parsed(f) = s
  BY <1>1, <1>5 DEF Parsed
<1> QED
  BY <1>2, <1>6 DEF Loaded, s

\* A migration gives the three entries parents; the index of the compaction
\* becomes the entry it counts.
LEMMA MigratedIs ==
  ASSUME StoreInv, NEW f \in old
  PROVE  LET new == Migrated(Loaded(f))
         IN  /\ new \in Seq(Entry) /\ Len(new) = Len(log)
             /\ \A i \in 1..Len(log) :
                  /\ new[i].kind = log[i].kind /\ new[i].ref = log[i].ref
                  /\ new[i].on = log[i].on
                  /\ new[i].parent = IF i \in 1..3 THEN i - 1 ELSE log[i].parent
<1> DEFINE s == <<Header, 1, 2, 3>>
           new == Migrated(s)
           n == Len(log)
           at(id) == CHOOSE k \in DOMAIN s : s[k] = id
<1>1. log \in Seq(Entry) /\ n \in Nat /\ DOMAIN log = 1..n
  BY DEF StoreInv, TypeOK
<1>2. /\ 1 \in 1..n /\ 2 \in 1..n /\ 3 \in 1..n
      /\ log[1].kind = "user" /\ log[2].kind = "assistant" /\ log[3].kind = "compaction"
      /\ log[3].ref \in 1..2
  BY <1>1 DEF StoreInv, OldFilesInv, IsKind
<1>3. DOMAIN s = 1..4 /\ s[1] = 0 /\ s[2] = 1 /\ s[3] = 2 /\ s[4] = 3
  BY DEF Header
<1> HIDE DEF s
<1>4. \A x : x \in Ids(s) <=> x \in 1..3
  <2>1. \A x : x \in ToSet(s) <=> x \in 0..3
    <3>1. \A x \in ToSet(s) : x \in 0..3
      BY <1>3 DEF ToSet
    <3>2. \A x \in 0..3 : x + 1 \in 1..4 /\ s[x + 1] = x
      BY <1>3
    <3> QED
      BY <1>3, <3>1, <3>2 DEF ToSet
  <2>2. \A x \in 0..3 : x # Garbage /\ (x # Header <=> x \in 1..3)
    BY DEF Header, Garbage
  <2>3. \A x \in 1..3 : x \in 0..3
    OBVIOUS
  <2> QED
    BY <2>1, <2>2, <2>3 DEF Ids
<1>5. ASSUME NEW i \in 1..3 PROVE at(i) = i + 1 /\ s[at(i) - 1] = i - 1
  <2>1. \A k \in DOMAIN s : s[k] = i <=> k = i + 1
    BY <1>3
  <2>2. i + 1 \in DOMAIN s
    BY <1>3
  <2>3. at(i) = i + 1
    BY <2>1, <2>2
  <2>4. s[i] = i - 1
    BY <1>3
  <2>5. i + 1 - 1 = i
    OBVIOUS
  <2> HIDE DEF at
  <2> QED
    BY <2>3, <2>4, <2>5
<1>6. s[log[3].ref + 1] = log[3].ref
  BY <1>2, <1>3
<1>7. new = [id \in 1..n |->
               IF id \notin Ids(s) THEN log[id]
               ELSE [log[id] EXCEPT !.parent = s[at(id) - 1],
                       !.ref = IF log[id].kind = "compaction" THEN s[log[id].ref + 1] ELSE log[id].ref]]
  BY <1>1 DEF Migrated, KeptOf, IsKind
<1> HIDE DEF at, new
<1>8. ASSUME NEW i \in 1..n
      PROVE  /\ new[i] \in Entry
             /\ new[i].kind = log[i].kind /\ new[i].ref = log[i].ref
             /\ new[i].on = log[i].on
             /\ new[i].parent = IF i \in 1..3 THEN i - 1 ELSE log[i].parent
  <2>1. log[i] \in Entry
    BY <1>1, <1>8
  <2>2. CASE i \notin 1..3
    BY <1>4, <1>7, <2>1, <2>2
  <2>3. CASE i \in 1..3
    <3> DEFINE ref == IF log[i].kind = "compaction" THEN s[log[i].ref + 1] ELSE log[i].ref
    <3>1. new[i] = [log[i] EXCEPT !.parent = s[at(i) - 1], !.ref = ref]
      BY <1>4, <1>7, <2>3
    <3>2. ref = log[i].ref
      <4>1. i = 1 \/ i = 2 \/ i = 3
        BY <2>3
      <4> QED
        BY <1>2, <1>6, <4>1
    <3>3. s[at(i) - 1] = i - 1 /\ i - 1 \in Nat
      BY <1>5, <2>3
    <3> HIDE DEF ref
    <3>4. new[i] = [log[i] EXCEPT !.parent = i - 1, !.ref = log[i].ref]
      BY <3>1, <3>2, <3>3
    <3> QED
      BY <2>1, <2>3, <3>3, <3>4 DEF Entry
  <2> QED
    BY <2>2, <2>3
<1>9. new \in [1..n -> Entry]
  BY <1>7, <1>8
<1>10. new \in Seq(Entry) /\ Len(new) = n
  BY <1>1, <1>9
<1>11. Loaded(f) = s
  BY OldLoaded DEF s
<1> QED
  BY <1>8, <1>10, <1>11 DEF new, n

\* The same log as far as labels go has the same labels.
LEMMA LabelsSame ==
  ASSUME NEW tree, NEW more, Len(more) = Len(tree), Len(tree) \in Nat, NEW s \in Seq(0..Len(tree)),
         \A i \in 1..Len(tree) :
           more[i].kind = tree[i].kind /\ more[i].ref = tree[i].ref /\ more[i].on = tree[i].on
  PROVE  LabelsIn(more, s, {}) = LabelsIn(tree, s, {})
<1>1. ASSUME NEW k \in DOMAIN s, s[k] # Header
      PROVE  /\ more[s[k]].kind = tree[s[k]].kind /\ more[s[k]].ref = tree[s[k]].ref
             /\ more[s[k]].on = tree[s[k]].on
  <2>1. s[k] \in 0..Len(tree)
    OBVIOUS
  <2>2. s[k] \in 1..Len(tree)
    BY <1>1, <2>1 DEF Header
  <2> QED
    BY <2>2
<1> DEFINE Same(k, t) ==
      /\ s[k] # Header /\ s[k] \notin {} /\ more[s[k]].kind = "label" /\ more[s[k]].ref = t
      /\ more[s[k]].on
      /\ \A m \in DOMAIN s :
           s[m] # Header /\ s[m] \notin {} /\ more[s[m]].kind = "label" /\ more[s[m]].ref = t => m <= k
           Old(k, t) ==
      /\ s[k] # Header /\ s[k] \notin {} /\ tree[s[k]].kind = "label" /\ tree[s[k]].ref = t
      /\ tree[s[k]].on
      /\ \A m \in DOMAIN s :
           s[m] # Header /\ s[m] \notin {} /\ tree[s[m]].kind = "label" /\ tree[s[m]].ref = t => m <= k
<1>2. \A k \in DOMAIN s : \A t : Same(k, t) <=> Old(k, t)
  BY <1>1
<1>3. /\ LabelsIn(more, s, {}) = {t \in 1..Len(more) : \E k \in DOMAIN s : Same(k, t)}
      /\ LabelsIn(tree, s, {}) = {t \in 1..Len(tree) : \E k \in DOMAIN s : Old(k, t)}
  BY DEF LabelsIn
<1> HIDE DEF Same, Old
<1> QED
  BY <1>2, <1>3

\* A file is opened.
LEMMA SetSessionFileKeeps ==
  ASSUME StoreInv, NEW f \in Files, SetSessionFile(f)
  PROVE  StoreInv'
<1>1. pending = <<>> /\ sessionFile' = f /\ UNCHANGED bounds
  BY DEF SetSessionFile
<1>2. /\ Len(log) \in Nat /\ old \subseteq present /\ present \subseteq Files /\ openTail \subseteq present
      /\ alive \in BOOLEAN /\ disk \in [Files -> Seq(-1..Len(log))]
  BY DEF StoreInv, TypeOK
<1>3. <<>> \in Seq(0..Len(log)) /\ <<>> \in Seq(-1..Len(log)) /\ <<Header>> \in Seq(0..Len(log)) /\ 0 \in 0..Len(log)
  BY <1>2 DEF Header
<1>4. CASE f \notin present /\ Fresh /\ alive' = TRUE /\ UNCHANGED <<log, files, pending, old>>
  <2>1. UNCHANGED <<log, disk, openTail, old, bounds>> /\ present' = present /\ pending' = pending
    BY <1>1, <1>4 DEF files
  <2>2. /\ alive' \in BOOLEAN /\ present \subseteq present' /\ present' \subseteq Files
        /\ sessionFile' \in Files /\ \A g \in old : g # sessionFile'
    BY <1>1, <1>2, <1>4, <2>1
  <2> QED
    BY <1>4, <2>1, <2>2, FreshKeeps
<1>5. CASE f \in present \ old /\ Indexed(Loaded(f)) /\ flushed' = TRUE /\ alive' = TRUE
           /\ UNCHANGED <<log, files, pending, old>>
  <2>1. UNCHANGED <<log, disk, openTail, old, bounds>> /\ present' = present /\ pending' = <<>>
    BY <1>1, <1>5 DEF files
  <2>2. /\ alive' \in BOOLEAN /\ flushed' \in BOOLEAN /\ present \subseteq present' /\ present' \subseteq Files
        /\ sessionFile' \in Files /\ \A g \in old : g # sessionFile'
    BY <1>1, <1>2, <1>5, <2>1
  <2>3. Loaded(f) \in Seq(0..Len(log))
    BY LoadedType DEF StoreInv
  <2>4. fileEntries' = Loaded(f) /\ leafId' \in 0..Len(log) /\ LabelsInv'
    BY <1>5, <2>3, IndexedIs, LabelsRebuilt
  <2> QED
    BY <1>3, <2>1, <2>2, <2>3, <2>4, OpenKeeps
<1>6. CASE f \in present /\ Loaded(f) = <<>> /\ Fresh /\ Truncate(f) /\ pending' = <<Header>>
           /\ UNCHANGED <<log, alive, old>>
  <2>1. f \notin old
    <3>1. <<Header, 1, 2, 3>> # <<>>
      OBVIOUS
    <3> QED
      BY <1>6, <3>1, OldLoaded
  <2>2. /\ disk' = [disk EXCEPT ![f] = <<>>] /\ present' = present /\ openTail' = openTail \ {f}
        /\ log' = log /\ alive' = alive /\ old' = old /\ scope' = scope /\ failed' = failed /\ faults' = faults
    BY <1>1, <1>6 DEF Truncate, bounds
  <2>3. /\ disk' \in [Files -> Seq(-1..Len(log))]
        /\ \A g \in Files : g # f => disk'[g] = disk[g]
        /\ disk'[f] = <<>>
    BY <1>2, <1>3, <2>2
  <2>4. /\ fileEntries' = <<Header>> /\ leafId' \in 0..Len(log) /\ flushed' \in BOOLEAN
        /\ LabelsInv'
    BY <1>3, <1>6, FreshLabels DEF Fresh, Null
  <2>5. /\ log' \in Seq(Entry) /\ Len(log) <= Len(log')
        /\ \A i \in 1..Len(log) : log'[i] = log[i]
        /\ \A i \in 1..Len(log') :
             log'[i].parent < i /\ (log'[i].kind = "label" => log'[i].ref \in 1..Len(log'))
        /\ faults' \in 0..scope.faults /\ failed' \subseteq 0..Len(log')
    BY <2>2, LogStays
  <2>6. \A g \in old' : disk'[g] = disk[g] /\ g \notin openTail' /\ g # sessionFile' /\ log'[3].ref \in 1..2
    <3>1. \A g \in old : g \notin openTail /\ g \in Files /\ g # f /\ log[3].ref \in 1..2
      BY <1>2, <2>1 DEF StoreInv, OldFilesInv
    <3> QED
      BY <1>1, <2>2, <2>3, <3>1
  <2>7. /\ \A g \in Files \ present' : disk'[g] = <<>>
        /\ present' \subseteq Files /\ openTail' \subseteq present' /\ old' \subseteq present' /\ old' \subseteq old
        /\ sessionFile' \in Files /\ alive' \in BOOLEAN
    <3>1. \A g \in Files \ present : disk[g] = <<>>
      BY DEF StoreInv
    <3> QED
      BY <1>1, <1>2, <2>2, <2>3, <3>1
  <2>8. \A i \in 1..Len(log) : log'[i].kind = log[i].kind
    BY <2>2
  <2>9. /\ fileEntries' \in Seq(0..Len(log')) /\ pending' \in Seq(0..Len(log')) /\ leafId' \in 0..Len(log')
        /\ disk' \in [Files -> Seq(-1..Len(log'))]
    BY <1>3, <1>6, <2>2, <2>3, <2>4
  <2> QED
    BY <2>2, <2>4, <2>5, <2>6, <2>7, <2>8, <2>9, StepKeeps
<1>7. CASE f \in present \intersect old /\ Indexed(Loaded(f)) /\ log' = Migrated(Loaded(f))
           /\ Truncate(f) /\ pending' = Loaded(f) /\ old' = old \ {f} /\ flushed' = FALSE /\ alive' = FALSE
  <2> DEFINE s == Loaded(f)
  <2>1. s \in Seq(0..Len(log))
    BY LoadedType DEF StoreInv
  <2>2. /\ log' \in Seq(Entry) /\ Len(log') = Len(log)
        /\ \A i \in 1..Len(log) :
             /\ log'[i].kind = log[i].kind /\ log'[i].ref = log[i].ref /\ log'[i].on = log[i].on
             /\ log'[i].parent = IF i \in 1..3 THEN i - 1 ELSE log[i].parent
    BY <1>7, MigratedIs
  <2> HIDE DEF s
  <2>3. /\ fileEntries' = s /\ leafId' \in 0..Len(log)
        /\ labelsById' = LabelsIn(log, s, {}) /\ unmarked' = {}
    BY <1>7, <2>1, IndexedIs DEF s
  <2>4. LabelsInv'
    <3>1. LabelsIn(log', s, {}) = LabelsIn(log, s, {})
      BY <1>2, <2>1, <2>2, LabelsSame
    <3> QED
      BY <2>3, <3>1, LabelsRebuilt
  <2>5. /\ disk' = [disk EXCEPT ![f] = <<>>] /\ present' = present /\ openTail' = openTail \ {f}
        /\ alive' = FALSE /\ pending' = s /\ scope' = scope /\ failed' = failed /\ faults' = faults
        /\ old' = old \ {f}
    BY <1>1, <1>7 DEF Truncate, bounds, s
  <2>6. /\ disk' \in [Files -> Seq(-1..Len(log))]
        /\ \A g \in Files : g # f => disk'[g] = disk[g]
        /\ disk'[f] = <<>>
    BY <1>2, <1>3, <2>5
  <2>7. ASSUME NEW i \in 1..Len(log')
        PROVE  log'[i].parent < i /\ (log'[i].kind = "label" => log'[i].ref \in 1..Len(log'))
    <3>1. i \in 1..Len(log)
      BY <2>2
    <3>2. log[i].parent < i /\ (log[i].kind = "label" => log[i].ref \in 1..Len(log))
      BY <3>1 DEF StoreInv, TypeOK, TreeInv, IsKind
    <3>3. i - 1 < i
      BY <1>2
    <3> QED
      BY <2>2, <3>1, <3>2, <3>3
  <2>8. \A g \in old' : disk'[g] = disk[g] /\ g \notin openTail' /\ g # sessionFile' /\ log'[3].ref \in 1..2
    <3>1. \A g \in old : g \notin openTail /\ g \in Files /\ log[3].ref \in 1..2 /\ 3 \in 1..Len(log)
      BY <1>2 DEF StoreInv, OldFilesInv, TypeOK
    <3> QED
      BY <1>1, <2>2, <2>5, <2>6, <3>1
  <2>9. /\ \A g \in Files \ present' : disk'[g] = <<>>
        /\ present' \subseteq Files /\ openTail' \subseteq present' /\ old' \subseteq present' /\ old' \subseteq old
        /\ sessionFile' \in Files /\ alive' \in BOOLEAN /\ flushed' \in BOOLEAN
    <3>1. \A g \in Files \ present : disk[g] = <<>>
      BY DEF StoreInv
    <3> QED
      BY <1>1, <1>2, <1>7, <2>5, <2>6, <3>1
  <2>10. /\ fileEntries' \in Seq(0..Len(log')) /\ pending' \in Seq(0..Len(log')) /\ leafId' \in 0..Len(log')
         /\ disk' \in [Files -> Seq(-1..Len(log'))]
    BY <2>1, <2>2, <2>3, <2>4, <2>5, <2>6
  <2>11. failed' \subseteq 0..Len(log') /\ faults' \in 0..scope.faults /\ Len(log) <= Len(log')
    BY <1>2, <2>2, <2>5 DEF StoreInv, TypeOK
  <2>12. \A i \in 1..Len(log) : log'[i].kind = log[i].kind
    BY <2>2
  <2>13. log' \in Seq(Entry) /\ scope' = scope /\ \A g \in old' : log'[3].ref \in 1..2
    BY <2>2, <2>5, <2>8
  <2> QED
    BY <2>4, <2>7, <2>8, <2>9, <2>10, <2>11, <2>12, <2>13, StepKeeps
<1> QED
  BY <1>4, <1>5, <1>6, <1>7 DEF SetSessionFile

-----------------------------------------------------------------------------
(* Every step keeps StoreInv: lines that are written, or not *)

\* What a line more, or half of one, does to a file.
LEMMA LineWritten ==
  ASSUME StoreInv, pending # <<>>, NEW line \in Seq(-1..Len(log)),
         disk' = [disk EXCEPT ![sessionFile] = line],
         present' = present \union {sessionFile}, openTail' \subseteq openTail \union {sessionFile}
  PROVE  /\ disk' \in [Files -> Seq(-1..Len(log))] /\ present' \subseteq Files
         /\ openTail' \subseteq present' /\ old \subseteq present'
         /\ \A f \in old : disk'[f] = disk[f] /\ f \notin openTail'
         /\ \A f \in Files \ present' : disk'[f] = <<>>
<1>1. /\ sessionFile \in Files /\ disk \in [Files -> Seq(-1..Len(log))] /\ present \subseteq Files
      /\ openTail \subseteq present /\ old \subseteq present
  BY DEF StoreInv, TypeOK
<1>2. \A f \in old : f # sessionFile /\ f \notin openTail
  BY DEF StoreInv, OldFilesInv
<1>3. \A f \in Files \ present : disk[f] = <<>>
  BY DEF StoreInv
<1>4. /\ disk' \in [Files -> Seq(-1..Len(log))]
      /\ \A f \in Files : f # sessionFile => disk'[f] = disk[f]
  BY <1>1
<1>5. present' \subseteq Files /\ openTail' \subseteq present' /\ old \subseteq present'
  BY <1>1
<1>6. \A f \in old : disk'[f] = disk[f] /\ f \notin openTail'
  BY <1>1, <1>2, <1>4
<1>7. \A f \in Files \ present' : disk'[f] = <<>>
  BY <1>1, <1>3, <1>4
<1> QED
  BY <1>4, <1>5, <1>6, <1>7

\* The lines a file may take.
LEMMA LineTypes ==
  ASSUME StoreInv, pending # <<>>
  PROVE  /\ Head(pending) \in 0..Len(log) /\ Tail(pending) \in Seq(0..Len(log))
         /\ \A x \in {Garbage, Head(pending)} :
              Append(disk[sessionFile], x) \in Seq(-1..Len(log))
         /\ Append(Front(disk[sessionFile]), Garbage) \in Seq(-1..Len(log))
<1> DEFINE n == Len(log)
           d == disk[sessionFile]
<1>1. n \in Nat /\ pending \in Seq(0..n) /\ d \in Seq(-1..n)
  BY DEF StoreInv, TypeOK
<1> HIDE DEF n, d
<1>2. Head(pending) \in 0..n /\ Tail(pending) \in Seq(0..n)
  BY <1>1
<1>3. Garbage \in -1..n /\ Head(pending) \in -1..n
  BY <1>1, <1>2 DEF Garbage
<1>4. \A x \in {Garbage, Head(pending)} : Append(d, x) \in Seq(-1..n)
  BY <1>1, <1>3
<1>5. Front(d) \in Seq(-1..n)
  <2>1. Len(d) \in Nat /\ Len(d) - 1 \in Int /\ 1 \in Int
    BY <1>1
  <2>2. \A i \in 1..Len(d) - 1 : d[i] \in -1..n
    <3>1. \A i \in 1..Len(d) - 1 : i \in 1..Len(d)
      BY <2>1
    <3> QED
      BY <1>1, <3>1, ElementOfSeq
  <2>3. SubSeq(d, 1, Len(d) - 1) \in Seq(-1..n)
    BY <2>1, <2>2, SubSeqProperties
  <2> QED
    BY <2>3 DEF Front
<1>6. Append(Front(d), Garbage) \in Seq(-1..n)
  BY <1>3, <1>5
<1> QED
  BY <1>2, <1>4, <1>6 DEF n, d

\* What StoreInv says of memory.
LEMMA MemoryTypes ==
  ASSUME StoreInv
  PROVE  /\ log \in Seq(Entry) /\ Len(log) \in Nat
         /\ fileEntries \in Seq(0..Len(log)) /\ leafId \in 0..Len(log)
         /\ flushed \in BOOLEAN /\ alive \in BOOLEAN /\ sessionFile \in Files
         /\ faults \in 0..scope.faults /\ scope.faults \in Nat
         /\ pending \in Seq(0..Len(log))
<1>1. scope.faults \in Nat
  BY SMAssumption DEF StoreInv
<1> QED
  BY <1>1 DEF StoreInv, TypeOK

\* The last item, when the first is taken away.
LEMMA LastOne ==
  ASSUME NEW A, NEW p \in Seq(A), p # <<>>
  PROVE  /\ Tail(p) = <<>> => Last(p) = Head(p)
         /\ Tail(p) # <<>> => Last(Tail(p)) = Last(p)
<1> DEFINE n == Len(p)
           q == Tail(p)
<1>1. n \in Nat /\ n > 0 /\ Head(p) = p[1] /\ Last(p) = p[n]
  BY DEF Last
<1>2. Len(q) = n - 1 /\ \A i \in 1..n - 1 : q[i] = p[i + 1]
  BY HeadTailProperties
<1>3. Last(q) = q[Len(q)]
  BY DEF Last
<1>4. Len(<<>>) = 0 /\ (Len(q) = 0 => q = <<>>)
  BY EmptySeq, HeadTailProperties
<1> HIDE DEF n, q
<1>5. CASE q = <<>>
  <2>1. n = 1
    BY <1>1, <1>2, <1>4, <1>5
  <2> QED
    BY <1>1, <1>5, <2>1 DEF q
<1>6. CASE q # <<>>
  <2>1. n - 1 \in 1..n - 1 /\ (n - 1) + 1 = n
    BY <1>1, <1>2, <1>4, <1>6
  <2>2. q[n - 1] = p[n]
    BY <1>2, <2>1
  <2> QED
    BY <1>1, <1>2, <1>3, <1>6, <2>2 DEF q
<1> QED
  BY <1>5, <1>6 DEF q

\* With its last line a label that was written is marked.
LEMMA LineLabels ==
  ASSUME StoreInv, WriteLine
  PROVE  LabelsInv'
<1> DEFINE h == Head(pending)
           n == Len(log)
<1>1. /\ pending # <<>> /\ pending' = Tail(pending)
      /\ \/ /\ pending' = <<>> /\ h \in unmarked
            /\ labelsById' = LabelsAfter(log[h]) /\ unmarked' = unmarked \ {h}
         \/ /\ ~(pending' = <<>> /\ h \in unmarked)
            /\ UNCHANGED <<labelsById, unmarked>>
      /\ log' = log /\ fileEntries' = fileEntries /\ failed' = failed
  BY DEF WriteLine, bounds
<1>2. /\ log \in Seq(Entry) /\ n \in Nat /\ fileEntries \in Seq(0..n) /\ pending \in Seq(0..n)
      /\ DOMAIN log = 1..n
  BY MemoryTypes
<1>3. /\ labelsById = LabelsIn(log, fileEntries, unmarked) /\ unmarked \subseteq 1..n
      /\ unmarked \ failed \subseteq {Last(pending)}
      /\ Last(pending) \in unmarked =>
           /\ fileEntries # <<>> /\ Last(pending) = Last(fileEntries)
           /\ log[Last(pending)].kind = "label"
  BY <1>1, LabelsHold, LabelsNow DEF LabelsInv, WritingLabel, IsKind
<1>4. pending' = <<>> => Last(pending) = h
  BY <1>1, <1>2, LastOne
<1>5. pending' # <<>> => Last(pending') = Last(pending)
  BY <1>1, <1>2, LastOne
<1> HIDE DEF h
<1>6. CASE pending' = <<>> /\ h \in unmarked
  <2>1. /\ fileEntries # <<>> /\ h = Last(fileEntries) /\ log[h].kind = "label" /\ h \in 1..n
        /\ labelsById' = LabelsAfter(log[h]) /\ unmarked' = unmarked \ {h}
    BY <1>1, <1>3, <1>4, <1>6
  <2>2. h # Header /\ log[h].ref \in 1..n
    BY <1>2, <2>1 DEF StoreInv, TreeInv, IsKind, Header
  <2>4. labelsById' = LabelsIn(log', fileEntries', unmarked')
    <3>1. LabelsIn(log, fileEntries, unmarked \ {h})
            = IF log[h].on THEN LabelsIn(log, fileEntries, unmarked) \union {log[h].ref}
              ELSE LabelsIn(log, fileEntries, unmarked) \ {log[h].ref}
      BY <1>2, <1>6, <2>1, <2>2, LabelsMarked
    <3> QED
      BY <1>1, <1>3, <2>1, <3>1 DEF LabelsAfter
  <2>5. unmarked' \ failed' \subseteq {} /\ unmarked' \subseteq 1..Len(log')
    BY <1>1, <1>3, <1>4, <1>6, <2>1
  <2> QED
    BY <1>6, <2>4, <2>5, LabelsNext DEF LabelsInv, WritingLabel
<1>7. CASE ~(pending' = <<>> /\ h \in unmarked)
  <2>1. labelsById' = labelsById /\ unmarked' = unmarked
    BY <1>1, <1>7
  <2>2. unmarked' \ failed' \subseteq (IF pending' = <<>> THEN {} ELSE {Last(pending')})
    BY <1>1, <1>3, <1>4, <1>5, <1>7, <2>1
  <2>3. WritingLabel'
    BY <1>1, <1>3, <1>5, <2>1 DEF WritingLabel, IsKind
  <2>4. labelsById' = LabelsIn(log', fileEntries', unmarked') /\ unmarked' \subseteq 1..Len(log')
    BY <1>1, <1>3, <2>1
  <2> QED
    BY <2>2, <2>3, <2>4, LabelsNext DEF LabelsInv
<1> QED
  BY <1>6, <1>7

LEMMA WriteLineKeeps ==
  ASSUME StoreInv, WriteLine
  PROVE  StoreInv'
<1> DEFINE line == IF sessionFile \in openTail
                   THEN Append(Front(disk[sessionFile]), Garbage)
                   ELSE Append(disk[sessionFile], Head(pending))
<1>1. /\ pending # <<>>
      /\ disk' = [disk EXCEPT ![sessionFile] = line]
      /\ present' = present \union {sessionFile} /\ openTail' = openTail \ {sessionFile}
      /\ pending' = Tail(pending)
      /\ flushed' = (flushed \/ pending' = <<>>) /\ alive' = (alive \/ pending' = <<>>)
      /\ UNCHANGED <<log, fileEntries, leafId, sessionFile, old, bounds>>
  BY DEF WriteLine
<1>2. line \in Seq(-1..Len(log))
  <2>1. /\ Append(Front(disk[sessionFile]), Garbage) \in Seq(-1..Len(log))
        /\ Append(disk[sessionFile], Head(pending)) \in Seq(-1..Len(log))
    BY <1>1, LineTypes
  <2> QED
    BY <2>1
<1> HIDE DEF line
<1>3. openTail' \subseteq openTail \union {sessionFile}
  BY <1>1
<1>4. /\ disk' \in [Files -> Seq(-1..Len(log))] /\ present' \subseteq Files
      /\ openTail' \subseteq present' /\ old \subseteq present'
      /\ \A f \in old : disk'[f] = disk[f] /\ f \notin openTail'
      /\ \A f \in Files \ present' : disk'[f] = <<>>
  BY <1>1, <1>2, <1>3, LineWritten
<1>5. /\ log' = log /\ fileEntries' = fileEntries /\ leafId' = leafId
      /\ sessionFile' = sessionFile /\ old' = old /\ scope' = scope /\ failed' = failed /\ faults' = faults
  BY <1>1 DEF bounds
<1>6. /\ log' \in Seq(Entry) /\ Len(log) <= Len(log')
      /\ \A i \in 1..Len(log) : log'[i] = log[i]
      /\ \A i \in 1..Len(log') :
           log'[i].parent < i /\ (log'[i].kind = "label" => log'[i].ref \in 1..Len(log'))
      /\ faults' \in 0..scope.faults /\ failed' \subseteq 0..Len(log')
  BY <1>5, LogStays
<1>7. /\ fileEntries' \in Seq(0..Len(log')) /\ leafId' \in 0..Len(log')
      /\ LabelsInv' /\ sessionFile' \in Files
  BY <1>5, MemoryTypes, LineLabels
<1>8. pending' \in Seq(0..Len(log')) /\ flushed' \in BOOLEAN /\ alive' \in BOOLEAN
  BY <1>1, <1>5, LineTypes, MemoryTypes
<1>9. \A f \in old : f # sessionFile /\ log[3].ref \in 1..2
  BY <1>1 DEF StoreInv, OldFilesInv
<1>10. /\ disk' \in [Files -> Seq(-1..Len(log'))]
       /\ \A f \in old' : log'[3].ref \in 1..2
       /\ \A f \in old' : disk'[f] = disk[f] /\ f \notin openTail'
       /\ \A f \in old' : alive' \/ pending' # <<>> => f # sessionFile'
       /\ old' \subseteq present' /\ old' \subseteq old
       /\ \A i \in 1..Len(log) : log'[i].kind = log[i].kind
  BY <1>4, <1>5, <1>9
<1> QED
  BY <1>4, <1>5, <1>6, <1>7, <1>8, <1>10, StepKeeps

\* A write that does not end.
LEMMA InterruptedFiles ==
  ASSUME StoreInv, Interrupted
  PROVE  /\ disk' \in [Files -> Seq(-1..Len(log))] /\ present' \subseteq Files
         /\ openTail' \subseteq present' /\ old \subseteq present'
         /\ \A f \in old : disk'[f] = disk[f] /\ f \notin openTail'
         /\ \A f \in Files \ present' : disk'[f] = <<>>
<1>1. CASE UNCHANGED files
  BY <1>1 DEF files, StoreInv, TypeOK, OldFilesInv
<1>2. CASE /\ pending # <<>>
           /\ \E x \in {Garbage, Head(pending)} :
                disk' = [disk EXCEPT ![sessionFile] = Append(@, x)]
           /\ present' = present \union {sessionFile}
           /\ openTail' = openTail \union {sessionFile}
  <2>1. PICK x \in {Garbage, Head(pending)} :
               disk' = [disk EXCEPT ![sessionFile] = Append(@, x)]
    BY <1>2
  <2>2. Append(disk[sessionFile], x) \in Seq(-1..Len(log))
    BY <1>2, LineTypes
  <2>3. disk' = [disk EXCEPT ![sessionFile] = Append(disk[sessionFile], x)]
    BY <2>1
  <2> QED
    BY <1>2, <2>2, <2>3, LineWritten
<1> QED
  BY <1>1, <1>2 DEF Interrupted

\* A write that fails, or a crash: memory as it was, or without a session.
LEMMA FaultKeeps ==
  ASSUME StoreInv, Interrupted, faults < scope.faults, faults' = faults + 1,
         UNCHANGED <<scope, log, sessionFile, old>>,
         failed' \subseteq 0..Len(log), pending' = <<>>,
         fileEntries' \in Seq(0..Len(log)), leafId' \in 0..Len(log),
         LabelsInv',
         flushed' \in BOOLEAN, alive' \in BOOLEAN, alive' => alive
  PROVE  StoreInv'
<1>1. log' = log /\ scope' = scope /\ old' = old /\ sessionFile' = sessionFile
  OBVIOUS
<1>2. /\ log' \in Seq(Entry) /\ Len(log) <= Len(log') /\ Len(log) \in Nat
      /\ \A i \in 1..Len(log) : log'[i] = log[i]
      /\ \A i \in 1..Len(log') :
           log'[i].parent < i /\ (log'[i].kind = "label" => log'[i].ref \in 1..Len(log'))
  BY <1>1, LogStays
<1>3. /\ disk' \in [Files -> Seq(-1..Len(log))] /\ present' \subseteq Files
      /\ openTail' \subseteq present' /\ old \subseteq present'
      /\ \A f \in old : disk'[f] = disk[f] /\ f \notin openTail'
      /\ \A f \in Files \ present' : disk'[f] = <<>>
  BY InterruptedFiles
<1>4. sessionFile \in Files /\ faults' \in 0..scope.faults
  BY MemoryTypes
<1>5. \A f \in old : (alive => f # sessionFile) /\ log[3].ref \in 1..2
  BY DEF StoreInv, OldFilesInv
<1>6. pending' \in Seq(0..Len(log'))
  BY <1>2
<1>7. /\ fileEntries' \in Seq(0..Len(log')) /\ leafId' \in 0..Len(log')
      /\ sessionFile' \in Files
      /\ failed' \subseteq 0..Len(log') /\ disk' \in [Files -> Seq(-1..Len(log'))]
  BY <1>1, <1>3, <1>4
<1>8. /\ \A f \in old' : log'[3].ref \in 1..2
      /\ \A f \in old' : disk'[f] = disk[f] /\ f \notin openTail'
      /\ \A f \in old' : alive' \/ pending' # <<>> => f # sessionFile'
      /\ old' \subseteq present' /\ old' \subseteq old
      /\ \A i \in 1..Len(log) : log'[i].kind = log[i].kind
  BY <1>1, <1>3, <1>5
<1> QED
  BY <1>1, <1>2, <1>3, <1>4, <1>6, <1>7, <1>8, StepKeeps

LEMMA WriteFailsKeeps ==
  ASSUME StoreInv, WriteFails
  PROVE  StoreInv'
<1>1. /\ alive /\ pending # <<>> /\ faults < scope.faults /\ faults' = faults + 1
      /\ failed' = failed \union ToSet(pending) /\ pending' = <<>> /\ Interrupted
      /\ scope' = scope /\ log' = log /\ old' = old
      /\ fileEntries' = fileEntries /\ leafId' = leafId
      /\ labelsById' = labelsById /\ unmarked' = unmarked
      /\ flushed' = flushed /\ sessionFile' = sessionFile /\ alive' = alive
  BY DEF WriteFails, memory
<1>2. failed' \subseteq 0..Len(log)
  <2>1. pending \in Seq(0..Len(log)) /\ failed \subseteq 0..Len(log)
    BY DEF StoreInv, TypeOK
  <2>2. ToSet(pending) \subseteq 0..Len(log)
    BY <2>1 DEF ToSet
  <2> QED
    BY <1>1, <2>1, <2>2
<1>3. /\ fileEntries' \in Seq(0..Len(log)) /\ leafId' \in 0..Len(log)
      /\ flushed' \in BOOLEAN /\ alive' \in BOOLEAN
  BY <1>1, MemoryTypes
<1>4. LabelsInv'
  <2>1. /\ labelsById = LabelsIn(log, fileEntries, unmarked) /\ unmarked \subseteq 1..Len(log)
        /\ unmarked \ failed \subseteq {Last(pending)}
    BY <1>1, LabelsHold, LabelsNow DEF LabelsInv
  <2>2. Last(pending) \in ToSet(pending)
    BY <1>1, MemoryTypes DEF Last, ToSet
  <2>3. unmarked' \ failed' \subseteq {}
    BY <1>1, <2>1, <2>2
  <2>4. labelsById' = LabelsIn(log', fileEntries', unmarked') /\ unmarked' \subseteq 1..Len(log')
    BY <1>1, <2>1
  <2> QED
    BY <1>1, <2>3, <2>4, LabelsNext DEF LabelsInv, WritingLabel
<1> QED
  BY <1>1, <1>2, <1>3, <1>4, FaultKeeps

LEMMA CrashKeeps ==
  ASSUME StoreInv, Crash
  PROVE  StoreInv'
<1>1. /\ faults < scope.faults /\ faults' = faults + 1 /\ alive' = FALSE /\ Fresh
      /\ pending' = <<>> /\ Interrupted /\ UNCHANGED <<scope, log, sessionFile, old>> /\ failed' = failed
  BY DEF Crash
<1>2. Len(log) \in Nat /\ failed' \subseteq 0..Len(log)
  BY <1>1 DEF StoreInv, TypeOK
<1>3. /\ fileEntries' \in Seq(0..Len(log)) /\ leafId' \in 0..Len(log)
      /\ LabelsInv' /\ flushed' \in BOOLEAN
  <2>1. 0 \in 0..Len(log) /\ <<Header>> \in Seq(0..Len(log))
    BY <1>2 DEF Header
  <2>2. fileEntries' = <<Header>> /\ leafId' = 0 /\ flushed' = FALSE
    BY <1>1 DEF Fresh, Null
  <2> QED
    BY <1>1, <2>1, <2>2, FreshLabels
<1> QED
  BY <1>1, <1>2, <1>3, FaultKeeps

-----------------------------------------------------------------------------
(* The invariant *)

\* What a behaviour starts with, of either format.
LEMMA StoreInit == Init => StoreInv
<1> SUFFICES ASSUME Init PROVE StoreInv
  OBVIOUS
<1>1. /\ scope \in Scopes /\ sessionFile \in Files /\ present = old /\ fileEntries = <<Header>>
      /\ leafId = 0 /\ labelsById = {} /\ unmarked = {} /\ flushed = FALSE
      /\ alive = FALSE /\ openTail = {}
      /\ pending = <<>> /\ failed = {} /\ faults = 0
  BY DEF Init, Null
<1>2. faults \in 0..scope.faults
  BY <1>1, SMAssumption
<1>3. LabelsAreCurrent /\ WritingLabel
  BY <1>1, LabelsNow, NoLabels DEF WritingLabel
<1>4. ASSUME log \in Seq(Entry), disk \in [Files -> Seq(-1..Len(log))], old \subseteq Files
       PROVE  TypeOK
  <2>1. Len(log) \in Nat
    BY <1>4
  <2>2. <<Header>> \in Seq(0..Len(log)) /\ <<>> \in Seq(0..Len(log)) /\ 0 \in 0..Len(log)
    BY <2>1 DEF Header
  <2>3. fileEntries \in Seq(0..Len(log)) /\ pending \in Seq(0..Len(log)) /\ leafId \in 0..Len(log)
    BY <1>1, <2>2
  <2>4. labelsById \subseteq 1..Len(log) /\ unmarked \subseteq 1..Len(log) /\ failed \subseteq 0..Len(log) /\ openTail \subseteq present
    BY <1>1
  <2>5. present \subseteq Files /\ old \subseteq present /\ flushed \in BOOLEAN /\ alive \in BOOLEAN
    BY <1>1, <1>4
  <2> QED
    BY <1>1, <1>2, <1>4, <2>3, <2>4, <2>5 DEF TypeOK
<1>5. CASE /\ log = <<>>
           /\ disk = [f \in Files |-> <<>>]
           /\ old = {}
  <2>1. log \in Seq(Entry) /\ Len(log) = 0 /\ DOMAIN log = {} /\ disk \in [Files -> Seq(-1..0)]
    BY <1>5
  <2>3. TypeOK
    <3>1. disk \in [Files -> Seq(-1..Len(log))] /\ old \subseteq Files
      BY <1>5, <2>1
    <3> QED
      BY <1>4, <2>1, <3>1
  <2> QED
    BY <1>1, <1>3, <1>5, <2>1, <2>3 DEF StoreInv, TreeInv, OldFilesInv
<1>6. CASE /\ \E index \in 1..2 :
                log = <<OldEntry("user", Null), OldEntry("assistant", Null),
                        OldEntry("compaction", index)>>
           /\ disk = [f \in Files |-> IF f = sessionFile THEN <<Header, 1, 2, 3>> ELSE <<>>]
           /\ old = {sessionFile}
  <2>1. PICK index \in 1..2 :
          log = <<OldEntry("user", Null), OldEntry("assistant", Null), OldEntry("compaction", index)>>
    BY <1>6
  <2>2. ASSUME NEW kind \in {"user", "assistant", "compaction"}, NEW k \in Nat
        PROVE  /\ OldEntry(kind, k) \in Entry /\ OldEntry(kind, k).kind = kind
               /\ OldEntry(kind, k).parent = 0 /\ OldEntry(kind, k).ref = k
    BY DEF OldEntry, Entry, AllKinds, Null
  <2>3. /\ log \in Seq(Entry) /\ Len(log) = 3 /\ DOMAIN log = 1..3
        /\ log[1] = OldEntry("user", Null) /\ log[2] = OldEntry("assistant", Null)
        /\ log[3] = OldEntry("compaction", index)
    <3>1. OldEntry("user", Null) \in Entry /\ OldEntry("assistant", Null) \in Entry
      BY <2>2 DEF Null
    <3>2. OldEntry("compaction", index) \in Entry
      BY <2>2
    <3> QED
      BY <2>1, <3>1, <3>2
  <2>4. /\ log[1].kind = "user" /\ log[2].kind = "assistant" /\ log[3].kind = "compaction"
        /\ log[1].parent = 0 /\ log[2].parent = 0 /\ log[3].parent = 0 /\ log[3].ref \in 1..2
    <3>1. log[1].kind = "user" /\ log[1].parent = 0
      BY <2>2, <2>3 DEF Null
    <3>2. log[2].kind = "assistant" /\ log[2].parent = 0
      BY <2>2, <2>3 DEF Null
    <3>3. log[3].kind = "compaction" /\ log[3].parent = 0 /\ log[3].ref = index
      BY <2>2, <2>3
    <3> QED
      BY <3>1, <3>2, <3>3
  <2>5. \A i \in 1..3 : i = 1 \/ i = 2 \/ i = 3
    OBVIOUS
  <2>6. TreeInv
    <3>1. ASSUME NEW i \in DOMAIN log PROVE log[i].parent < i /\ log[i].kind # "label"
      <4>1. (i = 1 \/ i = 2 \/ i = 3) /\ 0 < i
        BY <2>3, <2>5
      <4> QED
        BY <2>4, <4>1
    <3> QED
      BY <3>1 DEF TreeInv, IsKind
  <2>7. <<Header, 1, 2, 3>> \in Seq(-1..3) /\ <<>> \in Seq(-1..3)
    BY DEF Header
  <2>8. disk \in [Files -> Seq(-1..3)] /\ disk[sessionFile] = <<Header, 1, 2, 3>>
        /\ \A f \in Files \ old : disk[f] = <<>>
    BY <1>1, <1>6, <2>7
  <2>9. TypeOK
    <3>1. disk \in [Files -> Seq(-1..Len(log))] /\ old \subseteq Files
      BY <1>1, <1>6, <2>3, <2>8
    <3> QED
      BY <1>4, <2>3, <3>1
  <2>10. OldFilesInv
    <3>1. {1, 2, 3} \subseteq DOMAIN log
      BY <2>3
    <3> QED
      BY <1>1, <1>6, <2>4, <2>8, <3>1 DEF OldFilesInv, IsKind
  <2> QED
    BY <1>1, <1>3, <2>6, <2>8, <2>9, <2>10 DEF StoreInv
<1> QED
  BY <1>5, <1>6 DEF Init

\* A step that changes nothing.
LEMMA StoreStutters ==
  ASSUME StoreInv, UNCHANGED vars
  PROVE  StoreInv'
<1>1. /\ UNCHANGED <<log, fileEntries, labelsById, unmarked, flushed, sessionFile, alive,
                     files, pending, old, bounds>>
      /\ leafId' = leafId
  BY DEF vars, memory
<1>2. leafId \in 0..Len(log)
  BY MemoryTypes
<1> QED
  BY <1>1, <1>2, LeafKeeps

\* StoreInv is inductive.
LEMMA StoreStep == StoreInv /\ [Next]_vars => StoreInv'
<1> SUFFICES ASSUME StoreInv, [Next]_vars PROVE StoreInv'
  OBVIOUS
<1>1. ASSUME NEW kind \in AllKinds, AppendMessage(kind) PROVE StoreInv'
  BY <1>1, AppendMessageKeeps
<1>2. ASSUME NEW id \in 1..Len(log), AppendCompaction(id) PROVE StoreInv'
  BY <1>2, AppendCompactionKeeps
<1>3. ASSUME NEW id \in 1..Len(log), NEW on \in BOOLEAN, AppendLabelChange(id, on) PROVE StoreInv'
  BY <1>3, AppendLabelChangeKeeps
<1>4. ASSUME ResetLeaf \/ \E id \in 1..Len(log) : BranchTo(id) PROVE StoreInv'
  BY <1>4, LeafMovesKeep
<1>5. ASSUME NEW id \in 0..Len(log), BranchWithSummary(id) PROVE StoreInv'
  BY <1>5, BranchWithSummaryKeeps
<1>6. ASSUME NEW id \in 1..Len(log), CreateBranchedSession(id) PROVE StoreInv'
  BY <1>6, CreateBranchedSessionKeeps
<1>7. ASSUME NewSession PROVE StoreInv'
  BY <1>7, NewSessionKeeps
<1>8. ASSUME NEW f \in Files, SetSessionFile(f) \/ ForkFrom(f) \/ TouchFile(f) PROVE StoreInv'
  BY <1>8, SetSessionFileKeeps, ForkFromKeeps, TouchFileKeeps
<1>9. ASSUME WriteLine \/ WriteFails \/ Crash PROVE StoreInv'
  BY <1>9, WriteLineKeeps, WriteFailsKeeps, CrashKeeps
<1>10. CASE UNCHANGED vars
  BY <1>10, StoreStutters
<1> QED
  BY <1>1, <1>2, <1>3, <1>4, <1>5, <1>6, <1>7, <1>8, <1>9, <1>10 DEF Next

\* StoreInv holds in every state of the store: whatever is appended, labelled,
\* branched, forked, opened or migrated, and wherever a write fails or the process
\* dies (core/session-manager.ts).
THEOREM StoreInvariant == Spec => []StoreInv
<1> QED
  BY StoreInit, StoreStep, PTL DEF Spec

\* The class fields, the files and the write in progress keep their types: a list
\* of entries, the leaf, the labels and every line of every file that is not
\* garbage name entries that were created.
THEOREM StoreTypeCorrect == Spec => []TypeOK
<1>1. StoreInv => TypeOK
  BY DEF StoreInv
<1> QED
  BY <1>1, StoreInvariant, PTL

\* The labels that are kept in memory, changed in place by appendLabelChange,
\* rebuilt by _buildIndex and chosen by createBranchedSession, are in every state
\* those the entries of the session give.
THEOREM LabelsStayCurrent == Spec => []LabelsAreCurrent
<1>1. StoreInv => LabelsAreCurrent
  BY DEF StoreInv
<1> QED
  BY <1>1, StoreInvariant, PTL

-----------------------------------------------------------------------------
(* What a step may not do *)

\* What a step does to one file: nothing, a line more, or something to a file with
\* a torn line, without a header, or of the old format.
FileGrows(f) ==
  \/ disk'[f] = disk[f]
  \/ \E x : disk'[f] = Append(disk[f], x)
  \/ f \in openTail \/ f \in old \/ Loaded(f) = <<>>

LEMMA InterruptedGrows ==
  ASSUME StoreInv, Interrupted, NEW f \in Files
  PROVE  FileGrows(f)
<1>1. sessionFile \in Files /\ disk \in [Files -> Seq(-1..Len(log))]
  BY DEF StoreInv, TypeOK
<1>2. CASE UNCHANGED files
  BY <1>2 DEF files, FileGrows
<1>3. CASE \E x : disk' = [disk EXCEPT ![sessionFile] = Append(@, x)]
  <2>1. PICK x : disk' = [disk EXCEPT ![sessionFile] = Append(@, x)]
    BY <1>3
  <2>2. disk'[f] = disk[f] \/ disk'[f] = Append(disk[f], x)
    BY <1>1, <2>1
  <2> QED
    BY <2>2 DEF FileGrows
<1> QED
  BY <1>2, <1>3 DEF Interrupted

LEMMA WriteLineGrows ==
  ASSUME StoreInv, WriteLine, NEW f \in Files
  PROVE  FileGrows(f)
<1>1. sessionFile \in Files /\ disk \in [Files -> Seq(-1..Len(log))]
  BY DEF StoreInv, TypeOK
<1>2. disk' = [disk EXCEPT ![sessionFile] =
                 IF sessionFile \in openTail
                 THEN Append(Front(disk[sessionFile]), Garbage)
                 ELSE Append(disk[sessionFile], Head(pending))]
  BY DEF WriteLine
<1>3. CASE f # sessionFile
  <2>1. disk'[f] = disk[f]
    BY <1>1, <1>2, <1>3
  <2> QED
    BY <2>1 DEF FileGrows
<1>4. CASE f = sessionFile /\ f \notin openTail
  <2>1. disk'[f] = Append(disk[f], Head(pending))
    BY <1>1, <1>2, <1>4
  <2> QED
    BY <2>1 DEF FileGrows
<1> QED
  BY <1>3, <1>4 DEF FileGrows

LEMMA SetSessionFileGrows ==
  ASSUME StoreInv, NEW g \in Files, SetSessionFile(g), NEW f \in Files
  PROVE  FileGrows(f)
<1>1. disk \in [Files -> Seq(-1..Len(log))]
  BY DEF StoreInv, TypeOK
<1>2. UNCHANGED files \/ (Truncate(g) /\ (g \in old \/ Loaded(g) = <<>>))
  BY DEF SetSessionFile
<1>3. CASE UNCHANGED files
  BY <1>3 DEF files, FileGrows
<1>4. CASE Truncate(g) /\ (g \in old \/ Loaded(g) = <<>>)
  <2>1. disk' = [disk EXCEPT ![g] = <<>>]
    BY <1>4 DEF Truncate
  <2>2. CASE f # g
    <3>1. disk'[f] = disk[f]
      BY <1>1, <2>1, <2>2
    <3> QED
      BY <3>1 DEF FileGrows
  <2>3. CASE f = g
    BY <1>4, <2>3 DEF FileGrows
  <2> QED
    BY <2>2, <2>3
<1> QED
  BY <1>2, <1>3, <1>4

\* Every other step writes to no file.
LEMMA FilesGrow ==
  ASSUME StoreInv, [Next]_vars, NEW f \in Files
  PROVE  FileGrows(f)
<1>1. disk' = disk => FileGrows(f)
  BY DEF FileGrows
<1>2. UNCHANGED files => disk' = disk
  BY DEF files
<1>3. ASSUME NEW kind \in AllKinds, AppendMessage(kind) PROVE FileGrows(f)
  BY <1>1, <1>2, <1>3 DEF AppendMessage
<1>4. ASSUME NEW id \in 1..Len(log), AppendCompaction(id) PROVE FileGrows(f)
  BY <1>1, <1>2, <1>4 DEF AppendCompaction
<1>5. ASSUME NEW id \in 1..Len(log), NEW on \in BOOLEAN, AppendLabelChange(id, on) PROVE FileGrows(f)
  BY <1>1, <1>2, <1>5 DEF AppendLabelChange
<1>6. ASSUME ResetLeaf \/ \E id \in 1..Len(log) : BranchTo(id) PROVE FileGrows(f)
  BY <1>1, <1>2, <1>6 DEF ResetLeaf, BranchTo
<1>7. ASSUME NEW id \in 0..Len(log), BranchWithSummary(id) PROVE FileGrows(f)
  BY <1>1, <1>2, <1>7 DEF BranchWithSummary
<1>8. ASSUME NEW id \in 1..Len(log), CreateBranchedSession(id) PROVE FileGrows(f)
  <2>1. sessionFile' \in FreshFiles /\ (Truncate(sessionFile') \/ UNCHANGED files)
    BY <1>8, ForkStep
  <2>2. disk' = disk
    BY <1>2, <2>1, Created
  <2> QED
    BY <1>1, <2>2
<1>9. ASSUME NewSession PROVE FileGrows(f)
  BY <1>1, <1>2, <1>9 DEF NewSession
<1>10. ASSUME NEW g \in Files, SetSessionFile(g) PROVE FileGrows(f)
  BY <1>10, SetSessionFileGrows
<1>11. ASSUME NEW g \in Files, ForkFrom(g) PROVE FileGrows(f)
  BY <1>1, <1>2, <1>11 DEF ForkFrom
<1>12. ASSUME NEW g \in Files, TouchFile(g) PROVE FileGrows(f)
  BY <1>1, <1>12 DEF TouchFile
<1>13. ASSUME WriteLine PROVE FileGrows(f)
  BY <1>13, WriteLineGrows
<1>14. ASSUME WriteFails \/ Crash PROVE FileGrows(f)
  BY <1>14, InterruptedGrows DEF WriteFails, Crash
<1>15. CASE UNCHANGED vars
  BY <1>1, <1>2, <1>15 DEF vars
<1> QED
  BY <1>3, <1>4, <1>5, <1>6, <1>7, <1>8, <1>9, <1>10, <1>11, <1>12, <1>13, <1>14, <1>15 DEF Next

LEMMA PrefixOfAppend ==
  ASSUME NEW s \in Seq(Int), NEW t, t = s \/ \E x : t = Append(s, x)
  PROVE  IsPrefix(s, t)
<1>1. CASE t = s
  BY <1>1 DEF IsPrefix
<1>2. CASE \E x : t = Append(s, x)
  <2>1. PICK x : t = Append(s, x)
    BY <1>2
  <2>2. Len(t) = Len(s) + 1 /\ Len(s) \in Nat /\ \A i \in 1..Len(s) : t[i] = s[i]
    BY <2>1
  <2> QED
    BY <2>2 DEF IsPrefix
<1> QED
  BY <1>1, <1>2

\* No step changes or removes a line of a session file that is whole, has its
\* header and is in the current format: appendFileSync is all that happens to it,
\* whatever is branched, compacted, forked, opened or migrated.
THEOREM FilesAppendOnly == Spec => AppendOnly
<1>1. ASSUME StoreInv, [Next]_vars, NEW f \in Files, ~Torn(f), f \notin old, Loaded(f) # <<>>
      PROVE  IsPrefix(disk[f], disk'[f])
  <2>1. disk[f] \in Seq(Int)
    BY <1>1 DEF StoreInv, TypeOK
  <2>2. disk'[f] = disk[f] \/ \E x : disk'[f] = Append(disk[f], x)
    BY <1>1, FilesGrow DEF FileGrows, Torn
  <2> QED
    BY <2>1, <2>2, PrefixOfAppend
<1>2. StoreInv /\ [Next]_vars =>
        [\A f \in Files :
           ~Torn(f) /\ f \notin old /\ Loaded(f) # <<>> => IsPrefix(disk[f], disk'[f])]_vars
  BY <1>1
<1> QED
  BY <1>2, StoreInvariant, PTL DEF Spec, AppendOnly

\* The items of two lists put together.
LEMMA JoinedSet ==
  ASSUME NEW A, NEW s \in Seq(A), NEW t \in Seq(A)
  PROVE  ToSet(s \o t) \subseteq ToSet(s) \union ToSet(t)
<1> DEFINE st == s \o t
<1>1. /\ st \in Seq(A) /\ Len(st) = Len(s) + Len(t)
      /\ \A i \in 1..Len(s) + Len(t) : st[i] = IF i <= Len(s) THEN s[i] ELSE t[i - Len(s)]
  BY ConcatProperties
<1>2. Len(s) \in Nat /\ Len(t) \in Nat /\ DOMAIN s = 1..Len(s) /\ DOMAIN t = 1..Len(t)
  OBVIOUS
<1> HIDE DEF st
<1>3. DOMAIN st = 1..Len(s) + Len(t)
  BY <1>1
<1>4. ASSUME NEW i \in DOMAIN st PROVE st[i] \in ToSet(s) \union ToSet(t)
  <2>1. CASE i <= Len(s)
    <3>1. i \in 1..Len(s) /\ st[i] = s[i]
      BY <1>1, <1>2, <1>3, <2>1
    <3> QED
      BY <1>2, <3>1 DEF ToSet
  <2>2. CASE ~(i <= Len(s))
    <3>1. i - Len(s) \in 1..Len(t) /\ st[i] = t[i - Len(s)]
      BY <1>1, <1>2, <1>3, <2>2
    <3> QED
      BY <1>2, <3>1 DEF ToSet
  <2> QED
    BY <2>1, <2>2
<1>5. ToSet(st) \subseteq ToSet(s) \union ToSet(t)
  BY <1>4 DEF ToSet
<1> QED
  BY <1>5 DEF st

\* What a fork holds of the session it leaves is the path.
LEMMA ForkHolds ==
  ASSUME StoreInv, NEW id \in 0..Len(log), NEW t \in ToSet(ForkEntries(id)), t \in 1..Len(log)
  PROVE  t \in ToSet(ForkPath(id))
<1> DEFINE n == Len(log)
           path == ForkPath(id)
           ids == [k \in 1..Len(ForkKept(id)) |-> n + k]
<1>1. n \in Nat /\ path \in Seq(1..n) /\ Len(ForkKept(id)) \in Nat
  <2>1. n \in Nat
    BY MemoryTypes
  <2>2. path \in Seq(1..n)
    BY ForkPathIs
  <2>3. ForkKept(id) \in Seq(1..n)
    BY ForkKeptIs
  <2> QED
    BY <2>1, <2>2, <2>3
<1>2. path \in Seq(Nat)
  <2>1. 1..n \subseteq Nat
    BY <1>1
  <2> QED
    BY <1>1, <2>1, SeqMonotonic
<1>3. ids \in Seq(Nat) /\ \A x \in ToSet(ids) : x \notin 1..n
  <2>1. \A k \in 1..Len(ForkKept(id)) : n + k \in Nat /\ n + k \notin 1..n
    BY <1>1
  <2>2. ids \in Seq(Nat) /\ DOMAIN ids = 1..Len(ForkKept(id))
    BY <1>1, <2>1
  <2> QED
    BY <2>1, <2>2 DEF ToSet
<1>4. <<Header>> \in Seq(Nat) /\ \A x \in ToSet(<<Header>>) : x \notin 1..n
  <2>1. DOMAIN <<Header>> = {1} /\ <<Header>>[1] = 0
    BY DEF Header
  <2> QED
    BY <2>1 DEF ToSet, Header
<1>5. ForkEntries(id) = <<Header>> \o path \o ids
  BY DEF ForkEntries
<1> HIDE DEF path, ids
<1> DEFINE head == <<Header>>
<1>6. head \o path \in Seq(Nat) /\ ToSet(head \o path) \subseteq ToSet(head) \union ToSet(path)
  <2>1. head \in Seq(Nat)
    BY <1>4
  <2> HIDE DEF head
  <2>2. head \o path \in Seq(Nat)
    BY <1>2, <2>1
  <2>3. ToSet(head \o path) \subseteq ToSet(head) \union ToSet(path)
    BY <1>2, <2>1, JoinedSet
  <2> QED
    BY <2>2, <2>3
<1>7. ToSet(<<Header>> \o path \o ids) \subseteq ToSet(<<Header>> \o path) \union ToSet(ids)
  BY <1>3, <1>6, JoinedSet
<1>8. t \in ToSet(path)
  BY <1>3, <1>4, <1>5, <1>6, <1>7
<1> QED
  BY <1>8 DEF path

-----------------------------------------------------------------------------
(* The steps, by what they do to the session and to the files *)

EntryAdded(e) ==
  /\ Idle /\ AppendEntry(e) /\ e \in Entry
  /\ e.parent \in Ids(fileEntries) \union {leafId, Null}
  /\ e.kind = "compaction" =>
       e.parent = leafId /\ e.ref \in ToSet(Branch(Ids(fileEntries), leafId))
  /\ UNCHANGED <<sessionFile, alive, files, old, bounds>>

LeafMoved ==
  /\ leafId' \in Ids(fileEntries) \union {leafId, Null}
  /\ UNCHANGED <<log, fileEntries, labelsById, unmarked, flushed, sessionFile, alive>>
  /\ UNCHANGED <<files, pending, old, bounds>>

Started ==
  /\ pending = <<>> /\ Fresh /\ alive' = TRUE
  /\ sessionFile' \in Files /\ sessionFile' \notin present
  /\ UNCHANGED <<log, files, pending, old, bounds>>

Emptied(f) ==
  /\ pending = <<>> /\ f \in present /\ Loaded(f) = <<>> /\ Fresh /\ Truncate(f)
  /\ sessionFile' = f /\ pending' = <<Header>>
  /\ UNCHANGED <<log, alive, old, bounds>>

Opened(f) ==
  /\ pending = <<>> /\ f \in present /\ f \notin old /\ Loaded(f) # <<>>
  /\ fileEntries' = Loaded(f) /\ leafId' = LastId(fileEntries')
  /\ sessionFile' = f /\ flushed' = TRUE /\ alive' = TRUE
  /\ UNCHANGED <<log, files, pending, old, bounds>>

Converted(f) ==
  /\ pending = <<>> /\ f \in present /\ f \in old /\ alive' = FALSE
  /\ fileEntries' = <<Header, 1, 2, 3>> /\ leafId' = LastId(fileEntries')
  /\ sessionFile' = f /\ flushed' = FALSE /\ pending' = fileEntries'
  /\ log' = Migrated(Loaded(f)) /\ Truncate(f) /\ old' = old \ {f}
  /\ UNCHANGED bounds

Copied(src) ==
  /\ pending = <<>> /\ ~alive /\ Loaded(src) # <<>> /\ src \notin old
  /\ fileEntries' = <<Header>> \o Only(Loaded(src), Ids(Loaded(src)))
  /\ leafId' = LastId(fileEntries') /\ pending' = fileEntries'
  /\ sessionFile' \in Files /\ sessionFile' \notin present /\ flushed' = FALSE
  /\ UNCHANGED <<log, files, alive, old, bounds>>

StepKind ==
  \/ \E e : EntryAdded(e)
  \/ LeafMoved
  \/ \E id \in 1..Len(log) : CreateBranchedSession(id)
  \/ Started
  \/ \E f \in Files : Emptied(f) \/ Opened(f) \/ Converted(f) \/ Copied(f) \/ TouchFile(f)
  \/ WriteLine
  \/ WriteFails
  \/ Crash

LEMMA AppendsAreAdditions ==
  ASSUME StoreInv
  PROVE  /\ \A kind \in AllKinds : AppendMessage(kind) => \E e : EntryAdded(e)
         /\ \A id \in 1..Len(log) : AppendCompaction(id) => \E e : EntryAdded(e)
         /\ \A id \in 1..Len(log), on \in BOOLEAN : AppendLabelChange(id, on) => \E e : EntryAdded(e)
         /\ \A id \in 0..Len(log) : BranchWithSummary(id) => \E e : EntryAdded(e)
<1>1. Len(log) \in Nat /\ leafId \in 0..Len(log) /\ 1..Len(log) \subseteq Nat /\ 0..Len(log) \subseteq Nat
  BY MemoryTypes
<1>2. ASSUME NEW kind \in AllKinds, NEW ref \in Nat, NEW on \in BOOLEAN
      PROVE  /\ NewEntry(kind, ref, on) \in Entry /\ NewEntry(kind, ref, on).parent = leafId
             /\ NewEntry(kind, ref, on).kind = kind /\ NewEntry(kind, ref, on).ref = ref
  BY <1>1 DEF NewEntry, Entry
<1>3. ASSUME NEW kind \in AllKinds, AppendMessage(kind) PROVE \E e : EntryAdded(e)
  <2> DEFINE e == NewEntry(kind, Null, FALSE)
  <2>1. e \in Entry /\ e.parent = leafId /\ e.kind = kind
    BY <1>2 DEF Null
  <2>2. kind # "compaction"
    BY <1>3 DEF AppendMessage
  <2>3. Idle /\ AppendEntry(e) /\ UNCHANGED <<sessionFile, alive, files, old, bounds>>
    BY <1>3 DEF AppendMessage
  <2> HIDE DEF e
  <2> QED
    BY <2>1, <2>2, <2>3 DEF EntryAdded
<1>4. ASSUME NEW id \in 1..Len(log), AppendCompaction(id) PROVE \E e : EntryAdded(e)
  <2> DEFINE e == NewEntry("compaction", id, FALSE)
  <2>1. e \in Entry /\ e.parent = leafId /\ e.ref = id
    BY <1>1, <1>2 DEF AllKinds
  <2>2. Idle /\ AppendEntry(e) /\ UNCHANGED <<sessionFile, alive, files, old, bounds>>
    BY <1>4 DEF AppendCompaction
  <2>3. id \in ToSet(Branch(Ids(fileEntries), leafId))
    BY <1>4 DEF AppendCompaction
  <2> HIDE DEF e
  <2> QED
    BY <2>1, <2>2, <2>3 DEF EntryAdded
<1>5. ASSUME NEW id \in 1..Len(log), NEW on \in BOOLEAN, AppendLabelChange(id, on)
      PROVE  \E e : EntryAdded(e)
  <2> DEFINE e == NewEntry("label", id, on)
  <2>1. e \in Entry /\ e.parent = leafId /\ e.kind # "compaction"
    BY <1>1, <1>2 DEF AllKinds
  <2>2. Idle /\ AppendEntry(e) /\ UNCHANGED <<sessionFile, alive, files, old, bounds>>
    BY <1>5 DEF AppendLabelChange
  <2> HIDE DEF e
  <2> QED
    BY <2>1, <2>2 DEF EntryAdded
<1>6. ASSUME NEW id \in 0..Len(log), BranchWithSummary(id) PROVE \E e : EntryAdded(e)
  <2> DEFINE e == [kind |-> "branch_summary", parent |-> id, ref |-> id, on |-> FALSE]
  <2>1. e \in Entry /\ e.parent = id /\ e.kind # "compaction"
    BY <1>1 DEF AllKinds, Entry
  <2>2. Idle /\ AppendEntry(e) /\ UNCHANGED <<sessionFile, alive, files, old, bounds>>
    BY <1>6 DEF BranchWithSummary
  <2>3. id \in Ids(fileEntries) \union {Null}
    BY <1>6 DEF BranchWithSummary
  <2> HIDE DEF e
  <2> QED
    BY <2>1, <2>2, <2>3 DEF EntryAdded
<1> QED
  BY <1>3, <1>4, <1>5, <1>6

LEMMA OpeningsAre ==
  ASSUME StoreInv, NEW f \in Files
  PROVE  /\ SetSessionFile(f) => Started \/ Emptied(f) \/ Opened(f) \/ Converted(f)
         /\ ForkFrom(f) => Copied(f)
<1>1. ASSUME SetSessionFile(f) PROVE Started \/ Emptied(f) \/ Opened(f) \/ Converted(f)
  <2>0. pending = <<>> /\ sessionFile' = f /\ UNCHANGED bounds
    BY <1>1 DEF SetSessionFile
  <2>1. CASE f \notin present /\ Fresh /\ alive' = TRUE /\ UNCHANGED <<log, files, pending, old>>
    BY <2>0, <2>1 DEF Started
  <2>2. CASE f \in present /\ Loaded(f) = <<>> /\ Fresh /\ Truncate(f) /\ pending' = <<Header>>
             /\ UNCHANGED <<log, alive, old>>
    BY <2>0, <2>2 DEF Emptied
  <2>3. CASE f \in present \ old /\ Loaded(f) # <<>> /\ Indexed(Loaded(f)) /\ flushed' = TRUE
             /\ alive' = TRUE /\ UNCHANGED <<log, files, pending, old>>
    <3>1. fileEntries' = Loaded(f) /\ leafId' = LastId(fileEntries')
      BY <2>3 DEF Indexed
    <3> QED
      BY <2>0, <2>3, <3>1 DEF Opened
  <2>4. CASE f \in present \intersect old /\ Indexed(Loaded(f)) /\ log' = Migrated(Loaded(f))
             /\ Truncate(f) /\ pending' = Loaded(f) /\ old' = old \ {f} /\ flushed' = FALSE
             /\ alive' = FALSE
    <3>1. Loaded(f) = <<Header, 1, 2, 3>>
      BY <2>4, OldLoaded
    <3>2. fileEntries' = <<Header, 1, 2, 3>> /\ leafId' = LastId(fileEntries') /\ pending' = fileEntries'
      BY <2>4, <3>1 DEF Indexed
    <3> QED
      BY <2>0, <2>4, <3>2 DEF Converted
  <2> QED
    BY <1>1, <2>1, <2>2, <2>3, <2>4 DEF SetSessionFile
<1>2. ASSUME ForkFrom(f) PROVE Copied(f)
  <2>1. sessionFile' \in Files /\ sessionFile' \notin present
    BY <1>2 DEF ForkFrom, FreshFiles
  <2> DEFINE s == <<Header>> \o Only(Loaded(f), Ids(Loaded(f)))
  <2>2. Indexed(s) /\ pending' = s
    BY <1>2 DEF ForkFrom
  <2>3. fileEntries' = s /\ leafId' = LastId(fileEntries') /\ pending' = fileEntries'
    BY <2>2 DEF Indexed
  <2>4. /\ ~alive /\ pending = <<>> /\ Loaded(f) # <<>> /\ f \notin old /\ flushed' = FALSE
        /\ UNCHANGED <<log, files, alive, old, bounds>>
    BY <1>2 DEF ForkFrom
  <2> QED
    BY <2>1, <2>3, <2>4 DEF Copied
<1> QED
  BY <1>1, <1>2

LEMMA Steps == StoreInv /\ [Next]_vars => StepKind
<1> SUFFICES ASSUME StoreInv, [Next]_vars PROVE StepKind
  OBVIOUS
<1>1. ASSUME \/ \E kind \in AllKinds : AppendMessage(kind)
             \/ \E id \in 1..Len(log) : AppendCompaction(id)
             \/ \E id \in 1..Len(log), on \in BOOLEAN : AppendLabelChange(id, on)
             \/ \E id \in 0..Len(log) : BranchWithSummary(id)
      PROVE  StepKind
  BY <1>1, AppendsAreAdditions DEF StepKind
<1>2. ASSUME ResetLeaf \/ UNCHANGED vars \/ \E id \in 1..Len(log) : BranchTo(id)
      PROVE  StepKind
  <2>1. LeafMoved
    <3>1. CASE ResetLeaf
      BY <3>1 DEF ResetLeaf, LeafMoved
    <3>2. CASE UNCHANGED vars
      BY <3>2 DEF vars, memory, LeafMoved
    <3>3. ASSUME NEW id \in 1..Len(log), BranchTo(id) PROVE LeafMoved
      BY <3>3 DEF BranchTo, LeafMoved
    <3> QED
      BY <1>2, <3>1, <3>2, <3>3
  <2> QED
    BY <2>1 DEF StepKind
<1>3. ASSUME NewSession PROVE StepKind
  <2>1. Started
    BY <1>3 DEF NewSession, Started, FreshFiles
  <2> QED
    BY <2>1 DEF StepKind
<1>4. ASSUME NEW f \in Files, SetSessionFile(f) \/ ForkFrom(f) \/ TouchFile(f) PROVE StepKind
  BY <1>4, OpeningsAre DEF StepKind
<1>5. ASSUME WriteLine \/ WriteFails \/ Crash \/ \E id \in 1..Len(log) : CreateBranchedSession(id)
      PROVE  StepKind
  BY <1>5 DEF StepKind
<1> QED
  BY <1>1, <1>2, <1>3, <1>4, <1>5 DEF Next

-----------------------------------------------------------------------------
(* No line twice *)

AssistantIn(tree, s) == \E id \in Ids(s) : tree[id].kind = "assistant"

LEMMA AssistantIs == \A s : HasAssistant(s) <=> AssistantIn(log, s)
  BY DEF HasAssistant, AssistantIn, IsKind

\* A list of entries that a session may have: a header, and nothing twice.
Whole(s) == Len(s) > 0 /\ s[1] = Header /\ Once(s) /\ \A i \in 1..Len(s) : s[i] # Garbage

\* What makes NoDuplicateLines inductive: the file of a session is what has been
\* written of it so far, and nothing before the first assistant message.
Clean ==
  /\ openTail = {}
  /\ Whole(fileEntries)
  /\ pending # <<>> => disk[sessionFile] \o pending = fileEntries /\ AssistantIn(log, fileEntries)
  /\ pending = <<>> /\ flushed => disk[sessionFile] = fileEntries /\ AssistantIn(log, fileEntries)
  /\ pending = <<>> /\ alive /\ ~flushed => sessionFile \notin present
  /\ \A f \in present : pending = <<>> \/ f # sessionFile => Whole(disk[f]) /\ AssistantIn(log, disk[f])

CleanInv == faults = 0 /\ ~scope.touch => Clean

\* What a new entry does to the list of entries.
LEMMA EntryAddedIs ==
  ASSUME StoreInv, NEW e, EntryAdded(e)
  PROVE  /\ log' = Append(log, e) /\ log' \in Seq(Entry) /\ Len(log') = Len(log) + 1
         /\ log'[Len(log) + 1] = e /\ \A i \in 1..Len(log) : log'[i] = log[i]
         /\ fileEntries' = Append(fileEntries, Len(log) + 1)
         /\ leafId' = Len(log) + 1
         /\ \/ ~AssistantIn(log', fileEntries') /\ flushed' = FALSE /\ pending' = <<>>
            \/ AssistantIn(log', fileEntries') /\ flushed' = flushed
               /\ pending' = IF flushed THEN <<Len(log) + 1>> ELSE fileEntries'
         /\ alive /\ pending = <<>>
         /\ sessionFile' = sessionFile /\ alive' = alive /\ disk' = disk /\ present' = present
         /\ openTail' = openTail /\ old' = old
         /\ scope' = scope /\ failed' = failed /\ faults' = faults
<1> DEFINE n == Len(log)
<1>1. log \in Seq(Entry) /\ n \in Nat /\ fileEntries \in Seq(0..n)
  BY MemoryTypes
<1>2. /\ log' = Append(log, e) /\ fileEntries' = Append(fileEntries, n + 1) /\ leafId' = n + 1
      /\ PersistPending(fileEntries', n + 1) /\ e \in Entry
  BY DEF EntryAdded, AppendEntry
<1>3. /\ log' \in Seq(Entry) /\ Len(log') = n + 1 /\ log'[n + 1] = e
      /\ \A i \in 1..n : log'[i] = log[i]
  BY <1>1, <1>2, AppendProperties
<1>4. fileEntries' \in Seq(Nat)
  <2>1. fileEntries \in Seq(Nat) /\ n + 1 \in Nat
    <3>1. 0..n \subseteq Nat
      BY <1>1
    <3> QED
      BY <1>1, <3>1, SeqMonotonic
  <2> QED
    BY <1>2, <2>1
<1>5. AssistantIn(log', fileEntries') <=>
        \E k \in DOMAIN fileEntries' : fileEntries'[k] # Header /\ log'[fileEntries'[k]].kind = "assistant"
  <2>1. \A k \in DOMAIN fileEntries' : fileEntries'[k] # Garbage
    BY <1>4 DEF Garbage
  <2>2. \A x : x \in Ids(fileEntries') <=> \E k \in DOMAIN fileEntries' : fileEntries'[k] # Header /\ x = fileEntries'[k]
    BY <2>1 DEF Ids, ToSet
  <2> QED
    BY <2>2 DEF AssistantIn
<1>6. alive /\ pending = <<>>
  BY DEF EntryAdded, Idle
<1>7. \/ ~AssistantIn(log', fileEntries') /\ flushed' = FALSE /\ pending' = pending
      \/ AssistantIn(log', fileEntries') /\ flushed' = flushed
         /\ pending' = IF flushed THEN <<n + 1>> ELSE fileEntries'
  BY <1>2, <1>5 DEF PersistPending
<1>8. /\ sessionFile' = sessionFile /\ alive' = alive /\ disk' = disk /\ present' = present
      /\ openTail' = openTail /\ old' = old
      /\ scope' = scope /\ failed' = failed /\ faults' = faults
  BY DEF EntryAdded, files, bounds
<1> QED
  BY <1>2, <1>3, <1>6, <1>7, <1>8

\* The entries of a list of a longer log are those it had.
LEMMA AssistantStays ==
  ASSUME NEW n \in Nat, NEW tree, NEW more, \A i \in 1..n : more[i].kind = tree[i].kind,
         NEW s \in Seq(-1..n)
  PROVE  AssistantIn(more, s) <=> AssistantIn(tree, s)
<1>1. Ids(s) \subseteq 1..n
  <2>1. \A i \in DOMAIN s : s[i] \in -1..n
    BY ElementOfSeq
  <2> QED
    BY <2>1 DEF Ids, ToSet, Header, Garbage
<1> QED
  BY <1>1 DEF AssistantIn

LEMMA MoreAssistants ==
  ASSUME NEW tree, NEW s, NEW t, Ids(s) \subseteq Ids(t), AssistantIn(tree, s)
  PROVE  AssistantIn(tree, t)
  BY DEF AssistantIn

\* A list of entries with one more.
LEMMA WholeAppend ==
  ASSUME NEW n \in Nat, NEW s \in Seq(0..n), Whole(s)
  PROVE  Whole(Append(s, n + 1)) /\ Ids(s) \subseteq Ids(Append(s, n + 1))
<1> DEFINE t == Append(s, n + 1)
<1>1. /\ s \in Seq(Nat) /\ Len(s) \in Nat /\ DOMAIN s = 1..Len(s)
      /\ \A i \in 1..Len(s) : s[i] \in 0..n
  <2>1. 0..n \subseteq Nat
    OBVIOUS
  <2>2. s \in Seq(Nat)
    BY <2>1, SeqMonotonic
  <2>3. \A i \in 1..Len(s) : s[i] \in 0..n
    BY ElementOfSeq
  <2> QED
    BY <2>2, <2>3
<1>2. /\ t \in Seq(Nat) /\ Len(t) = Len(s) + 1 /\ t[Len(s) + 1] = n + 1
      /\ \A i \in 1..Len(s) : t[i] = s[i]
  BY <1>1, AppendProperties
<1> HIDE DEF t
<1>3. /\ Len(s) > 0 /\ s[1] = Header /\ \A i, j \in 1..Len(s) : s[i] = s[j] => i = j
  BY DEF Whole, Once
<1>4. Len(t) > 0 /\ t[1] = Header
  BY <1>1, <1>2, <1>3
<1>5. \A i \in 1..Len(t) : t[i] # Garbage
  BY <1>2 DEF Garbage
<1>6. \A j \in 1..Len(t) : j \in 1..Len(s) \/ j = Len(s) + 1
  BY <1>1, <1>2
<1>7. ASSUME NEW i \in 1..Len(t), NEW j \in 1..Len(t), t[i] = t[j] PROVE i = j
  <2>1. \A k \in 1..Len(s) : s[k] # n + 1
    BY <1>1
  <2>2. CASE i \in 1..Len(s) /\ j \in 1..Len(s)
    BY <1>2, <1>3, <1>7, <2>2
  <2>3. CASE i \in 1..Len(s) /\ j = Len(s) + 1
    BY <1>2, <1>7, <2>1, <2>3
  <2>4. CASE i = Len(s) + 1 /\ j \in 1..Len(s)
    BY <1>2, <1>7, <2>1, <2>4
  <2> QED
    BY <1>6, <2>2, <2>3, <2>4
<1>8. Whole(t)
  BY <1>4, <1>5, <1>7 DEF Whole, Once
<1>9. Ids(s) \subseteq Ids(t)
  <2>1. \A i \in DOMAIN s : i \in DOMAIN t /\ t[i] = s[i]
    BY <1>1, <1>2
  <2> QED
    BY <2>1 DEF Ids, ToSet
<1> QED
  BY <1>8, <1>9 DEF t

LEMMA FileTypes ==
  ASSUME StoreInv, NEW f \in Files
  PROVE  /\ disk[f] \in Seq(-1..Len(log)) /\ disk[f] \in Seq(Int)
         /\ f \notin present => disk[f] = <<>>
<1>1. disk \in [Files -> Seq(-1..Len(log))] /\ Len(log) \in Nat
  BY DEF StoreInv, TypeOK
<1>2. -1..Len(log) \subseteq Int
  BY <1>1
<1>3. disk[f] \in Seq(-1..Len(log))
  BY <1>1
<1>4. disk[f] \in Seq(Int)
  BY <1>2, <1>3, SeqMonotonic
<1> QED
  BY <1>3, <1>4 DEF StoreInv

LEMMA PresentTypes ==
  ASSUME StoreInv
  PROVE  present \subseteq Files /\ openTail \subseteq present /\ old \subseteq present
  BY DEF StoreInv, TypeOK

\* The entries of a list are entries.
LEMMA MemoryList ==
  ASSUME StoreInv
  PROVE  fileEntries \in Seq(-1..Len(log)) /\ fileEntries \in Seq(Int) /\ pending \in Seq(Int)
<1>1. Len(log) \in Nat /\ fileEntries \in Seq(0..Len(log)) /\ pending \in Seq(0..Len(log))
  BY MemoryTypes
<1>2. 0..Len(log) \subseteq -1..Len(log) /\ 0..Len(log) \subseteq Int
  BY <1>1
<1> QED
  BY <1>1, <1>2, SeqMonotonic

LEMMA CleanAdded ==
  ASSUME StoreInv, Clean, NEW e, EntryAdded(e)
  PROVE  Clean'
<1> DEFINE n == Len(log)
<1>1. /\ log' \in Seq(Entry) /\ \A i \in 1..n : log'[i] = log[i]
      /\ fileEntries' = Append(fileEntries, n + 1)
      /\ alive /\ pending = <<>>
      /\ sessionFile' = sessionFile /\ alive' = alive /\ disk' = disk /\ present' = present
      /\ openTail' = openTail
  BY EntryAddedIs
<1>2. \/ ~AssistantIn(log', fileEntries') /\ flushed' = FALSE /\ pending' = <<>>
      \/ AssistantIn(log', fileEntries') /\ flushed' = flushed
         /\ pending' = IF flushed THEN <<n + 1>> ELSE fileEntries'
  BY EntryAddedIs
<1>3. /\ n \in Nat /\ fileEntries \in Seq(0..n) /\ sessionFile \in Files /\ flushed \in BOOLEAN
      /\ fileEntries \in Seq(-1..n) /\ fileEntries \in Seq(Int)
  BY MemoryTypes, MemoryList
<1>4. Whole(fileEntries') /\ Ids(fileEntries) \subseteq Ids(fileEntries')
  BY <1>1, <1>3, WholeAppend DEF Clean
<1>5. \A s \in Seq(-1..n) : AssistantIn(log', s) <=> AssistantIn(log, s)
  <2>1. \A i \in 1..n : log'[i].kind = log[i].kind
    BY <1>1
  <2> QED
    BY <1>3, <2>1, AssistantStays
<1>6. AssistantIn(log, fileEntries) => AssistantIn(log', fileEntries')
  BY <1>3, <1>4, <1>5, MoreAssistants
<1>7. flushed => disk[sessionFile] = fileEntries /\ AssistantIn(log, fileEntries)
  BY <1>1 DEF Clean
<1>8. ~flushed => sessionFile \notin present /\ disk[sessionFile] = <<>>
  BY <1>1, <1>3, FileTypes DEF Clean
<1>9. ASSUME NEW f \in present' PROVE Whole(disk'[f]) /\ AssistantIn(log', disk'[f])
  <2>1. Whole(disk[f]) /\ AssistantIn(log, disk[f])
    BY <1>1 DEF Clean
  <2>2. disk[f] \in Seq(-1..n)
    BY <1>1, FileTypes, PresentTypes
  <2> QED
    BY <1>1, <1>5, <2>1, <2>2
<1>10. openTail' = {}
  BY <1>1 DEF Clean
<1>11. CASE ~AssistantIn(log', fileEntries')
  <2>1. ~flushed' /\ pending' = <<>> /\ sessionFile' \notin present'
    BY <1>1, <1>2, <1>6, <1>7, <1>8, <1>11
  <2> QED
    BY <1>4, <1>9, <1>10, <2>1 DEF Clean
<1>12. CASE AssistantIn(log', fileEntries') /\ flushed
  <2>1. pending' = <<n + 1>> /\ pending' # <<>>
    BY <1>2, <1>12
  <2>2. disk'[sessionFile'] \o pending' = fileEntries'
    <3>1. fileEntries \o <<n + 1>> = Append(fileEntries, n + 1)
      BY <1>3
    <3> QED
      BY <1>1, <1>7, <1>12, <2>1, <3>1
  <2> QED
    BY <1>4, <1>9, <1>10, <1>12, <2>1, <2>2 DEF Clean
<1>13. CASE AssistantIn(log', fileEntries') /\ ~flushed
  <2>1. pending' = fileEntries' /\ pending' # <<>>
    <3>1. Len(fileEntries') > 0
      BY <1>4 DEF Whole
    <3>2. fileEntries' # <<>>
      BY <3>1
    <3> QED
      BY <1>2, <1>13, <3>2
  <2>2. disk'[sessionFile'] \o pending' = fileEntries'
    <3>1. Append(fileEntries, n + 1) \in Seq(Int)
      BY <1>3
    <3>2. \A s \in Seq(Int) : <<>> \o s = s
      OBVIOUS
    <3> QED
      BY <1>1, <1>8, <1>13, <2>1, <3>1, <3>2
  <2> QED
    BY <1>4, <1>9, <1>10, <1>13, <2>1, <2>2 DEF Clean
<1> QED
  BY <1>2, <1>3, <1>11, <1>12, <1>13

LEMMA CleanMoved ==
  ASSUME StoreInv, Clean, LeafMoved
  PROVE  Clean'
<1>1. /\ log' = log /\ fileEntries' = fileEntries /\ flushed' = flushed /\ sessionFile' = sessionFile
      /\ alive' = alive /\ disk' = disk /\ present' = present /\ openTail' = openTail
      /\ pending' = pending
  BY DEF LeafMoved, files
<1> QED
  BY <1>1 DEF Clean

\* A header alone is whole.
LEMMA WholeHeader == Whole(<<Header>>)
<1>1. Len(<<Header>>) = 1 /\ <<Header>>[1] = Header
  OBVIOUS
<1> HIDE DEF Header
<1>2. Header # Garbage
  BY DEF Header, Garbage
<1> QED
  BY <1>1, <1>2 DEF Whole, Once

LEMMA CleanStarted ==
  ASSUME StoreInv, Clean, Started
  PROVE  Clean'
<1>1. /\ pending = <<>> /\ fileEntries' = <<Header>> /\ flushed' = FALSE
      /\ sessionFile' \notin present /\ log' = log /\ disk' = disk /\ present' = present
      /\ openTail' = openTail /\ pending' = pending
  BY DEF Started, Fresh, files
<1> QED
  BY <1>1, WholeHeader DEF Clean

\* A whole file is read as it is.
LEMMA LoadedWhole ==
  ASSUME StoreInv, NEW f \in Files, Whole(disk[f])
  PROVE  Loaded(f) = disk[f]
<1> DEFINE s == disk[f]
<1>1. s \in Seq(Int)
  BY FileTypes
<1> HIDE DEF s
<1>2. /\ Len(s) > 0 /\ s[1] = Header /\ \A i \in 1..Len(s) : s[i] # Garbage
  BY DEF Whole, s
<1>3. ToSet(s) \subseteq ToSet(s) \ {Garbage}
  BY <1>1, <1>2 DEF ToSet
<1>4. Only(s, ToSet(s) \ {Garbage}) = s
  BY <1>1, <1>3, OnlyAll
<1>5. Parsed(f) = s
  BY <1>4 DEF Parsed, s
<1>6. s # <<>> /\ Head(s) = Header
  BY <1>1, <1>2
<1>7. Loaded(f) = s
  BY <1>5, <1>6 DEF Loaded
<1> QED
  BY <1>7 DEF s

\* A file that is not there has nothing to read.
LEMMA LoadedPresent ==
  ASSUME StoreInv, NEW f \in Files, Loaded(f) # <<>>
  PROVE  f \in present
<1> SUFFICES ASSUME f \notin present PROVE FALSE
  OBVIOUS
<1>1. disk[f] = <<>>
  BY FileTypes
<1>2. <<>> \in Seq(Int) /\ ToSet(<<>>) \subseteq ToSet(<<>>) \ {Garbage}
  BY DEF ToSet
<1>3. Only(<<>>, ToSet(<<>>) \ {Garbage}) = <<>>
  BY <1>2, OnlyAll
<1>4. Parsed(f) = <<>>
  BY <1>1, <1>3 DEF Parsed
<1> QED
  BY <1>4 DEF Loaded

LEMMA CleanOpened ==
  ASSUME StoreInv, Clean, NEW f \in Files
  PROVE  /\ Opened(f) => Clean'
         /\ ~Emptied(f)
<1>1. ASSUME f \in present, pending = <<>>
      PROVE  Whole(disk[f]) /\ AssistantIn(log, disk[f]) /\ Loaded(f) = disk[f] /\ Loaded(f) # <<>>
  <2>1. Whole(disk[f]) /\ AssistantIn(log, disk[f])
    BY <1>1 DEF Clean
  <2>2. disk[f] # <<>>
    BY <2>1 DEF Whole
  <2>3. Loaded(f) = disk[f]
    BY <2>1, LoadedWhole
  <2> QED
    BY <2>1, <2>2, <2>3
<1>2. ASSUME Opened(f) PROVE Clean'
  <2>1. /\ f \in present /\ pending = <<>> /\ fileEntries' = Loaded(f) /\ sessionFile' = f
        /\ flushed' = TRUE /\ log' = log /\ disk' = disk /\ present' = present /\ openTail' = openTail
        /\ pending' = pending
    BY <1>2 DEF Opened, files
  <2> QED
    BY <1>1, <2>1 DEF Clean
<1>3. ~Emptied(f)
  BY <1>1 DEF Emptied
<1> QED
  BY <1>2, <1>3

\* Two lists with nothing twice and nothing in common, put together.
LEMMA OnceJoined ==
  ASSUME NEW A, NEW s \in Seq(A), NEW t \in Seq(A), Once(s), Once(t),
         \A i \in 1..Len(s), j \in 1..Len(t) : s[i] # t[j]
  PROVE  Once(s \o t)
<1> DEFINE st == s \o t
<1>1. st \in Seq(A) /\ Len(st) = Len(s) + Len(t)
  BY Joined
<1>2. \A i \in 1..Len(s) : st[i] = s[i]
  BY Joined
<1>3. \A k \in 1..Len(t) : st[Len(s) + k] = t[k]
  BY Joined
<1>4. Len(s) \in Nat /\ Len(t) \in Nat
  OBVIOUS
<1> HIDE DEF st
<1>5. ASSUME NEW i \in 1..Len(st), i \notin 1..Len(s)
      PROVE  i - Len(s) \in 1..Len(t) /\ st[i] = t[i - Len(s)]
  <2>1. i - Len(s) \in 1..Len(t) /\ i = Len(s) + (i - Len(s))
    BY <1>1, <1>4, <1>5
  <2> QED
    BY <1>3, <2>1
<1>6. ASSUME NEW i \in 1..Len(st), NEW j \in 1..Len(st), st[i] = st[j] PROVE i = j
  <2>1. CASE i \in 1..Len(s) /\ j \in 1..Len(s)
    BY <1>2, <1>6, <2>1 DEF Once
  <2>2. CASE i \in 1..Len(s) /\ j \notin 1..Len(s)
    BY <1>2, <1>5, <1>6, <2>2
  <2>3. CASE i \notin 1..Len(s) /\ j \in 1..Len(s)
    BY <1>2, <1>5, <1>6, <2>3
  <2>4. CASE i \notin 1..Len(s) /\ j \notin 1..Len(s)
    <3>1. i - Len(s) = j - Len(s)
      BY <1>5, <1>6, <2>4 DEF Once
    <3> QED
      BY <1>1, <1>4, <3>1
  <2> QED
    BY <2>1, <2>2, <2>3, <2>4
<1> QED
  BY <1>6 DEF Once, st

\* A header before a list of entries.
LEMMA WholeHeaded ==
  ASSUME NEW s \in Seq(Nat), Once(s), \A i \in 1..Len(s) : s[i] # Header
  PROVE  Whole(<<Header>> \o s) /\ Ids(s) \subseteq Ids(<<Header>> \o s)
<1> DEFINE head == <<Header>>
           t == head \o s
<1>1. head \in Seq(Nat) /\ Len(head) = 1 /\ head[1] = Header
  BY DEF Header
<1>2. Once(head)
  BY <1>1 DEF Once
<1> HIDE DEF head
<1>3. t \in Seq(Nat) /\ Len(t) = Len(head) + Len(s)
  BY <1>1, Joined
<1>4. \A i \in 1..Len(head) : t[i] = head[i]
  BY <1>1, Joined
<1>5. \A k \in 1..Len(s) : t[Len(head) + k] = s[k]
  <2>1. \A x, y \in Seq(Nat) : \A k \in 1..Len(y) : (x \o y)[Len(x) + k] = y[k]
    BY Joined
  <2> QED
    BY <1>1, <2>1
<1>6. Once(t)
  BY <1>1, <1>2, OnceJoined
<1> HIDE DEF t
<1>7. Len(s) \in Nat /\ DOMAIN s = 1..Len(s) /\ DOMAIN t = 1..Len(t)
  BY <1>3
<1>8. t[1] = Header /\ Len(t) > 0
  BY <1>1, <1>3, <1>4, <1>7
<1>9. \A i \in 1..Len(t) : t[i] # Garbage
  BY <1>3 DEF Garbage
<1>10. \A k \in DOMAIN s : s[k] \in ToSet(t)
  <2>1. ASSUME NEW k \in DOMAIN s PROVE 1 + k \in DOMAIN t /\ t[1 + k] = s[k]
    BY <1>1, <1>3, <1>5, <1>7
  <2> QED
    BY <2>1 DEF ToSet
<1>11. Whole(t)
  BY <1>6, <1>8, <1>9 DEF Whole
<1>12. Ids(s) \subseteq Ids(t)
  BY <1>10 DEF Ids, ToSet
<1> QED
  BY <1>11, <1>12 DEF t, head

\* A list that begins with a header, then entries, then entries after those.
LEMMA WholeJoined ==
  ASSUME NEW n \in Nat, NEW path \in Seq(1..n), Once(path), NEW m \in Nat,
         NEW s, s = <<Header>> \o path \o [k \in 1..m |-> n + k]
  PROVE  Whole(s) /\ Ids(path) \subseteq Ids(s)
<1> DEFINE new == [k \in 1..m |-> n + k]
           body == path \o new
<1>1. path \in Seq(Nat) /\ DOMAIN path = 1..Len(path) /\ Len(path) \in Nat
  <2>1. 1..n \subseteq Nat
    OBVIOUS
  <2> QED
    BY <2>1, SeqMonotonic
<1>2. new \in Seq(Nat) /\ Len(new) = m /\ \A k \in 1..m : new[k] = n + k
  <2>1. \A k \in 1..m : n + k \in Nat
    OBVIOUS
  <2> QED
    BY <2>1
<1>3. \A i \in 1..Len(path) : path[i] \in 1..n
  BY ElementOfSeq
<1>4. s = <<Header>> \o path \o new /\ <<Header>> \in Seq(Nat)
  BY DEF Header
<1> HIDE DEF new
<1>5. s = <<Header>> \o body
  <2> DEFINE head == <<Header>>
  <2>1. head \in Seq(Nat) /\ s = head \o path \o new
    BY <1>4
  <2> HIDE DEF head
  <2>2. (head \o path) \o new = head \o (path \o new)
    <3>1. head \in Seq(Nat) /\ path \in Seq(Nat) /\ new \in Seq(Nat)
      BY <1>1, <1>2, <2>1
    <3> HIDE DEF new
    <3> QED
      BY <3>1, SMTT(20), ZenonT(20)
  <2>3. s = head \o body
    BY <2>1, <2>2
  <2> QED
    BY <2>3 DEF head
<1>6. Once(new)
  BY <1>2 DEF Once
<1>7. \A i \in 1..Len(path), j \in 1..Len(new) : path[i] # new[j]
  BY <1>2, <1>3
<1>8. Once(body) /\ body \in Seq(Nat)
  <2>1. Once(body)
    BY <1>1, <1>2, <1>6, <1>7, OnceJoined
  <2> QED
    BY <1>1, <1>2, <2>1
<1>9. /\ Len(body) = Len(path) + m
      /\ \A i \in 1..Len(path) : body[i] = path[i]
      /\ \A k \in 1..m : body[Len(path) + k] = n + k
  <2>1. Len(body) = Len(path) + Len(new)
    BY <1>1, <1>2, Joined
  <2>2. \A i \in 1..Len(path) : body[i] = path[i]
    BY <1>1, <1>2, Joined
  <2>3. \A k \in 1..Len(new) : body[Len(path) + k] = new[k]
    BY <1>1, <1>2, Joined
  <2> HIDE DEF body
  <2> QED
    BY <1>2, <2>1, <2>2, <2>3
<1> HIDE DEF body
<1>10. \A i \in 1..Len(body) : body[i] # Header
  <2> SUFFICES ASSUME NEW i \in 1..Len(body) PROVE body[i] # 0
    BY DEF Header
  <2>1. CASE i \in 1..Len(path)
    <3>1. path[i] \in 1..n
      BY <1>3, <2>1
    <3>2. body[i] = path[i]
      BY <1>9, <2>1
    <3>3. path[i] # 0
      BY <3>1
    <3> QED
      BY <3>2, <3>3
  <2>2. CASE i \notin 1..Len(path)
    <3>1. i - Len(path) \in 1..m /\ i = Len(path) + (i - Len(path))
      BY <1>1, <1>9, <2>2
    <3>2. body[i] = n + (i - Len(path))
      BY <1>9, <3>1
    <3> QED
      BY <3>1, <3>2
  <2> QED
    BY <2>1, <2>2
<1>11. Whole(s) /\ Ids(body) \subseteq Ids(s)
  BY <1>5, <1>8, <1>10, WholeHeaded
<1>12. Ids(path) \subseteq Ids(body)
  <2>1. \A k \in DOMAIN path : k \in DOMAIN body /\ body[k] = path[k]
    BY <1>1, <1>8, <1>9
  <2> QED
    BY <2>1 DEF Ids, ToSet
<1> QED
  BY <1>11, <1>12

\* A fork has no assistant message but those on its path.
LEMMA ForkAssistant ==
  ASSUME StoreInv, NEW id \in 1..Len(log), CreateBranchedSession(id), AssistantIn(log', fileEntries')
  PROVE  AssistantIn(log, ForkPath(id))
<1> DEFINE n == Len(log)
           m == Len(ForkKept(id))
<1>1. n \in Nat /\ id \in 0..n
  BY MemoryTypes
<1>2. /\ log' \in Seq(Entry) /\ Len(log') = n + m
      /\ \A i \in 1..n : log'[i] = log[i]
      /\ \A k \in 1..m : log'[n + k] = ForkNew(id)[k]
      /\ fileEntries' \in Seq(0..Len(log'))
  BY <1>1, ForkLists
<1>3. m \in Nat /\ \A k \in 1..m : ForkNew(id)[k].kind = "label"
  <2>1. ForkKept(id) \in Seq(1..n)
    BY <1>1, ForkKeptIs
  <2>2. \A k \in 1..m : ForkNew(id)[k].kind = "label"
    BY <1>1, ForkNewIs
  <2>3. m \in Nat
    BY <2>1
  <2> QED
    BY <2>2, <2>3
<1>4. fileEntries' = ForkEntries(id)
  BY ForkStep
<1>5. PICK t \in Ids(fileEntries') : log'[t].kind = "assistant"
  BY DEF AssistantIn
<1> HIDE DEF m, n
<1>6. t \in 1..n + m
  <2>1. Ids(fileEntries') \subseteq 1..n + m
    <3>1. n + m \in Nat /\ fileEntries' \in Seq(0..n + m)
      BY <1>1, <1>2, <1>3
    <3> QED
      BY <3>1, IdsType
  <2> QED
    BY <1>5, <2>1
<1>7. t \in 1..n
  <2> SUFFICES ASSUME t \notin 1..n PROVE FALSE
    OBVIOUS
  <2>1. t - n \in 1..m /\ t = n + (t - n)
    BY <1>1, <1>3, <1>6
  <2>2. log'[t].kind = "label"
    BY <1>2, <1>3, <2>1
  <2> QED
    BY <1>5, <2>2
<1>8. t \in ToSet(ForkPath(id)) /\ t # Header /\ t # Garbage
  <2>1. t \in ToSet(ForkEntries(id)) /\ t # Header /\ t # Garbage
    BY <1>4, <1>5 DEF Ids
  <2>2. t \in 1..Len(log)
    BY <1>7 DEF n
  <2>3. id \in 0..Len(log)
    BY <1>1 DEF n
  <2>4. t \in ToSet(ForkPath(id))
    BY <2>1, <2>2, <2>3, ForkHolds
  <2> QED
    BY <2>1, <2>4
<1>9. log[t].kind = "assistant"
  BY <1>2, <1>5, <1>7
<1> QED
  BY <1>8, <1>9 DEF AssistantIn, Ids

\* What a fork is.
LEMMA ForkIs ==
  ASSUME StoreInv, NEW id \in 1..Len(log), CreateBranchedSession(id)
  PROVE  /\ alive /\ alive' = alive /\ pending = <<>>
         /\ Whole(fileEntries') /\ fileEntries' \in Seq(Int) /\ fileEntries' # <<>>
         /\ \A s \in Seq(-1..Len(log)) : AssistantIn(log', s) <=> AssistantIn(log, s)
         /\ sessionFile' \in Files /\ sessionFile' \notin present
         /\ disk' = disk /\ disk'[sessionFile'] = <<>> /\ openTail' = openTail
         /\ \/ /\ AssistantIn(log', fileEntries')
               /\ present' = present \union {sessionFile'}
               /\ pending' = fileEntries' /\ flushed' = flushed
            \/ /\ ~AssistantIn(log', fileEntries')
               /\ present' = present /\ pending' = <<>> /\ flushed' = FALSE
<1> DEFINE n == Len(log)
           path == ForkPath(id)
<1>1. n \in Nat /\ id \in 0..n
  BY MemoryTypes
<1>2. path \in Seq(1..n) /\ Once(path)
  BY <1>1, ForkPathIs
<1>3. Len(ForkKept(id)) \in Nat
  <2>1. ForkKept(id) \in Seq(1..n)
    BY <1>1, ForkKeptIs
  <2> QED
    BY <2>1
<1>4. /\ Idle /\ fileEntries' = ForkEntries(id) /\ alive' = alive
      /\ sessionFile' \in Files /\ sessionFile' \notin present
      /\ \/ /\ HasAssistant(path) /\ Truncate(sessionFile')
            /\ pending' = fileEntries' /\ flushed' = flushed
         \/ /\ ~HasAssistant(path) /\ UNCHANGED <<files, pending>> /\ flushed' = FALSE
  BY ForkStep DEF FreshFiles, ForkWritesNow
<1>5. \A i \in 1..n : log'[i] = log[i]
  BY <1>1, ForkLists
<1>6. \A s \in Seq(-1..n) : AssistantIn(log', s) <=> AssistantIn(log, s)
  <2>1. \A i \in 1..n : log'[i].kind = log[i].kind
    BY <1>5
  <2> QED
    BY <1>1, <2>1, AssistantStays
<1>7. fileEntries' = <<Header>> \o path \o [k \in 1..Len(ForkKept(id)) |-> n + k]
  BY <1>4 DEF ForkEntries
<1>8. AssistantIn(log', fileEntries') => HasAssistant(path)
  BY ForkAssistant, AssistantIs
<1>9. disk[sessionFile'] = <<>>
  BY <1>4, FileTypes
<1>10. fileEntries' \in Seq(Int)
  <2>1. fileEntries' \in Seq(0..Len(log')) /\ log' \in Seq(Entry)
    BY <1>1, ForkLists
  <2>2. 0..Len(log') \subseteq Int
    BY <2>1
  <2> QED
    BY <2>1, <2>2, SeqMonotonic
<1> HIDE DEF path
<1>11. Whole(fileEntries') /\ Ids(path) \subseteq Ids(fileEntries')
  <2> DEFINE m == Len(ForkKept(id))
  <2>1. m \in Nat /\ fileEntries' = <<Header>> \o path \o [k \in 1..m |-> n + k]
    BY <1>3, <1>7
  <2> HIDE DEF m, n
  <2>2. \A s : s = <<Header>> \o path \o [k \in 1..m |-> n + k] => Whole(s) /\ Ids(path) \subseteq Ids(s)
    BY <1>1, <1>2, <2>1, WholeJoined
  <2> QED
    BY <2>1, <2>2
<1>12. fileEntries' # <<>>
  BY <1>11 DEF Whole
<1>13. alive /\ pending = <<>>
  BY <1>4 DEF Idle
<1>14. CASE HasAssistant(path) /\ Truncate(sessionFile') /\ pending' = fileEntries' /\ flushed' = flushed
  <2>1. disk' = disk /\ openTail' = openTail /\ present' = present \union {sessionFile'}
    <3>1. sessionFile' \in FreshFiles
      BY <1>4 DEF FreshFiles
    <3>2. disk' = disk /\ openTail' = openTail
      BY <1>14, <3>1, Created
    <3> QED
      BY <1>14, <3>2 DEF Truncate
  <2>2. AssistantIn(log', fileEntries')
    <3>1. path \in Seq(-1..n)
      <4>1. 1..n \subseteq -1..n
        BY <1>1
      <4> QED
        BY <1>2, <4>1, SeqMonotonic
    <3>2. AssistantIn(log', path)
      BY <1>6, <1>14, <3>1, AssistantIs
    <3> QED
      BY <1>11, <3>2, MoreAssistants
  <2> QED
    BY <1>4, <1>6, <1>9, <1>10, <1>11, <1>12, <1>13, <1>14, <2>1, <2>2
<1>15. CASE ~HasAssistant(path) /\ UNCHANGED <<files, pending>> /\ flushed' = FALSE
  <2>1. disk' = disk /\ openTail' = openTail /\ present' = present /\ pending' = <<>>
    BY <1>13, <1>15 DEF files
  <2> QED
    BY <1>4, <1>6, <1>8, <1>9, <1>10, <1>11, <1>12, <1>13, <1>15, <2>1
<1> QED
  BY <1>4, <1>14, <1>15

LEMMA CleanForked ==
  ASSUME StoreInv, Clean, NEW id \in 1..Len(log), CreateBranchedSession(id)
  PROVE  Clean'
<1>1. /\ alive /\ pending = <<>> /\ Whole(fileEntries') /\ fileEntries' \in Seq(Int) /\ fileEntries' # <<>>
      /\ \A s \in Seq(-1..Len(log)) : AssistantIn(log', s) <=> AssistantIn(log, s)
      /\ sessionFile' \in Files /\ sessionFile' \notin present
      /\ disk' = disk /\ disk'[sessionFile'] = <<>> /\ openTail' = openTail
  BY ForkIs
<1>2. openTail = {} /\ \A f \in present : Whole(disk[f]) /\ AssistantIn(log, disk[f])
  BY <1>1 DEF Clean
<1>3. ASSUME NEW f \in present PROVE Whole(disk'[f]) /\ AssistantIn(log', disk'[f])
  <2>1. disk[f] \in Seq(-1..Len(log))
    BY FileTypes, PresentTypes
  <2> QED
    BY <1>1, <1>2, <2>1
<1>4. CASE AssistantIn(log', fileEntries') /\ present' = present \union {sessionFile'} /\ pending' = fileEntries'
  <2>1. pending' # <<>> /\ disk'[sessionFile'] \o pending' = fileEntries'
    <3>1. \A s \in Seq(Int) : <<>> \o s = s
      OBVIOUS
    <3> QED
      BY <1>1, <1>4, <3>1
  <2>2. \A f \in present' : f # sessionFile' => Whole(disk'[f]) /\ AssistantIn(log', disk'[f])
    BY <1>3, <1>4
  <2> QED
    BY <1>1, <1>2, <1>4, <2>1, <2>2 DEF Clean
<1>5. CASE present' = present /\ pending' = <<>> /\ flushed' = FALSE
  BY <1>1, <1>2, <1>3, <1>5 DEF Clean
<1> QED
  BY <1>4, <1>5, ForkIs

\* The list of an old file.
LEMMA WholeOld ==
  /\ Whole(<<Header, 1, 2, 3>>)
  /\ \A x : x \in Ids(<<Header, 1, 2, 3>>) <=> x \in 1..3
<1> DEFINE s == <<Header, 1, 2, 3>>
<1>1. Len(s) = 4 /\ DOMAIN s = 1..4 /\ s[1] = 0 /\ s[2] = 1 /\ s[3] = 2 /\ s[4] = 3
  BY DEF Header
<1> HIDE DEF s
<1>2. \A i \in 1..4 : s[i] = i - 1
  BY <1>1
<1>3. Whole(s)
  <2>1. \A i \in 1..Len(s) : s[i] # Garbage
    BY <1>1, <1>2 DEF Garbage
  <2>2. Once(s)
    BY <1>1, <1>2 DEF Once
  <2> QED
    BY <1>1, <2>1, <2>2 DEF Whole, Header
<1>4. ASSUME NEW x PROVE x \in Ids(s) <=> x \in 1..3
  <2>1. x \in Ids(s) => x \in 1..3
    <3> SUFFICES ASSUME x \in Ids(s) PROVE x \in 1..3
      OBVIOUS
    <3>1. PICK i \in 1..4 : x = s[i]
      BY <1>1 DEF Ids, ToSet
    <3>2. x # 0
      BY DEF Ids, Header
    <3> QED
      BY <1>2, <3>1, <3>2
  <2>2. x \in 1..3 => x \in Ids(s)
    <3> SUFFICES ASSUME x \in 1..3 PROVE x \in Ids(s)
      OBVIOUS
    <3>1. x + 1 \in DOMAIN s /\ s[x + 1] = x
      BY <1>1, <1>2
    <3>2. x \in ToSet(s)
      BY <3>1 DEF ToSet
    <3>3. x # Header /\ x # Garbage
      BY DEF Header, Garbage
    <3> QED
      BY <3>2, <3>3 DEF Ids
  <2> QED
    BY <2>1, <2>2
<1> QED
  BY <1>3, <1>4 DEF s

\* What a migration is.
LEMMA ConvertedIs ==
  ASSUME StoreInv, NEW f \in Files, Converted(f)
  PROVE  /\ log' \in Seq(Entry) /\ Len(log') = Len(log)
         /\ \A i \in 1..Len(log) :
              /\ log'[i].kind = log[i].kind /\ log'[i].ref = log[i].ref
              /\ log'[i].parent = IF i \in 1..3 THEN i - 1 ELSE log[i].parent
         /\ 1 \in 1..Len(log) /\ 2 \in 1..Len(log) /\ 3 \in 1..Len(log)
         /\ log[1].kind = "user" /\ log[2].kind = "assistant" /\ log[3].kind = "compaction"
         /\ log[3].ref \in 1..2
         /\ disk' = [disk EXCEPT ![f] = <<>>] /\ disk'[f] = <<>>
         /\ \A g \in Files : g # f => disk'[g] = disk[g]
         /\ present' = present /\ openTail' = openTail \ {f}
<1>1. f \in old /\ log' = Migrated(Loaded(f)) /\ Truncate(f) /\ f \in present
  BY DEF Converted
<1>2. /\ log' \in Seq(Entry) /\ Len(log') = Len(log)
      /\ \A i \in 1..Len(log) :
           /\ log'[i].kind = log[i].kind /\ log'[i].ref = log[i].ref
           /\ log'[i].parent = IF i \in 1..3 THEN i - 1 ELSE log[i].parent
  BY <1>1, MigratedIs
<1>3. /\ 1 \in 1..Len(log) /\ 2 \in 1..Len(log) /\ 3 \in 1..Len(log)
      /\ log[1].kind = "user" /\ log[2].kind = "assistant" /\ log[3].kind = "compaction"
      /\ log[3].ref \in 1..2
  <2>1. DOMAIN log = 1..Len(log)
    BY DEF StoreInv, TypeOK
  <2> QED
    BY <1>1, <2>1 DEF StoreInv, OldFilesInv, IsKind
<1>4. disk = [g \in Files |-> disk[g]]
  BY DEF StoreInv, TypeOK
<1>5. disk' = [disk EXCEPT ![f] = <<>>] /\ present' = present /\ openTail' = openTail \ {f}
  BY <1>1 DEF Truncate
<1>6. disk'[f] = <<>> /\ \A g \in Files : g # f => disk'[g] = disk[g]
  BY <1>4, <1>5
<1> QED
  BY <1>2, <1>3, <1>5, <1>6

LEMMA CleanConverted ==
  ASSUME StoreInv, Clean, NEW f \in Files, Converted(f)
  PROVE  Clean'
<1> DEFINE n == Len(log)
           s == <<Header, 1, 2, 3>>
<1>1. /\ \A i \in 1..n : log'[i].kind = log[i].kind
      /\ log[2].kind = "assistant" /\ 2 \in 1..n
      /\ disk'[f] = <<>> /\ \A g \in Files : g # f => disk'[g] = disk[g]
      /\ present' = present /\ openTail' = openTail \ {f}
  BY ConvertedIs
<1>2. pending = <<>> /\ fileEntries' = s /\ sessionFile' = f /\ pending' = fileEntries'
  BY DEF Converted
<1>3. n \in Nat
  BY MemoryTypes
<1>4. \A t \in Seq(-1..n) : AssistantIn(log', t) <=> AssistantIn(log, t)
  BY <1>1, <1>3, AssistantStays
<1>5. s \in Seq(Int) /\ s # <<>>
  BY DEF Header
<1>6. Whole(s) /\ 2 \in Ids(s)
  BY WholeOld
<1> HIDE DEF s
<1>7. Whole(fileEntries') /\ AssistantIn(log', fileEntries')
  <2>1. log'[2].kind = "assistant"
    BY <1>1
  <2> QED
    BY <1>2, <1>6, <2>1 DEF AssistantIn
<1>8. pending' # <<>> /\ disk'[sessionFile'] \o pending' = fileEntries'
  <2>1. \A t \in Seq(Int) : <<>> \o t = t
    OBVIOUS
  <2> QED
    BY <1>1, <1>2, <1>5, <2>1
<1>9. ASSUME NEW g \in present', g # sessionFile'
      PROVE  Whole(disk'[g]) /\ AssistantIn(log', disk'[g])
  <2>1. g \in Files /\ g # f /\ g \in present
    BY <1>1, <1>2, <1>9, PresentTypes
  <2>2. Whole(disk[g]) /\ AssistantIn(log, disk[g])
    BY <1>2, <2>1 DEF Clean
  <2>3. disk[g] \in Seq(-1..n)
    BY <2>1, FileTypes
  <2> QED
    BY <1>1, <1>4, <2>1, <2>2, <2>3
<1>10. openTail' = {}
  BY <1>1 DEF Clean
<1> QED
  BY <1>7, <1>8, <1>9, <1>10 DEF Clean

\* The items of two lists put together are those of both.
LEMMA JoinedAll ==
  ASSUME NEW A, NEW s \in Seq(A), NEW t \in Seq(A)
  PROVE  ToSet(s \o t) = ToSet(s) \union ToSet(t)
<1> DEFINE st == s \o t
<1>1. st \in Seq(A) /\ Len(st) = Len(s) + Len(t)
  BY Joined
<1>2. \A i \in 1..Len(s) : st[i] = s[i]
  BY Joined
<1>3. \A k \in 1..Len(t) : st[Len(s) + k] = t[k]
  BY Joined
<1>4. ToSet(st) \subseteq ToSet(s) \union ToSet(t)
  BY JoinedSet
<1>5. Len(s) \in Nat /\ Len(t) \in Nat /\ DOMAIN s = 1..Len(s) /\ DOMAIN t = 1..Len(t)
  OBVIOUS
<1> HIDE DEF st
<1>6. DOMAIN st = 1..Len(s) + Len(t)
  BY <1>1
<1>7. \A i \in DOMAIN s : i \in DOMAIN st /\ st[i] = s[i]
  BY <1>2, <1>5, <1>6
<1>8. \A k \in DOMAIN t : Len(s) + k \in DOMAIN st /\ st[Len(s) + k] = t[k]
  BY <1>3, <1>5, <1>6
<1>9. ToSet(s) \subseteq ToSet(st) /\ ToSet(t) \subseteq ToSet(st)
  BY <1>7, <1>8 DEF ToSet
<1>10. ToSet(st) = ToSet(s) \union ToSet(t)
  BY <1>4, <1>9
<1> QED
  BY <1>10 DEF st

\* What the copy of another session is.
LEMMA CopiedIs ==
  ASSUME StoreInv, NEW src \in Files, Copied(src)
  PROVE  /\ src \in present
         /\ Loaded(src) \in Seq(Nat)
         /\ fileEntries' \in Seq(0..Len(log)) /\ fileEntries' # <<>> /\ fileEntries'[1] = Header
         /\ Ids(fileEntries') = Ids(Loaded(src))
         /\ Once(Loaded(src)) => Whole(fileEntries')
         /\ disk'[sessionFile'] = <<>>
         /\ log' = log /\ disk' = disk /\ present' = present /\ openTail' = openTail
<1> DEFINE s == Loaded(src)
           own == Only(s, Ids(s))
           head == <<Header>>
<1>1. Len(log) \in Nat /\ s \in Seq(0..Len(log))
  BY LoadedType DEF StoreInv, TypeOK
<1>2. s \in Seq(Nat) /\ s \in Seq(Int)
  <2>1. 0..Len(log) \subseteq Nat /\ 0..Len(log) \subseteq Int
    BY <1>1
  <2> QED
    BY <1>1, <2>1, SeqMonotonic
<1>3. own \in Seq(0..Len(log)) /\ ToSet(own) = ToSet(s) \intersect Ids(s)
  BY <1>1, <1>2, OnlyElements, OnlyNat
<1>4. src \in present
  BY LoadedPresent DEF Copied
<1>5. fileEntries' = head \o own
  BY DEF Copied
<1>6. disk' = disk /\ present' = present /\ openTail' = openTail /\ log' = log
  BY DEF Copied, files
<1>7. disk'[sessionFile'] = <<>>
  BY <1>6, FileTypes DEF Copied
<1>8. head \in Seq(0..Len(log)) /\ Len(head) = 1 /\ head[1] = Header /\ ToSet(head) = {Header}
  <2>1. Header \in 0..Len(log)
    BY <1>1 DEF Header
  <2>2. DOMAIN head = {1} /\ head[1] = Header
    OBVIOUS
  <2>3. ToSet(head) = {Header}
    BY <2>2 DEF ToSet
  <2> QED
    BY <2>1, <2>2, <2>3
<1> HIDE DEF own, s, head
<1>9. Ids(s) \subseteq ToSet(s)
  BY DEF Ids
<1>10. ToSet(own) = Ids(s)
  BY <1>3, <1>9
<1>11. \A i \in 1..Len(own) : own[i] \in Ids(s)
  <2>1. DOMAIN own = 1..Len(own)
    BY <1>3
  <2> QED
    BY <1>10, <2>1 DEF ToSet
<1>12. own \in Seq(Nat) /\ \A i \in 1..Len(own) : own[i] # Header
  <2>1. 0..Len(log) \subseteq Nat
    BY <1>1
  <2>2. own \in Seq(Nat)
    BY <1>3, <2>1, SeqMonotonic
  <2> QED
    BY <1>11, <2>2 DEF Ids
<1>13. ASSUME Once(s) PROVE Whole(fileEntries')
  <2>1. Once(own)
    BY <1>2, <1>13, OnlyOnce DEF own
  <2>2. Whole(<<Header>> \o own)
    BY <1>12, <2>1, WholeHeaded
  <2> QED
    BY <1>5, <2>2 DEF head
<1>14. /\ fileEntries' \in Seq(0..Len(log))
       /\ Len(fileEntries') = 1 + Len(own)
  <2>1. head \o own \in Seq(0..Len(log)) /\ Len(head \o own) = Len(head) + Len(own)
    BY <1>3, <1>8, Joined
  <2> QED
    BY <1>5, <1>8, <2>1
<1>15. fileEntries'[1] = Header
  <2> DEFINE u == head \o own
  <2>1. \A i \in 1..Len(head) : u[i] = head[i]
    BY <1>3, <1>8, Joined
  <2>2. fileEntries' = u
    BY <1>5
  <2> HIDE DEF u
  <2>3. u[1] = head[1]
    BY <1>8, <2>1
  <2> QED
    BY <1>8, <2>2, <2>3
<1>16. Ids(fileEntries') = Ids(s)
  <2>1. ToSet(head \o own) = ToSet(head) \union ToSet(own)
    BY <1>3, <1>8, JoinedAll
  <2>3. Ids(fileEntries') = ToSet(head \o own) \ {Header, Garbage}
    BY <1>5 DEF Ids
  <2>4. Header \notin Ids(s) /\ Garbage \notin Ids(s)
    BY DEF Ids
  <2> QED
    BY <1>8, <1>10, <2>1, <2>3, <2>4
<1>17. fileEntries' # <<>>
  <2>1. Len(own) \in Nat
    BY <1>3
  <2>2. Len(fileEntries') > 0
    BY <1>14, <2>1
  <2> QED
    BY <2>2
<1> QED
  BY <1>2, <1>4, <1>6, <1>7, <1>13, <1>14, <1>15, <1>16, <1>17 DEF s

LEMMA CleanCopied ==
  ASSUME StoreInv, Clean, NEW src \in Files, Copied(src)
  PROVE  Clean'
<1>1. /\ src \in present
      /\ fileEntries' \in Seq(0..Len(log)) /\ fileEntries' # <<>>
      /\ Ids(fileEntries') = Ids(Loaded(src))
      /\ Once(Loaded(src)) => Whole(fileEntries')
      /\ disk'[sessionFile'] = <<>>
      /\ log' = log /\ disk' = disk /\ present' = present /\ openTail' = openTail
  BY CopiedIs
<1>2. pending = <<>> /\ pending' = fileEntries'
  BY DEF Copied
<1>3. Whole(disk[src]) /\ AssistantIn(log, disk[src])
  BY <1>1, <1>2 DEF Clean
<1>4. Loaded(src) = disk[src]
  BY <1>3, LoadedWhole
<1>5. Whole(fileEntries')
  BY <1>1, <1>3, <1>4 DEF Whole
<1>6. AssistantIn(log', fileEntries')
  BY <1>1, <1>3, <1>4, MoreAssistants
<1>7. pending' # <<>> /\ disk'[sessionFile'] \o pending' = fileEntries'
  <2>1. fileEntries' \in Seq(Int)
    <3>1. 0..Len(log) \subseteq Int
      OBVIOUS
    <3> QED
      BY <1>1, <3>1, SeqMonotonic
  <2>2. \A t \in Seq(Int) : <<>> \o t = t
    OBVIOUS
  <2> QED
    BY <1>1, <1>2, <2>1, <2>2
<1>8. \A f \in present' : f # sessionFile' => Whole(disk'[f]) /\ AssistantIn(log', disk'[f])
  BY <1>1, <1>2 DEF Clean
<1>9. openTail' = {}
  BY <1>1 DEF Clean
<1> QED
  BY <1>5, <1>6, <1>7, <1>8, <1>9 DEF Clean

\* A line that is written goes from one list to the other.
LEMMA HeadMoved ==
  ASSUME NEW A, NEW s \in Seq(A), NEW p \in Seq(A), p # <<>>
  PROVE  Append(s, Head(p)) \o Tail(p) = s \o p
  OBVIOUS

\* What writing a line does.
LEMMA WriteLineIs ==
  ASSUME StoreInv, WriteLine
  PROVE  /\ pending # <<>> /\ pending' = Tail(pending)
         /\ disk'[sessionFile] = IF sessionFile \in openTail
                                 THEN Append(Front(disk[sessionFile]), Garbage)
                                 ELSE Append(disk[sessionFile], Head(pending))
         /\ \A f \in Files : f # sessionFile => disk'[f] = disk[f]
         /\ present' = present \union {sessionFile} /\ openTail' = openTail \ {sessionFile}
         /\ flushed' = (flushed \/ pending' = <<>>) /\ alive' = (alive \/ pending' = <<>>)
         /\ log' = log /\ fileEntries' = fileEntries /\ leafId' = leafId
         /\ sessionFile' = sessionFile /\ old' = old
         /\ scope' = scope /\ failed' = failed /\ faults' = faults
<1>1. disk = [f \in Files |-> disk[f]] /\ sessionFile \in Files
  BY DEF StoreInv, TypeOK
<1> DEFINE line == IF sessionFile \in openTail
                   THEN Append(Front(disk[sessionFile]), Garbage)
                   ELSE Append(disk[sessionFile], Head(pending))
<1>2. /\ pending # <<>> /\ pending' = Tail(pending)
      /\ disk' = [disk EXCEPT ![sessionFile] = line]
      /\ present' = present \union {sessionFile} /\ openTail' = openTail \ {sessionFile}
      /\ flushed' = (flushed \/ pending' = <<>>) /\ alive' = (alive \/ pending' = <<>>)
      /\ UNCHANGED <<log, fileEntries, leafId, sessionFile, old, bounds>>
  BY DEF WriteLine
<1> HIDE DEF line
<1>3. disk'[sessionFile] = line /\ \A f \in Files : f # sessionFile => disk'[f] = disk[f]
  BY <1>1, <1>2
<1>4. /\ log' = log /\ fileEntries' = fileEntries /\ leafId' = leafId
      /\ sessionFile' = sessionFile /\ old' = old
      /\ scope' = scope /\ failed' = failed /\ faults' = faults
  BY <1>2 DEF bounds
<1> QED
  BY <1>2, <1>3, <1>4 DEF line

LEMMA CleanWritten ==
  ASSUME StoreInv, Clean, WriteLine
  PROVE  Clean'
<1> DEFINE d == disk[sessionFile]
           e == disk'[sessionFile]
<1>1. /\ pending # <<>> /\ pending' = Tail(pending) /\ openTail = {}
      /\ e = Append(d, Head(pending))
      /\ \A f \in Files : f # sessionFile => disk'[f] = disk[f]
      /\ present' = present \union {sessionFile} /\ openTail' = {}
      /\ flushed' = (flushed \/ pending' = <<>>)
      /\ log' = log /\ fileEntries' = fileEntries /\ sessionFile' = sessionFile
  BY WriteLineIs DEF Clean
<1>2. d \in Seq(Int) /\ pending \in Seq(Int) /\ sessionFile \in Files
  BY FileTypes, MemoryList, MemoryTypes
<1>3. Whole(fileEntries) /\ d \o pending = fileEntries /\ AssistantIn(log, fileEntries)
  BY <1>1 DEF Clean
<1> HIDE DEF d, e
<1>4. e \o pending' = fileEntries
  <2>1. Append(d, Head(pending)) \o Tail(pending) = d \o pending
    BY <1>1, <1>2, HeadMoved
  <2> QED
    BY <1>1, <1>3, <2>1
<1>5. e \in Seq(Int)
  <2>1. Head(pending) \in Int
    BY <1>1, <1>2
  <2> QED
    BY <1>1, <1>2, <2>1
<1>6. pending' = <<>> => e = fileEntries
  <2>1. \A s \in Seq(Int) : s \o <<>> = s
    OBVIOUS
  <2> QED
    BY <1>4, <1>5, <2>1
<1>7. ASSUME NEW f \in present', pending' = <<>> \/ f # sessionFile
      PROVE  Whole(disk'[f]) /\ AssistantIn(log', disk'[f])
  <2>1. CASE f = sessionFile
    <3>1. disk'[f] = fileEntries
      BY <1>6, <1>7, <2>1 DEF e
    <3> QED
      BY <1>1, <1>3, <3>1
  <2>2. CASE f # sessionFile
    <3>1. f \in present /\ f \in Files
      BY <1>1, <2>2, PresentTypes
    <3>2. Whole(disk[f]) /\ AssistantIn(log, disk[f])
      BY <2>2, <3>1 DEF Clean
    <3> QED
      BY <1>1, <2>2, <3>1, <3>2
  <2> QED
    BY <2>1, <2>2
<1>8. disk'[sessionFile'] = e
  BY <1>1 DEF e
<1>9. pending' = <<>> => flushed'
  BY <1>1
<1> QED
  BY <1>1, <1>3, <1>4, <1>6, <1>7, <1>8, <1>9 DEF Clean

LEMMA CleanInit == Init => CleanInv
<1> SUFFICES ASSUME Init PROVE Clean
  BY DEF CleanInv
<1>1. /\ fileEntries = <<Header>> /\ flushed = FALSE /\ alive = FALSE /\ openTail = {} /\ pending = <<>>
  BY DEF Init
<1>2. Whole(fileEntries)
  BY <1>1, WholeHeader
<1>3. ASSUME NEW f \in present PROVE Whole(disk[f]) /\ AssistantIn(log, disk[f])
  <2>1. /\ disk = [g \in Files |-> IF g = sessionFile THEN <<Header, 1, 2, 3>> ELSE <<>>]
        /\ f = sessionFile /\ sessionFile \in Files
        /\ \E index \in 1..2 :
             log = <<OldEntry("user", Null), OldEntry("assistant", Null), OldEntry("compaction", index)>>
    BY DEF Init
  <2>2. disk[f] = <<Header, 1, 2, 3>>
    BY <2>1
  <2>3. log[2].kind = "assistant"
    BY <2>1 DEF OldEntry
  <2>4. Whole(disk[f]) /\ 2 \in Ids(disk[f])
    BY <2>2, WholeOld
  <2> QED
    BY <2>3, <2>4 DEF AssistantIn
<1> QED
  BY <1>1, <1>2, <1>3 DEF Clean

\* The bounds stay, and the count of faults only grows.
LEMMA FaultsGrow ==
  ASSUME StoreInv, StepKind
  PROVE  /\ scope' = scope /\ faults' \in Nat
         /\ faults' = faults \/ ((WriteFails \/ Crash) /\ faults' = faults + 1)
<1>1. faults \in Nat
  BY MemoryTypes
<1>2. UNCHANGED bounds => scope' = scope /\ faults' = faults
  BY DEF bounds
<1>3. WriteFails \/ Crash => scope' = scope /\ faults' = faults + 1
  BY DEF WriteFails, Crash
<1>4. (\E e : EntryAdded(e)) \/ LeafMoved \/ Started => UNCHANGED bounds
  BY DEF EntryAdded, LeafMoved, Started
<1>5. \A f \in Files : Emptied(f) \/ Opened(f) \/ Converted(f) \/ Copied(f) \/ TouchFile(f) => UNCHANGED bounds
  BY DEF Emptied, Opened, Converted, Copied, TouchFile
<1>6. \A id \in 1..Len(log) : CreateBranchedSession(id) => UNCHANGED bounds
  BY ForkStep
<1>7. WriteLine => UNCHANGED bounds
  BY DEF WriteLine
<1> QED
  BY <1>1, <1>2, <1>3, <1>4, <1>5, <1>6, <1>7 DEF StepKind

LEMMA CleanStep ==
  ASSUME StoreInv, CleanInv, [Next]_vars
  PROVE  CleanInv'
<1>1. StepKind
  BY Steps
<1>2. /\ scope' = scope /\ faults' \in Nat /\ faults \in Nat
      /\ faults' = faults \/ ((WriteFails \/ Crash) /\ faults' = faults + 1)
  BY <1>1, FaultsGrow, MemoryTypes
<1> SUFFICES ASSUME faults' = 0, ~scope'.touch PROVE Clean'
  BY DEF CleanInv
<1>3. Clean /\ ~scope.touch
  BY <1>2 DEF CleanInv
<1>4. ~WriteFails /\ ~Crash /\ \A f \in Files : ~TouchFile(f)
  BY <1>2, <1>3 DEF WriteFails, Crash, TouchFile
<1>5. ASSUME NEW e, EntryAdded(e) PROVE Clean'
  BY <1>3, <1>5, CleanAdded
<1>6. ASSUME LeafMoved \/ Started \/ WriteLine PROVE Clean'
  BY <1>3, <1>6, CleanMoved, CleanStarted, CleanWritten
<1>7. ASSUME NEW id \in 1..Len(log), CreateBranchedSession(id) PROVE Clean'
  BY <1>3, <1>7, CleanForked
<1>8. ASSUME NEW f \in Files, Emptied(f) \/ Opened(f) PROVE Clean'
  BY <1>3, <1>8, CleanOpened
<1>9. ASSUME NEW f \in Files, Converted(f) \/ Copied(f) PROVE Clean'
  BY <1>3, <1>9, CleanConverted, CleanCopied
<1> QED
  BY <1>1, <1>4, <1>5, <1>6, <1>7, <1>8, <1>9 DEF StepKind

\* As long as no write fails and no process is killed, no file of a session has a
\* line twice: the deferred flush of _persist, the direct write of
\* createBranchedSession, the rewrite of a migration and the copy of forkFrom start
\* from an empty file, and each line that follows is new.
THEOREM NoDuplicateLinesAlways == Spec => []NoDuplicateLines
<1>1. StoreInv /\ CleanInv => NoDuplicateLines
  <2> SUFFICES ASSUME StoreInv, CleanInv, faults = 0, ~scope.touch, NEW f \in Files
               PROVE  \A i, j \in DOMAIN disk[f] : disk[f][i] = disk[f][j] => i = j
    BY DEF NoDuplicateLines
  <2>1. Clean
    BY DEF CleanInv
  <2>2. disk[f] \in Seq(Int) /\ DOMAIN disk[f] = 1..Len(disk[f])
    <3>1. disk[f] \in Seq(Int)
      BY FileTypes
    <3> QED
      BY <3>1
  <2>3. CASE f \notin present
    <3>1. disk[f] = <<>>
      BY <2>3, FileTypes
    <3> QED
      BY <3>1
  <2>4. CASE f \in present /\ (pending = <<>> \/ f # sessionFile)
    BY <2>1, <2>2, <2>4 DEF Clean, Whole, Once
  <2>5. CASE pending # <<>> /\ f = sessionFile
    <3> DEFINE d == disk[f]
    <3>1. d \in Seq(Int) /\ pending \in Seq(Int)
      BY <2>2, MemoryList
    <3>2. d \o pending = fileEntries /\ Once(fileEntries)
      BY <2>1, <2>5 DEF Clean, Whole
    <3>3. Len(d \o pending) = Len(d) + Len(pending)
      BY <3>1, Joined
    <3>4. \A i \in 1..Len(d) : (d \o pending)[i] = d[i]
      BY <3>1, Joined
    <3> HIDE DEF d
    <3>5. Len(d) \in Nat /\ Len(pending) \in Nat
      BY <3>1
    <3>6. \A i \in 1..Len(d) : i \in 1..Len(fileEntries) /\ fileEntries[i] = d[i]
      BY <3>2, <3>3, <3>4, <3>5
    <3>7. \A i, j \in 1..Len(d) : d[i] = d[j] => i = j
      BY <3>2, <3>6 DEF Once
    <3> QED
      BY <2>2, <3>7 DEF d
  <2> QED
    BY <2>3, <2>4, <2>5
<1>2. StoreInv /\ CleanInv /\ [Next]_vars => CleanInv'
  BY CleanStep
<1> QED
  BY <1>1, <1>2, CleanInit, StoreInvariant, PTL DEF Spec

-----------------------------------------------------------------------------
(* Nothing is lost but what a fault costs *)

\* The entries of the session that are neither on disk, nor about to be written,
\* nor lost by a write that failed.
Missing == ToSet(fileEntries) \ (ToSet(disk[sessionFile]) \union ToSet(pending) \union failed)

\* The session is one that is written down.
Saved == AssistantIn(log, fileEntries) \/ flushed \/ pending # <<>>

\* What makes Durable inductive: a line without its end comes from a fault, and
\* what that fault may cost is not yet counted.
SavedInv ==
  /\ openTail # {} => faults > 0
  /\ Saved =>
       /\ ~Torn(sessionFile) => Missing = {}
       /\ Cardinality(Missing) <= 2 * faults
       /\ sessionFile \in openTail => Cardinality(Missing) <= 2 * (faults - 1)

LEMMA MissingFinite ==
  ASSUME StoreInv
  PROVE  /\ IsFiniteSet(Missing) /\ Cardinality(Missing) \in Nat
         /\ \A M \in SUBSET Missing : Cardinality(M) \in Nat /\ Cardinality(M) <= Cardinality(Missing)
<1>1. Len(log) \in Nat /\ fileEntries \in Seq(0..Len(log))
  BY MemoryTypes
<1>2. Missing \subseteq 0..Len(log)
  <2>1. \A i \in DOMAIN fileEntries : fileEntries[i] \in 0..Len(log)
    BY <1>1, ElementOfSeq
  <2>2. ToSet(fileEntries) \subseteq 0..Len(log)
    BY <2>1 DEF ToSet
  <2> QED
    BY <2>2 DEF Missing
<1>3. IsFiniteSet(0..Len(log))
  BY <1>1, FS_Interval
<1>4. IsFiniteSet(Missing)
  BY <1>2, <1>3, FS_Subset
<1>5. ASSUME NEW M \in SUBSET Missing
      PROVE  Cardinality(M) \in Nat /\ Cardinality(M) <= Cardinality(Missing)
  <2>1. IsFiniteSet(M) /\ Cardinality(M) <= Cardinality(Missing)
    BY <1>4, FS_Subset
  <2>2. Cardinality(M) \in Nat
    BY <2>1, FS_CardinalityType
  <2> QED
    BY <2>1, <2>2
<1>6. Cardinality(Missing) \in Nat
  BY <1>4, FS_CardinalityType
<1> QED
  BY <1>4, <1>5, <1>6

LEMMA NothingMissing ==
  ASSUME faults' \in Nat, openTail' # {} => faults' > 0, Missing' = {}
  PROVE  SavedInv'
<1>1. Cardinality(Missing') = 0
  BY FS_EmptySet
<1>2. /\ Cardinality(Missing)' = Cardinality(Missing')
      /\ (sessionFile \in openTail)' => faults' > 0
  OBVIOUS
<1> QED
  BY <1>1, <1>2 DEF SavedInv

LEMMA NotSaved ==
  ASSUME openTail' # {} => faults' > 0, ~Saved'
  PROVE  SavedInv'
  BY DEF SavedInv

LEMMA FewerMissing ==
  ASSUME StoreInv, SavedInv, Saved, Missing' \subseteq Missing,
         sessionFile' = sessionFile, openTail' = openTail, faults' = faults,
         \A x \in ToSet(disk[sessionFile]) : x \in ToSet(disk'[sessionFile])
  PROVE  SavedInv'
<1>1. /\ Cardinality(Missing) \in Nat /\ Cardinality(Missing') \in Nat
      /\ Cardinality(Missing') <= Cardinality(Missing)
  BY MissingFinite
<1>2. faults \in Nat
  BY MemoryTypes
<1>3. Torn(sessionFile) => Torn(sessionFile)'
  BY DEF Torn
<1>4. Torn(sessionFile)' <=> (sessionFile' \in openTail' \/ Garbage \in ToSet(disk'[sessionFile']))
  BY DEF Torn
<1>5. SavedInv' <=>
        /\ openTail' # {} => faults' > 0
        /\ Saved' =>
             /\ ~Torn(sessionFile)' => Missing' = {}
             /\ Cardinality(Missing') <= 2 * faults'
             /\ sessionFile' \in openTail' => Cardinality(Missing') <= 2 * (faults' - 1)
  BY DEF SavedInv
<1>6. /\ openTail # {} => faults > 0
      /\ ~Torn(sessionFile) => Missing = {}
      /\ Cardinality(Missing) <= 2 * faults
      /\ sessionFile \in openTail => Cardinality(Missing) <= 2 * (faults - 1)
  BY DEF SavedInv
<1>7. ~Torn(sessionFile)' => Missing' = {}
  BY <1>3, <1>6
<1>8. Cardinality(Missing') <= 2 * faults'
  BY <1>1, <1>2, <1>6
<1>9. sessionFile' \in openTail' => Cardinality(Missing') <= 2 * (faults' - 1)
  BY <1>1, <1>2, <1>6
<1>10. openTail' # {} => faults' > 0
  BY <1>6
<1> QED
  BY <1>5, <1>7, <1>8, <1>9, <1>10

\* What Missing is after a step.
LEMMA MissingNext ==
  Missing' = ToSet(fileEntries') \ (ToSet(disk'[sessionFile']) \union ToSet(pending') \union failed')
  BY DEF Missing

LEMMA AppendedSet ==
  ASSUME NEW A, NEW s \in Seq(A), NEW x \in A
  PROVE  ToSet(Append(s, x)) = ToSet(s) \union {x}
<1> DEFINE t == Append(s, x)
<1>1. /\ Len(s) \in Nat /\ DOMAIN s = 1..Len(s) /\ DOMAIN t = 1..Len(s) + 1
      /\ t[Len(s) + 1] = x /\ \A i \in 1..Len(s) : t[i] = s[i]
  OBVIOUS
<1> HIDE DEF t
<1>2. \A i \in DOMAIN t : i \in DOMAIN s \/ i = Len(s) + 1
  BY <1>1
<1>3. \A i \in DOMAIN s : i \in DOMAIN t /\ t[i] = s[i]
  BY <1>1
<1>4. Len(s) + 1 \in DOMAIN t
  BY <1>1
<1>5. ToSet(t) \subseteq ToSet(s) \union {x}
  BY <1>1, <1>2, <1>3 DEF ToSet
<1>6. ToSet(s) \subseteq ToSet(t) /\ x \in ToSet(t)
  BY <1>1, <1>3, <1>4 DEF ToSet
<1>7. ToSet(t) = ToSet(s) \union {x}
  BY <1>5, <1>6
<1> QED
  BY <1>7 DEF t

LEMMA SavedAdded ==
  ASSUME StoreInv, SavedInv, NEW e, EntryAdded(e)
  PROVE  SavedInv'
<1> DEFINE n == Len(log)
<1>1. /\ fileEntries' = Append(fileEntries, n + 1)
      /\ alive /\ pending = <<>>
      /\ sessionFile' = sessionFile /\ disk' = disk /\ openTail' = openTail
      /\ failed' = failed /\ faults' = faults
  BY EntryAddedIs
<1>2. \/ ~AssistantIn(log', fileEntries') /\ flushed' = FALSE /\ pending' = <<>>
      \/ AssistantIn(log', fileEntries') /\ flushed' = flushed
         /\ pending' = IF flushed THEN <<n + 1>> ELSE fileEntries'
  BY EntryAddedIs
<1>3. n \in Nat /\ fileEntries \in Seq(Int) /\ flushed \in BOOLEAN /\ faults \in Nat
  BY MemoryTypes, MemoryList
<1>4. ToSet(fileEntries') = ToSet(fileEntries) \union {n + 1}
  BY <1>1, <1>3, AppendedSet
<1>5. openTail' # {} => faults' > 0
  BY <1>1 DEF SavedInv
<1>6. CASE ~AssistantIn(log', fileEntries') /\ flushed' = FALSE /\ pending' = <<>>
  BY <1>5, <1>6, NotSaved DEF Saved
<1>7. CASE pending' = fileEntries'
  <2>1. Missing' = {}
    BY <1>7, MissingNext
  <2> QED
    BY <1>1, <1>3, <1>5, <2>1, NothingMissing
<1>8. CASE flushed /\ pending' = <<n + 1>>
  <2>1. n + 1 \in ToSet(pending')
    <3>1. 1 \in DOMAIN <<n + 1>> /\ <<n + 1>>[1] = n + 1
      OBVIOUS
    <3> QED
      BY <1>8, <3>1 DEF ToSet
  <2>2. ToSet(pending) = {}
    BY <1>1 DEF ToSet
  <2>3. Missing' \subseteq Missing
    BY <1>1, <1>4, <2>1, <2>2, MissingNext DEF Missing
  <2> QED
    BY <1>1, <1>8, <2>3, FewerMissing DEF Saved
<1> QED
  BY <1>2, <1>3, <1>6, <1>7, <1>8

\* A step that changes nothing of what SavedInv speaks of.
LEMMA SavedSame ==
  ASSUME SavedInv,
         UNCHANGED <<log, fileEntries, flushed, sessionFile, disk, openTail, pending, failed, faults>>
  PROVE  SavedInv'
  BY DEF SavedInv, Saved, Missing, Torn

LEMMA SavedMoved ==
  ASSUME SavedInv, LeafMoved \/ \E f \in Files : TouchFile(f)
  PROVE  SavedInv'
<1>1. CASE LeafMoved
  BY <1>1, SavedSame DEF LeafMoved, files, bounds
<1>2. CASE \E f \in Files : TouchFile(f)
  BY <1>2, SavedSame DEF TouchFile, memory, bounds
<1> QED
  BY <1>1, <1>2

\* A session with a header alone is not written down.
LEMMA HeaderNotSaved == \A tree : ~AssistantIn(tree, <<Header>>)
<1>1. DOMAIN <<Header>> = {1} /\ <<Header>>[1] = Header
  OBVIOUS
<1>2. Ids(<<Header>>) = {}
  BY <1>1 DEF Ids, ToSet
<1> QED
  BY <1>2 DEF AssistantIn

LEMMA SavedStarted ==
  ASSUME StoreInv, SavedInv, Started \/ Crash
  PROVE  SavedInv'
<1>1. fileEntries' = <<Header>> /\ flushed' = FALSE /\ pending' = <<>>
  BY DEF Started, Crash, Fresh
<1>2. ~Saved'
  BY <1>1, HeaderNotSaved DEF Saved
<1>3. openTail' # {} => faults' > 0
  <2>1. CASE Started
    BY <2>1 DEF Started, files, bounds, SavedInv
  <2>2. CASE Crash
    <3>1. faults' = faults + 1 /\ faults \in Nat
      BY <2>2, MemoryTypes DEF Crash
    <3> QED
      BY <3>1
  <2> QED
    BY <2>1, <2>2
<1> QED
  BY <1>2, <1>3, NotSaved

LEMMA SavedForked ==
  ASSUME StoreInv, SavedInv, NEW id \in 1..Len(log), CreateBranchedSession(id)
  PROVE  SavedInv'
<1> DEFINE path == ForkPath(id)
<1>1. /\ sessionFile' \in FreshFiles /\ pending = <<>>
      /\ \/ /\ HasAssistant(path) /\ Truncate(sessionFile')
            /\ pending' = fileEntries' /\ flushed' = flushed
         \/ /\ ~HasAssistant(path) /\ UNCHANGED <<files, pending>> /\ flushed' = FALSE
      /\ faults' = faults
  BY ForkStep DEF ForkWritesNow, Idle, bounds
<1>2. faults \in Nat
  BY MemoryTypes
<1> HIDE DEF path
<1>3. CASE Truncate(sessionFile') /\ pending' = fileEntries'
  <2>1. openTail' = openTail
    BY <1>1, <1>3, Created
  <2>2. Missing' = {}
    BY <1>3, MissingNext
  <2> QED
    BY <1>1, <1>2, <2>1, <2>2, NothingMissing DEF SavedInv
<1>4. CASE ~HasAssistant(path) /\ UNCHANGED <<files, pending>> /\ flushed' = FALSE
  <2>1. ~AssistantIn(log', fileEntries')
    <3>1. AssistantIn(log', fileEntries') => AssistantIn(log, ForkPath(id))
      BY ForkAssistant
    <3> QED
      BY <1>4, <3>1, AssistantIs DEF path
  <2>2. ~Saved'
    BY <1>1, <1>4, <2>1 DEF Saved
  <2>3. openTail' = openTail
    BY <1>4 DEF files
  <2> QED
    BY <1>1, <2>2, <2>3, NotSaved DEF SavedInv
<1> QED
  BY <1>1, <1>3, <1>4

\* What is read from a file is in it.
LEMMA LoadedIn ==
  ASSUME StoreInv, NEW f \in Files
  PROVE  ToSet(Loaded(f)) \subseteq ToSet(disk[f])
<1>1. disk[f] \in Seq(Int)
  BY FileTypes
<1>2. ToSet(Parsed(f)) \subseteq ToSet(disk[f])
  BY <1>1, OnlyElements DEF Parsed
<1>3. Loaded(f) = Parsed(f) \/ Loaded(f) = <<>>
  BY DEF Loaded
<1>4. ToSet(<<>>) = {}
  BY DEF ToSet
<1> QED
  BY <1>2, <1>3, <1>4

LEMMA SavedOpened ==
  ASSUME StoreInv, SavedInv, NEW f \in Files, Emptied(f) \/ Opened(f) \/ Converted(f) \/ Copied(f)
  PROVE  SavedInv'
<1>1. faults' = faults /\ faults \in Nat
  BY MemoryTypes DEF Emptied, Opened, Converted, Copied, bounds
<1>2. openTail' \subseteq openTail
  BY DEF Emptied, Opened, Converted, Copied, Truncate, files
<1>3. Missing' = {}
  <2>1. CASE Opened(f)
    <3>1. fileEntries' = Loaded(f) /\ sessionFile' = f /\ disk' = disk
      BY <2>1 DEF Opened, files
    <3> QED
      BY <3>1, LoadedIn, MissingNext
  <2>2. CASE Emptied(f) \/ Converted(f) \/ Copied(f)
    <3>1. pending' = fileEntries'
      BY <2>2 DEF Emptied, Converted, Copied, Fresh
    <3> QED
      BY <3>1, MissingNext
  <2> QED
    BY <2>1, <2>2
<1>4. openTail' # {} => faults' > 0
  BY <1>1, <1>2 DEF SavedInv
<1> QED
  BY <1>1, <1>3, <1>4, NothingMissing

\* The items of a list are the first and the rest, or the last and the rest.
LEMMA HeadOrTail ==
  ASSUME NEW s \in Seq(Int), s # <<>>
  PROVE  ToSet(s) = {Head(s)} \union ToSet(Tail(s))
<1>1. \A x, y \in Seq(Int) : x \o y \in Seq(Int)
  OBVIOUS
<1>2. s = <<Head(s)>> \o Tail(s) /\ <<Head(s)>> \in Seq(Int) /\ Tail(s) \in Seq(Int)
  BY HeadTailProperties
<1>3. ToSet(<<Head(s)>>) = {Head(s)}
  <2>1. DOMAIN <<Head(s)>> = {1} /\ <<Head(s)>>[1] = Head(s)
    OBVIOUS
  <2> QED
    BY <2>1 DEF ToSet
<1> DEFINE a == <<Head(s)>>
           b == Tail(s)
<1>4. a \in Seq(Int) /\ b \in Seq(Int) /\ s = a \o b
  BY <1>2
<1> HIDE DEF a, b
<1>5. ToSet(a \o b) = ToSet(a) \union ToSet(b)
  BY <1>4, JoinedAll
<1> QED
  BY <1>3, <1>4, <1>5 DEF a, b

LEMMA LastOrFront ==
  ASSUME NEW s \in Seq(Int)
  PROVE  ToSet(s) \subseteq {Last(s)} \union ToSet(Front(s))
<1>1. Len(s) \in Nat /\ DOMAIN s = 1..Len(s)
  OBVIOUS
<1> DEFINE t == SubSeq(s, 1, Len(s) - 1)
<1>2. DOMAIN t = 1..Len(s) - 1 /\ \A i \in 1..Len(s) - 1 : t[i] = s[i]
  BY <1>1
<1>3. Front(s) = t /\ Last(s) = s[Len(s)]
  BY DEF Front, Last
<1> HIDE DEF t
<1>4. ASSUME NEW i \in DOMAIN s PROVE s[i] = s[Len(s)] \/ s[i] \in ToSet(t)
  <2>1. CASE i = Len(s)
    BY <2>1
  <2>2. CASE i # Len(s)
    <3>1. i \in DOMAIN t /\ t[i] = s[i]
      BY <1>1, <1>2, <2>2
    <3> QED
      BY <3>1 DEF ToSet
  <2> QED
    BY <2>1, <2>2
<1>5. ToSet(s) \subseteq {s[Len(s)]} \union ToSet(t)
  BY <1>4 DEF ToSet
<1> QED
  BY <1>3, <1>5

LEMMA SavedWritten ==
  ASSUME StoreInv, SavedInv, WriteLine
  PROVE  SavedInv'
<1> DEFINE d == disk[sessionFile]
           e == disk'[sessionFile]
<1>1. /\ pending # <<>> /\ pending' = Tail(pending)
      /\ e = IF sessionFile \in openTail THEN Append(Front(d), Garbage) ELSE Append(d, Head(pending))
      /\ openTail' = openTail \ {sessionFile}
      /\ fileEntries' = fileEntries /\ sessionFile' = sessionFile /\ failed' = failed /\ faults' = faults
  BY WriteLineIs
<1>2. d \in Seq(Int) /\ pending \in Seq(Int) /\ sessionFile \in Files /\ faults \in Nat
  BY FileTypes, MemoryList, MemoryTypes
<1>3. Saved
  BY <1>1 DEF Saved
<1>4. ToSet(pending) = {Head(pending)} \union ToSet(pending') /\ Head(pending) \in Int
  BY <1>1, <1>2, HeadOrTail
<1> HIDE DEF d, e
<1>5. /\ Missing = ToSet(fileEntries) \ (ToSet(d) \union ToSet(pending) \union failed)
      /\ Missing' = ToSet(fileEntries) \ (ToSet(e) \union ToSet(pending') \union failed)
  BY <1>1, MissingNext DEF Missing, d, e
<1>6. CASE sessionFile \notin openTail
  <2>1. ToSet(e) = ToSet(d) \union {Head(pending)}
    BY <1>1, <1>2, <1>4, <1>6, AppendedSet
  <2>2. Missing' \subseteq Missing
    BY <1>4, <1>5, <2>1
  <2>3. openTail' = openTail
    BY <1>1, <1>6
  <2>4. \A x \in ToSet(disk[sessionFile]) : x \in ToSet(disk'[sessionFile])
    BY <2>1 DEF d, e
  <2> QED
    BY <1>1, <1>3, <2>2, <2>3, <2>4, FewerMissing
<1>7. CASE sessionFile \in openTail
  <2>1. ToSet(e) = ToSet(Front(d)) \union {Garbage}
    <3>1. Front(d) \in Seq(Int)
      <4>1. Len(d) \in Nat /\ Len(d) - 1 \in Int /\ 1 \in Int /\ \A i \in 1..Len(d) - 1 : d[i] \in Int
        BY <1>2
      <4>2. SubSeq(d, 1, Len(d) - 1) \in Seq(Int)
        BY <4>1, SubSeqProperties
      <4> QED
        BY <4>2 DEF Front
    <3>2. Garbage \in Int
      BY DEF Garbage
    <3> HIDE DEF Garbage
    <3> QED
      BY <1>1, <1>7, <3>1, <3>2, AppendedSet
  <2>2. ToSet(d) \subseteq {Last(d)} \union ToSet(Front(d))
    BY <1>2, LastOrFront
  <2> DEFINE a == Last(d)
             b == Head(pending)
  <2>3. Missing' \subseteq (Missing \union {a}) \union {b}
    BY <1>4, <1>5, <2>1, <2>2
  <2> HIDE DEF a, b
  <2>4. Cardinality(Missing') <= Cardinality(Missing) + 2 /\ Cardinality(Missing') \in Nat /\ Cardinality(Missing) \in Nat
    <3>1. IsFiniteSet(Missing) /\ Cardinality(Missing) \in Nat
      BY MissingFinite
    <3>2. IsFiniteSet(Missing \union {a}) /\ Cardinality(Missing \union {a}) <= Cardinality(Missing) + 1
      BY <3>1, FS_AddElement
    <3>3. Cardinality(Missing \union {a}) \in Nat
      BY <3>2, FS_CardinalityType
    <3> DEFINE M == Missing \union {a}
    <3>4. IsFiniteSet(M) /\ Cardinality(M) <= Cardinality(Missing) + 1 /\ Cardinality(M) \in Nat
      BY <3>2, <3>3
    <3>5. Missing' \subseteq M \union {b}
      BY <2>3
    <3> HIDE DEF M
    <3>6. IsFiniteSet(M \union {b}) /\ Cardinality(M \union {b}) <= Cardinality(M) + 1
      BY <3>4, FS_AddElement
    <3>7. Cardinality(M \union {b}) \in Nat
      BY <3>6, FS_CardinalityType
    <3>8. IsFiniteSet(Missing') /\ Cardinality(Missing') <= Cardinality(M \union {b})
      BY <3>5, <3>6, FS_Subset
    <3>9. Cardinality(Missing') \in Nat
      BY <3>8, FS_CardinalityType
    <3> QED
      BY <3>1, <3>4, <3>6, <3>7, <3>8, <3>9
  <2>5. Cardinality(Missing) <= 2 * (faults - 1) /\ faults > 0
    BY <1>3, <1>7 DEF SavedInv
  <2>6. Cardinality(Missing') <= 2 * faults'
    BY <1>1, <1>2, <2>4, <2>5
  <2>7. Torn(sessionFile)'
    <3>1. Torn(sessionFile)' <=> (sessionFile' \in openTail' \/ Garbage \in ToSet(disk'[sessionFile']))
      BY DEF Torn
    <3> QED
      BY <1>1, <2>1, <3>1 DEF e
  <2>8. sessionFile' \notin openTail' /\ faults' > 0
    BY <1>1, <2>5
  <2> QED
    BY <2>6, <2>7, <2>8 DEF SavedInv
<1> QED
  BY <1>6, <1>7

\* What an interrupted write leaves of the file of the session.
LEMMA InterruptedIs ==
  ASSUME StoreInv, Interrupted
  PROVE  /\ \A f \in Files : f # sessionFile => disk'[f] = disk[f]
         /\ \/ UNCHANGED <<disk, present, openTail>>
            \/ /\ scope.tear /\ pending # <<>> /\ sessionFile \notin openTail
               /\ \E x \in {Garbage, Head(pending)} : disk'[sessionFile] = Append(disk[sessionFile], x)
               /\ present' = present \union {sessionFile}
               /\ openTail' = openTail \union {sessionFile}
<1>1. disk = [f \in Files |-> disk[f]] /\ sessionFile \in Files
  BY DEF StoreInv, TypeOK
<1>2. CASE UNCHANGED files
  BY <1>2 DEF files
<1>3. CASE ~UNCHANGED files
  <2>1. /\ scope.tear /\ pending # <<>> /\ sessionFile \notin openTail
        /\ present' = present \union {sessionFile} /\ openTail' = openTail \union {sessionFile}
    BY <1>3 DEF Interrupted
  <2>2. PICK x \in {Garbage, Head(pending)} : disk' = [disk EXCEPT ![sessionFile] = Append(@, x)]
    BY <1>3 DEF Interrupted
  <2>3. disk'[sessionFile] = Append(disk[sessionFile], x) /\ \A f \in Files : f # sessionFile => disk'[f] = disk[f]
    BY <1>1, <2>2
  <2> QED
    BY <2>1, <2>3
<1> QED
  BY <1>2, <1>3

LEMMA SavedFailed ==
  ASSUME StoreInv, SavedInv, WriteFails
  PROVE  SavedInv'
<1> DEFINE d == disk[sessionFile]
           e == disk'[sessionFile]
<1>1. /\ pending # <<>> /\ failed' = failed \union ToSet(pending) /\ pending' = <<>>
      /\ faults' = faults + 1 /\ Interrupted
      /\ fileEntries' = fileEntries /\ sessionFile' = sessionFile /\ flushed' = flushed /\ log' = log
  BY DEF WriteFails, memory
<1>2. d \in Seq(Int) /\ pending \in Seq(Int) /\ sessionFile \in Files /\ faults \in Nat
  BY FileTypes, MemoryList, MemoryTypes
<1>3. Saved
  BY <1>1 DEF Saved
<1>4. /\ \/ UNCHANGED <<disk, openTail>>
         \/ \E x \in {Garbage, Head(pending)} : e = Append(d, x)
      /\ openTail' \subseteq openTail \union {sessionFile} /\ openTail \subseteq openTail'
  BY <1>1, InterruptedIs
<1> HIDE DEF d, e
<1>5. ToSet(d) \subseteq ToSet(e)
  <2>1. CASE UNCHANGED disk
    BY <2>1 DEF d, e
  <2>2. CASE \E x \in {Garbage, Head(pending)} : e = Append(d, x)
    <3>1. PICK x \in {Garbage, Head(pending)} : e = Append(d, x)
      BY <2>2
    <3>2. x \in Int
      BY <1>1, <1>2, HeadOrTail DEF Garbage
    <3> QED
      BY <1>2, <3>1, <3>2, AppendedSet, SMTT(20), ZenonT(20)
  <2> QED
    BY <1>4, <2>1, <2>2
<1>6. Missing' \subseteq Missing
  <2>1. /\ Missing = ToSet(fileEntries) \ (ToSet(d) \union ToSet(pending) \union failed)
        /\ Missing' = ToSet(fileEntries) \ (ToSet(e) \union ToSet(pending') \union failed')
    BY <1>1, MissingNext DEF Missing, d, e
  <2> QED
    BY <1>1, <1>5, <2>1
<1>7. /\ Cardinality(Missing) \in Nat /\ Cardinality(Missing') \in Nat
      /\ Cardinality(Missing') <= Cardinality(Missing)
  BY <1>6, MissingFinite
<1>8. Torn(sessionFile) => Torn(sessionFile)'
  <2>1. Torn(sessionFile)' <=> (sessionFile' \in openTail' \/ Garbage \in ToSet(disk'[sessionFile']))
    BY DEF Torn
  <2>2. Torn(sessionFile) <=> (sessionFile \in openTail \/ Garbage \in ToSet(d))
    BY DEF Torn, d
  <2> QED
    BY <1>1, <1>4, <1>5, <2>1, <2>2 DEF e
<1>9. Cardinality(Missing) <= 2 * faults /\ (~Torn(sessionFile) => Missing = {})
  BY <1>3 DEF SavedInv
<1>10. ~Torn(sessionFile)' => Missing' = {}
  BY <1>6, <1>8, <1>9
<1>11. Cardinality(Missing') <= 2 * faults' /\ Cardinality(Missing') <= 2 * (faults' - 1) /\ faults' > 0
  BY <1>1, <1>2, <1>7, <1>9
<1>12. SavedInv' <=>
         /\ openTail' # {} => faults' > 0
         /\ Saved' =>
              /\ ~Torn(sessionFile)' => Missing' = {}
              /\ Cardinality(Missing') <= 2 * faults'
              /\ sessionFile' \in openTail' => Cardinality(Missing') <= 2 * (faults' - 1)
  BY DEF SavedInv
<1> QED
  BY <1>10, <1>11, <1>12

LEMMA SavedInit == Init => SavedInv
<1> SUFFICES ASSUME Init PROVE SavedInv
  OBVIOUS
<1>1. fileEntries = <<Header>> /\ flushed = FALSE /\ openTail = {} /\ pending = <<>>
  BY DEF Init
<1> QED
  BY <1>1, HeaderNotSaved DEF SavedInv, Saved

LEMMA SavedStep ==
  ASSUME StoreInv, SavedInv, [Next]_vars
  PROVE  SavedInv'
<1>1. StepKind
  BY Steps
<1>2. ASSUME NEW e, EntryAdded(e) PROVE SavedInv'
  BY <1>2, SavedAdded
<1>3. ASSUME LeafMoved \/ \E f \in Files : TouchFile(f) PROVE SavedInv'
  BY <1>3, SavedMoved
<1>4. ASSUME NEW id \in 1..Len(log), CreateBranchedSession(id) PROVE SavedInv'
  BY <1>4, SavedForked
<1>5. ASSUME Started \/ Crash PROVE SavedInv'
  BY <1>5, SavedStarted
<1>6. ASSUME NEW f \in Files, Emptied(f) \/ Opened(f) \/ Converted(f) \/ Copied(f) PROVE SavedInv'
  BY <1>6, SavedOpened
<1>7. ASSUME WriteLine \/ WriteFails PROVE SavedInv'
  BY <1>7, SavedWritten, SavedFailed
<1> QED
  BY <1>1, <1>2, <1>3, <1>4, <1>5, <1>6, <1>7 DEF StepKind

\* Once a session has an assistant message, each of its entries is on disk, about
\* to be written by the method that is running, or in a write that failed; and
\* where a line was cut short, at most two entries for each fault are not: the
\* line that lost its end and the one that was written onto it.
THEOREM DurableAlways == Spec => []Durable
<1>1. StoreInv /\ SavedInv => Durable
  <2> SUFFICES ASSUME SavedInv, HasAssistant(fileEntries)
               PROVE  (~Torn(sessionFile) => Missing = {}) /\ Cardinality(Missing) <= 2 * faults
    BY DEF Durable, Missing, Written
  <2>1. Saved
    BY AssistantIs DEF Saved
  <2> QED
    BY <2>1 DEF SavedInv
<1>2. StoreInv /\ SavedInv /\ [Next]_vars => SavedInv'
  BY SavedStep
<1> QED
  BY <1>1, <1>2, SavedInit, StoreInvariant, PTL DEF Spec

-----------------------------------------------------------------------------
(* A reload finds what is in memory *)

\* The last item the filter keeps is the last item of the list that is in the set.
LEMMA OnlyLast ==
  ASSUME NEW s \in Seq(Int), NEW S, NEW k \in 1..Len(s), s[k] \in S,
         \A j \in 1..Len(s) : k < j => s[j] \notin S
  PROVE  Only(s, S) # <<>> /\ Last(Only(s, S)) = s[k]
<1> DEFINE f == OnlyUpTo(s, S)
<1>1. /\ f[0] = <<>>
      /\ \A i \in 1..Len(s) : f[i] = IF s[i] \in S THEN Append(f[i - 1], s[i]) ELSE f[i - 1]
  BY OnlyUpToIs
<1>2. Len(s) \in Nat
  OBVIOUS
<1>3. \A i \in 0..Len(s) : f[i] \in Seq(Int)
  <2>1. PICK g : OnlySoFar(g, Len(s), s, S)
    BY OnlyExists
  <2>2. /\ g \in [0..Len(s) -> Seq(Int)] /\ g[0] = <<>>
        /\ \A i \in 1..Len(s) : g[i] = IF s[i] \in S THEN Append(g[i - 1], s[i]) ELSE g[i - 1]
    BY <2>1 DEF OnlySoFar
  <2> HIDE DEF f
  <2> DEFINE Bad == {i \in Nat : i <= Len(s) /\ f[i] # g[i]}
  <2>3. Bad = {}
    <3> SUFFICES ASSUME Bad # {} PROVE FALSE
      OBVIOUS
    <3>1. PICK i \in Bad : \A j \in Bad : i <= j
      <4>1. Bad \in SUBSET Nat
        OBVIOUS
      <4> QED
        BY <4>1, LeastNat
    <3>2. i \in Nat /\ i <= Len(s) /\ f[i] # g[i]
      OBVIOUS
    <3>3. i # 0
      BY <1>1, <2>2, <3>2
    <3>4. i - 1 \in Nat /\ i - 1 <= Len(s) /\ i - 1 < i /\ i \in 1..Len(s)
      BY <1>2, <3>2, <3>3
    <3>5. i - 1 \notin Bad
      <4> HIDE DEF Bad
      <4> QED
        BY <3>1, <3>2, <3>4
    <3>6. f[i - 1] = g[i - 1]
      BY <3>4, <3>5
    <3> QED
      BY <1>1, <2>2, <3>2, <3>4, <3>6
  <2>4. ASSUME NEW i \in 0..Len(s) PROVE f[i] = g[i]
    <3>1. i \in Nat /\ i <= Len(s)
      BY <1>2
    <3>2. i \notin Bad
      <4> HIDE DEF Bad
      <4> QED
        BY <2>3
    <3> QED
      BY <3>1, <3>2
  <2> QED
    BY <2>2, <2>4
<1> HIDE DEF f
<1>4. k - 1 \in 0..Len(s) /\ k \in Nat
  BY <1>2
<1>5. f[k] = Append(f[k - 1], s[k])
  BY <1>1
<1> DEFINE Bad == {j \in Nat : k <= j /\ j <= Len(s) /\ f[j] # f[k]}
<1>6. Bad = {}
  <2> SUFFICES ASSUME Bad # {} PROVE FALSE
    OBVIOUS
  <2>1. PICK j \in Bad : \A i \in Bad : j <= i
    <3>1. Bad \in SUBSET Nat
      OBVIOUS
    <3> QED
      BY <3>1, LeastNat
  <2>2. j \in Nat /\ k <= j /\ j <= Len(s) /\ f[j] # f[k]
    OBVIOUS
  <2>3. j # k
    BY <2>2
  <2>4. j - 1 \in Nat /\ k <= j - 1 /\ j - 1 <= Len(s) /\ j - 1 < j /\ j \in 1..Len(s) /\ k < j
    BY <1>2, <1>4, <2>2, <2>3
  <2>5. j - 1 \notin Bad
    <3> HIDE DEF Bad
    <3> QED
      BY <2>1, <2>2, <2>4
  <2>6. f[j - 1] = f[k]
    BY <2>4, <2>5
  <2>7. f[j] = f[j - 1]
    BY <1>1, <2>4
  <2> QED
    BY <2>2, <2>6, <2>7
<1>7. f[Len(s)] = f[k]
  BY <1>2, <1>4, <1>6
<1>8. f[k - 1] \in Seq(Int) /\ s[k] \in Int
  BY <1>3, <1>4
<1>9. Append(f[k - 1], s[k]) # <<>> /\ Last(Append(f[k - 1], s[k])) = s[k]
  <2> DEFINE a == f[k - 1]
             t == Append(a, s[k])
  <2>1. a \in Seq(Int) /\ Len(a) \in Nat
    BY <1>8
  <2>2. Len(t) = Len(a) + 1 /\ t[Len(a) + 1] = s[k]
    BY <1>8, <2>1
  <2> HIDE DEF t
  <2>3. t # <<>> /\ Last(t) = s[k]
    BY <2>1, <2>2 DEF Last
  <2> QED
    BY <2>3 DEF t
<1>10. Only(s, S) = f[Len(s)]
  BY DEF Only, f
<1> QED
  BY <1>5, <1>7, <1>9, <1>10

\* A set of positions that is not empty has a last one.
LEMMA LastPosition ==
  ASSUME NEW n \in Nat, NEW T \in SUBSET (1..n), T # {}
  PROVE  \E m \in T : \A k \in T : k <= m
<1> DEFINE U == {i \in Nat : n - i \in T}
<1>1. U \in SUBSET Nat /\ U # {}
  <2>1. PICK k \in T : TRUE
    OBVIOUS
  <2>2. n - k \in Nat /\ n - (n - k) = k
    OBVIOUS
  <2>3. n - k \in U
    BY <2>2
  <2> QED
    BY <2>3
<1>2. PICK i \in U : \A j \in U : i <= j
  BY <1>1, LeastNat
<1>3. i \in Nat /\ n - i \in T
  OBVIOUS
<1>4. ASSUME NEW k \in T PROVE k <= n - i
  <2>1. n - k \in Nat /\ n - (n - k) = k /\ k \in Nat
    OBVIOUS
  <2>2. n - k \in U
    BY <2>1
  <2>3. i <= n - k
    BY <1>2, <2>2
  <2> QED
    BY <1>3, <2>1, <2>3
<1> QED
  BY <1>3, <1>4

\* Lines that are repeated before the list of entries change nothing of what a
\* reader makes of it.
LEMMA RepeatedLines ==
  ASSUME NEW tree, NEW skipped, NEW pre \in Seq(Int), NEW s \in Seq(Int), ToSet(pre) \subseteq ToSet(s),
         Ids(s) # {}
  PROVE  /\ Ids(pre \o s) = Ids(s)
         /\ LastId(pre \o s) = LastId(s)
         /\ LabelsIn(tree, pre \o s, skipped) = LabelsIn(tree, s, skipped)
<1> DEFINE t == pre \o s
           p == Len(pre)
<1>1. t \in Seq(Int) /\ Len(t) = p + Len(s)
  BY Joined
<1>2. \A i \in 1..p : t[i] = pre[i]
  BY Joined
<1>3. \A k \in 1..Len(s) : t[p + k] = s[k]
  BY Joined
<1>4. ToSet(t) = ToSet(s)
  <2>1. ToSet(t) = ToSet(pre) \union ToSet(s)
    BY JoinedAll
  <2> QED
    BY <2>1
<1>5. p \in Nat /\ Len(s) \in Nat /\ DOMAIN s = 1..Len(s) /\ DOMAIN pre = 1..p
  OBVIOUS
<1> HIDE DEF t, p
<1>6. DOMAIN t = 1..Len(t)
  BY <1>1
<1>7. Ids(t) = Ids(s)
  BY <1>4 DEF Ids
<1>8. \A k \in 1..Len(s) : p + k \in 1..Len(t)
  BY <1>1, <1>5
<1>9. ASSUME NEW i \in 1..Len(t)
      PROVE  \/ i \in 1..p /\ t[i] = pre[i]
             \/ i - p \in 1..Len(s) /\ i = p + (i - p) /\ t[i] = s[i - p]
  <2>1. i \in 1..p \/ (i - p \in 1..Len(s) /\ i = p + (i - p))
    BY <1>1, <1>5
  <2> QED
    BY <1>2, <1>3, <2>1
<1>10. LastId(t) = LastId(s)
  <2> DEFINE S == Ids(s)
             T == {k \in 1..Len(s) : s[k] \in S}
  <2>1. T \in SUBSET (1..Len(s)) /\ T # {}
    <3>1. PICK x : x \in S
      OBVIOUS
    <3>2. PICK k \in DOMAIN s : s[k] = x
      BY <3>1 DEF Ids, ToSet
    <3> QED
      BY <1>5, <3>1, <3>2
  <2>2. PICK m \in T : \A k \in T : k <= m
    BY <1>5, <2>1, LastPosition
  <2>3. m \in 1..Len(s) /\ s[m] \in S
    OBVIOUS
  <2>4. \A j \in 1..Len(s) : m < j => s[j] \notin S
    <3> SUFFICES ASSUME NEW j \in 1..Len(s), m < j, s[j] \in S PROVE FALSE
      OBVIOUS
    <3>1. j \in T
      OBVIOUS
    <3>2. j <= m
      BY <2>2, <3>1
    <3> QED
      BY <1>5, <2>3, <3>2
  <2>5. Only(s, S) # <<>> /\ Last(Only(s, S)) = s[m]
    BY <2>3, <2>4, OnlyLast
  <2>6. p + m \in 1..Len(t) /\ t[p + m] = s[m]
    BY <1>3, <1>8, <2>3
  <2>7. \A j \in 1..Len(t) : p + m < j => t[j] \notin S
    <3> SUFFICES ASSUME NEW j \in 1..Len(t), p + m < j PROVE t[j] \notin S
      OBVIOUS
    <3>1. j \notin 1..p
      BY <1>5, <2>3
    <3>2. j - p \in 1..Len(s) /\ t[j] = s[j - p]
      BY <1>9, <3>1
    <3>3. m < j - p
      BY <1>5, <2>3
    <3> QED
      BY <2>4, <3>2, <3>3
  <2>8. Only(t, S) # <<>> /\ Last(Only(t, S)) = s[m]
    <3>1. t[p + m] \in S
      BY <2>3, <2>6
    <3> HIDE DEF S, T
    <3> DEFINE q == p + m
    <3>2. q \in 1..Len(t) /\ t[q] \in S /\ \A j \in 1..Len(t) : q < j => t[j] \notin S
      BY <2>6, <2>7, <3>1
    <3> HIDE DEF q
    <3>3. Only(t, S) # <<>> /\ Last(Only(t, S)) = t[q]
      BY <1>1, <3>2, OnlyLast
    <3> QED
      BY <2>6, <3>3 DEF q
  <2> QED
    BY <1>7, <2>5, <2>8 DEF LastId
<1>11. LabelsIn(tree, t, skipped) = LabelsIn(tree, s, skipped)
  <2> DEFINE About(x, a) == x # Header /\ x \notin skipped /\ tree[x].kind = "label" /\ tree[x].ref = a
  <2>1. \A u : LabelsIn(tree, u, skipped) =
          {a \in 1..Len(tree) : \E k \in DOMAIN u : About(u[k], a) /\ tree[u[k]].on
                                   /\ \A m \in DOMAIN u : About(u[m], a) => m <= k}
    BY DEF LabelsIn
  <2> HIDE DEF About
  <2>2. ASSUME NEW a, NEW k \in DOMAIN s, About(s[k], a), tree[s[k]].on,
               \A m \in DOMAIN s : About(s[m], a) => m <= k
        PROVE  \E l \in DOMAIN t : About(t[l], a) /\ tree[t[l]].on
                                     /\ \A m \in DOMAIN t : About(t[m], a) => m <= l
    <3>1. p + k \in DOMAIN t /\ t[p + k] = s[k]
      BY <1>3, <1>5, <1>6, <1>8, <2>2
    <3>2. ASSUME NEW m \in DOMAIN t, About(t[m], a) PROVE m <= p + k
      <4>1. CASE m \in 1..p
        BY <1>5, <4>1
      <4>2. CASE m \notin 1..p
        <5>1. m - p \in DOMAIN s /\ t[m] = s[m - p]
          BY <1>5, <1>6, <1>9, <4>2
        <5>2. m - p <= k
          BY <2>2, <3>2, <5>1
        <5> QED
          BY <1>5, <1>6, <5>2
      <4> QED
        BY <4>1, <4>2
    <3> QED
      BY <2>2, <3>1, <3>2
  <2>3. ASSUME NEW a, NEW l \in DOMAIN t, About(t[l], a), tree[t[l]].on,
               \A m \in DOMAIN t : About(t[m], a) => m <= l
        PROVE  \E k \in DOMAIN s : About(s[k], a) /\ tree[s[k]].on
                                     /\ \A m \in DOMAIN s : About(s[m], a) => m <= k
    <3>1. l \notin 1..p
      <4> SUFFICES ASSUME l \in 1..p PROVE FALSE
        OBVIOUS
      <4>1. t[l] \in ToSet(s)
        BY <1>4, <2>3 DEF ToSet
      <4>2. PICK j \in DOMAIN s : s[j] = t[l]
        BY <4>1 DEF ToSet
      <4>3. p + j \in DOMAIN t /\ t[p + j] = s[j]
        BY <1>3, <1>5, <1>6, <1>8, <4>2
      <4>4. p + j <= l
        BY <2>3, <4>2, <4>3
      <4> QED
        BY <1>5, <4>2, <4>4
    <3>2. l - p \in DOMAIN s /\ t[l] = s[l - p]
      BY <1>5, <1>6, <1>9, <2>3, <3>1
    <3>3. ASSUME NEW m \in DOMAIN s, About(s[m], a) PROVE m <= l - p
      <4>1. p + m \in DOMAIN t /\ t[p + m] = s[m]
        BY <1>3, <1>5, <1>6, <1>8, <3>3
      <4>2. p + m <= l
        BY <2>3, <3>3, <4>1
      <4> QED
        BY <1>5, <1>6, <3>3, <4>2
    <3> QED
      BY <2>3, <3>2, <3>3
  <2>4. \A a : (\E k \in DOMAIN s : About(s[k], a) /\ tree[s[k]].on
                                     /\ \A m \in DOMAIN s : About(s[m], a) => m <= k)
           <=> (\E k \in DOMAIN t : About(t[k], a) /\ tree[t[k]].on
                                     /\ \A m \in DOMAIN t : About(t[m], a) => m <= k)
    BY <2>2, <2>3
  <2> QED
    BY <2>1, <2>4
<1> QED
  BY <1>7, <1>10, <1>11 DEF t

\* What is left of a list that was read starts with a header.
Starts(s) == s = <<>> \/ s[1] = Header

\* An entry of the list is neither on disk nor about to be written.
Lost(s, d, p) == \E e \in ToSet(s) : e \notin ToSet(d) /\ e \notin ToSet(p)

\* What is on disk and what is about to be written are the list, after lines of it
\* that an earlier attempt wrote.
Covered(s, d, p) ==
  \E pre \in Seq(Int) : d \o p = pre \o s /\ Starts(pre) /\ ToSet(pre) \subseteq ToSet(s)

LastIsNew(d, p) ==
  Last(p) \notin ToSet(d) /\ \A k \in 1..Len(p) - 1 : p[k] # Last(p)

\* The three ways in which the file of a session stands to its entries: an entry
\* was lost and the flag says that everything is written; the list still waits to
\* be written; the file follows the list.
GivenUp(tree, s, fl, d, p) == fl /\ AssistantIn(tree, s) /\ Lost(s, d, p)

Waiting(tree, s, fl, d, p) ==
  /\ ~fl /\ p = <<>> /\ Starts(d) /\ ToSet(d) \subseteq ToSet(s)
  /\ AssistantIn(tree, s) => Lost(s, d, p)

Following(tree, s, fl, on, d, p) ==
  /\ fl \/ p # <<>>
  /\ Covered(s, d, p)
  /\ on /\ p # <<>> => LastIsNew(d, p) /\ (fl => AssistantIn(tree, s))

\* What makes ReloadEquivalent inductive.
ReloadInv ==
  /\ fileEntries # <<>> /\ fileEntries[1] = Header
  /\ (alive \/ pending # <<>>) /\ ~Torn(sessionFile) =>
       \/ GivenUp(log, fileEntries, flushed, disk[sessionFile], pending)
       \/ Waiting(log, fileEntries, flushed, disk[sessionFile], pending)
       \/ Following(log, fileEntries, flushed, alive, disk[sessionFile], pending)

LEMMA ReloadNext ==
  ReloadInv' <=>
    /\ fileEntries' # <<>> /\ fileEntries'[1] = Header
    /\ (alive' \/ pending' # <<>>)
       /\ ~(sessionFile' \in openTail' \/ Garbage \in ToSet(disk'[sessionFile'])) =>
         \/ GivenUp(log', fileEntries', flushed', disk'[sessionFile'], pending')
         \/ Waiting(log', fileEntries', flushed', disk'[sessionFile'], pending')
         \/ Following(log', fileEntries', flushed', alive', disk'[sessionFile'], pending')
  BY DEF ReloadInv, Torn, GivenUp, Waiting, Following, Covered, Starts, Lost, LastIsNew, AssistantIn, Ids

LEMMA CoveredIs ==
  ASSUME NEW s \in Seq(Int), s # <<>>, s[1] = Header, NEW d \in Seq(Int), NEW p \in Seq(Int),
         Covered(s, d, p)
  PROVE  ToSet(d) \union ToSet(p) = ToSet(s) /\ Starts(d)
<1>1. PICK pre \in Seq(Int) : d \o p = pre \o s /\ Starts(pre) /\ ToSet(pre) \subseteq ToSet(s)
  BY DEF Covered
<1>2. ToSet(d) \union ToSet(p) = ToSet(pre) \union ToSet(s)
  <2>1. \A x, y \in Seq(Int) : ToSet(x \o y) = ToSet(x) \union ToSet(y)
    BY JoinedAll
  <2>2. ToSet(d \o p) = ToSet(d) \union ToSet(p)
    BY <2>1
  <2>3. ToSet(pre \o s) = ToSet(pre) \union ToSet(s)
    BY <2>1
  <2> QED
    BY <1>1, <2>2, <2>3
<1>3. \A x, y \in Seq(Int) : x # <<>> => (x \o y)[1] = x[1]
  OBVIOUS
<1>4. \A y \in Seq(Int) : <<>> \o y = y
  OBVIOUS
<1>5. (pre \o s)[1] = Header
  <2>1. CASE pre = <<>>
    BY <1>4, <2>1
  <2>2. CASE pre # <<>>
    BY <1>1, <1>3, <2>2 DEF Starts
  <2> QED
    BY <2>1, <2>2
<1>6. Starts(d)
  BY <1>1, <1>3, <1>5 DEF Starts
<1> QED
  BY <1>1, <1>2, <1>6

\* A list of which nothing is written yet.
LEMMA CoveredWhole ==
  ASSUME NEW s \in Seq(Int), NEW d, NEW p, (d = <<>> /\ p = s) \/ (d = s /\ p = <<>>)
  PROVE  Covered(s, d, p)
<1>1. <<>> \in Seq(Int) /\ s \o <<>> = s /\ <<>> \o s = s
  OBVIOUS
<1>2. Starts(<<>>) /\ ToSet(<<>>) \subseteq ToSet(s)
  BY DEF Starts, ToSet
<1>3. d \o p = <<>> \o s
  BY <1>1
<1> QED
  BY <1>1, <1>2, <1>3 DEF Covered

LEMMA EmptySet == ToSet(<<>>) = {}
  BY DEF ToSet

\* A new entry is the last of what is to be written, and in no file.
LEMMA NewIsLast ==
  ASSUME NEW n \in Nat, NEW s \in Seq(0..n), NEW d \in Seq(Int), ToSet(d) \subseteq ToSet(s)
  PROVE  /\ LastIsNew(d, Append(s, n + 1)) /\ LastIsNew(d, <<n + 1>>)
         /\ ToSet(Append(s, n + 1)) = ToSet(s) \union {n + 1}
         /\ Append(s, n + 1) \in Seq(Int)
<1> DEFINE t == Append(s, n + 1)
           one == <<n + 1>>
<1>1. Len(s) \in Nat /\ Len(t) = Len(s) + 1 /\ t[Len(s) + 1] = n + 1
      /\ \A k \in 1..Len(s) : t[k] = s[k]
  OBVIOUS
<1>2. \A k \in 1..Len(s) : s[k] \in 0..n
  BY ElementOfSeq
<1>3. Len(one) = 1 /\ one[1] = n + 1
  OBVIOUS
<1>4. ToSet(t) = ToSet(s) \union {n + 1}
  <2>1. 0..n \subseteq Int /\ n + 1 \in Int
    OBVIOUS
  <2>2. s \in Seq(Int)
    BY <2>1, SeqMonotonic
  <2> QED
    BY <2>1, <2>2, AppendedSet
<1>5. t \in Seq(Int)
  <2>1. 0..n \subseteq Int /\ n + 1 \in Int
    OBVIOUS
  <2>2. s \in Seq(Int)
    BY <2>1, SeqMonotonic
  <2> QED
    BY <2>1, <2>2
<1> HIDE DEF t, one
<1>6. n + 1 \notin ToSet(d)
  <2>1. n + 1 \notin ToSet(s)
    BY <1>2 DEF ToSet
  <2> QED
    BY <2>1
<1>7. Last(t) = n + 1 /\ Last(one) = n + 1
  BY <1>1, <1>3 DEF Last
<1>8. \A k \in 1..Len(t) - 1 : t[k] # n + 1
  <2> SUFFICES ASSUME NEW k \in 1..Len(t) - 1 PROVE t[k] # n + 1
    OBVIOUS
  <2>1. k \in 1..Len(s)
    BY <1>1
  <2>2. t[k] = s[k] /\ s[k] \in 0..n
    BY <1>1, <1>2, <2>1
  <2> QED
    BY <2>2
<1>9. LastIsNew(d, t)
  BY <1>6, <1>7, <1>8 DEF LastIsNew
<1>10. LastIsNew(d, one)
  <2>1. 1..Len(one) - 1 = {}
    BY <1>3
  <2> QED
    BY <1>6, <1>7, <2>1 DEF LastIsNew
<1> QED
  BY <1>4, <1>5, <1>9, <1>10 DEF t, one

LEMMA ReloadAdded ==
  ASSUME StoreInv, ReloadInv, NEW e, EntryAdded(e)
  PROVE  ReloadInv'
<1> DEFINE n == Len(log)
           d == disk[sessionFile]
           s == fileEntries
           t == fileEntries'
<1>1. /\ log' \in Seq(Entry) /\ \A i \in 1..n : log'[i] = log[i]
      /\ t = Append(s, n + 1)
      /\ alive /\ pending = <<>>
      /\ sessionFile' = sessionFile /\ alive' = alive /\ disk' = disk /\ openTail' = openTail
  BY EntryAddedIs
<1>2. \/ ~AssistantIn(log', t) /\ flushed' = FALSE /\ pending' = <<>>
      \/ AssistantIn(log', t) /\ flushed' = flushed
         /\ pending' = IF flushed THEN <<n + 1>> ELSE t
  BY EntryAddedIs
<1>3. /\ n \in Nat /\ s \in Seq(0..n) /\ s \in Seq(-1..n) /\ s \in Seq(Int) /\ flushed \in BOOLEAN
      /\ sessionFile \in Files
  BY MemoryTypes, MemoryList
<1>4. d \in Seq(Int)
  BY <1>3, FileTypes
<1>5. s # <<>> /\ s[1] = Header
  BY DEF ReloadInv
<1>6. ToSet(t) = ToSet(s) \union {n + 1} /\ t \in Seq(Int)
  <2>1. ToSet(<<>>) \subseteq ToSet(s) /\ <<>> \in Seq(Int)
    BY EmptySet
  <2> QED
    BY <1>1, <1>3, <2>1, NewIsLast
<1>7. t # <<>> /\ t[1] = Header
  <2>1. t # <<>> /\ t[1] = s[1]
    BY <1>1, <1>3, <1>5
  <2> QED
    BY <1>5, <2>1
<1>8. AssistantIn(log, s) => AssistantIn(log', t)
  <2>1. \A i \in 1..n : log'[i].kind = log[i].kind
    BY <1>1
  <2>2. AssistantIn(log', s) <=> AssistantIn(log, s)
    BY <1>3, <2>1, AssistantStays
  <2>3. Ids(s) \subseteq Ids(t)
    BY <1>6 DEF Ids
  <2> QED
    BY <2>2, <2>3, MoreAssistants
<1>9. \A x \in ToSet(s) : x # n + 1
  <2>1. \A k \in DOMAIN s : s[k] \in 0..n
    BY <1>3, ElementOfSeq
  <2> QED
    BY <1>3, <2>1 DEF ToSet
<1> SUFFICES ASSUME ~(sessionFile \in openTail \/ Garbage \in ToSet(d))
             PROVE  \/ GivenUp(log', t, flushed', d, pending')
                    \/ Waiting(log', t, flushed', d, pending')
                    \/ Following(log', t, flushed', alive', d, pending')
  BY <1>1, <1>7, ReloadNext
<1>10. \/ GivenUp(log, s, flushed, d, <<>>) \/ Waiting(log, s, flushed, d, <<>>)
       \/ Following(log, s, flushed, alive, d, <<>>)
  BY <1>1 DEF ReloadInv, Torn
<1> HIDE DEF d, s, t, n
<1>11. CASE GivenUp(log, s, flushed, d, <<>>)
  <2>1. flushed /\ AssistantIn(log', t)
    BY <1>8, <1>11 DEF GivenUp
  <2>2. flushed' /\ pending' = <<n + 1>>
    BY <1>2, <2>1
  <2>3. PICK x \in ToSet(s) : x \notin ToSet(d)
    BY <1>11 DEF GivenUp, Lost
  <2>4. ToSet(<<n + 1>>) = {n + 1}
    <3>1. DOMAIN <<n + 1>> = {1} /\ <<n + 1>>[1] = n + 1
      OBVIOUS
    <3> QED
      BY <3>1 DEF ToSet
  <2>5. Lost(t, d, pending')
    BY <1>6, <1>9, <2>2, <2>3, <2>4 DEF Lost
  <2> QED
    BY <2>1, <2>2, <2>5 DEF GivenUp
<1>12. CASE Waiting(log, s, flushed, d, <<>>)
  <2>1. ~flushed /\ Starts(d) /\ ToSet(d) \subseteq ToSet(s)
    BY <1>12 DEF Waiting
  <2>2. CASE ~AssistantIn(log', t) /\ flushed' = FALSE /\ pending' = <<>>
    BY <1>6, <2>1, <2>2 DEF Waiting
  <2>3. CASE flushed' = flushed /\ pending' = t
    <3>1. Covered(t, d, pending')
      BY <1>4, <1>6, <2>1, <2>3 DEF Covered
    <3>2. LastIsNew(d, t)
      BY <1>1, <1>3, <1>4, <2>1, NewIsLast
    <3> QED
      BY <1>7, <2>1, <2>3, <3>1, <3>2 DEF Following
  <2> QED
    BY <1>2, <2>1, <2>2, <2>3
<1>13. CASE Following(log, s, flushed, alive, d, <<>>)
  <2>1. flushed /\ Covered(s, d, <<>>)
    BY <1>13 DEF Following
  <2>2. ToSet(d) = ToSet(s) /\ Starts(d)
    <3>1. <<>> \in Seq(Int)
      OBVIOUS
    <3>2. ToSet(d) \union ToSet(<<>>) = ToSet(s) /\ Starts(d)
      BY <1>3, <1>4, <1>5, <2>1, <3>1, CoveredIs
    <3> QED
      BY <3>2, EmptySet
  <2>3. CASE ~AssistantIn(log', t) /\ flushed' = FALSE /\ pending' = <<>>
    BY <1>6, <2>2, <2>3 DEF Waiting
  <2>4. CASE AssistantIn(log', t) /\ flushed' = flushed /\ pending' = <<n + 1>>
    <3>1. PICK pre \in Seq(Int) : d \o <<>> = pre \o s /\ Starts(pre) /\ ToSet(pre) \subseteq ToSet(s)
      BY <2>1 DEF Covered
    <3>2. d \o <<n + 1>> = pre \o t
      <4>1. \A x \in Seq(Int) : x \o <<>> = x
        OBVIOUS
      <4>2. d = pre \o s
        BY <1>4, <3>1, <4>1
      <4>3. n + 1 \in Int /\ <<n + 1>> \in Seq(Int)
        BY <1>3
      <4>4. t = s \o <<n + 1>>
        BY <1>1, <1>3
      <4> DEFINE one == <<n + 1>>
      <4> HIDE DEF one
      <4>5. (pre \o s) \o one = pre \o (s \o one)
        <5>1. pre \in Seq(Int) /\ s \in Seq(Int) /\ one \in Seq(Int)
          BY <1>3, <4>3 DEF one
        <5> QED
          BY <5>1, SMTT(20), ZenonT(20)
      <4> QED
        BY <4>2, <4>4, <4>5 DEF one
    <3>3. Covered(t, d, pending')
      BY <1>6, <2>4, <3>1, <3>2 DEF Covered
    <3>4. LastIsNew(d, <<n + 1>>)
      BY <1>3, <1>4, <2>2, NewIsLast
    <3> QED
      BY <2>1, <2>4, <3>3, <3>4 DEF Following
  <2> QED
    BY <1>2, <2>1, <2>3, <2>4
<1> QED
  BY <1>10, <1>11, <1>12, <1>13

\* A step that changes nothing of what ReloadInv speaks of.
LEMMA ReloadSame ==
  ASSUME ReloadInv,
         UNCHANGED <<log, fileEntries, flushed, alive, sessionFile, disk, openTail, pending>>
  PROVE  ReloadInv'
  BY ReloadNext DEF ReloadInv, Torn

LEMMA ReloadMoved ==
  ASSUME ReloadInv, LeafMoved \/ \E f \in Files : TouchFile(f)
  PROVE  ReloadInv'
<1>1. CASE LeafMoved
  BY <1>1, ReloadSame DEF LeafMoved, files
<1>2. CASE \E f \in Files : TouchFile(f)
  BY <1>2, ReloadSame DEF TouchFile, memory
<1> QED
  BY <1>1, <1>2

\* A session of a file that is not there waits to be written.
LEMMA NewWaits ==
  ASSUME NEW tree, NEW s, ~AssistantIn(tree, s)
  PROVE  Waiting(tree, s, FALSE, <<>>, <<>>)
  BY EmptySet DEF Waiting, Starts

\* A list with nothing twice that is about to be written from its beginning.
LEMMA WholeFollows ==
  ASSUME NEW tree, NEW s \in Seq(Int), s # <<>>, NEW fl, NEW on,
         on => Once(s) /\ (fl => AssistantIn(tree, s))
  PROVE  Following(tree, s, fl, on, <<>>, s)
<1>1. Covered(s, <<>>, s)
  BY CoveredWhole
<1>2. ASSUME on PROVE LastIsNew(<<>>, s)
  <2>1. Len(s) \in Nat
    OBVIOUS
  <2>2. \A k \in 1..Len(s) - 1 : k \in 1..Len(s) /\ Len(s) \in 1..Len(s) /\ k # Len(s)
    BY <2>1
  <2>3. \A k \in 1..Len(s) - 1 : s[k] # s[Len(s)]
    BY <1>2, <2>2 DEF Once
  <2> QED
    BY <2>3, EmptySet DEF LastIsNew, Last
<1> QED
  BY <1>1, <1>2 DEF Following

LEMMA HeaderList ==
  /\ <<Header>> \in Seq(Int) /\ <<Header>> # <<>> /\ <<Header>>[1] = Header
  /\ Once(<<Header>>) /\ \A tree : ~AssistantIn(tree, <<Header>>)
<1>1. Once(<<Header>>)
  BY WholeHeader DEF Whole
<1>2. <<Header>> \in Seq(Int) /\ <<Header>> # <<>> /\ <<Header>>[1] = Header
  BY DEF Header
<1> QED
  BY <1>1, <1>2, HeaderNotSaved

LEMMA ReloadForked ==
  ASSUME StoreInv, NEW id \in 1..Len(log), CreateBranchedSession(id)
  PROVE  ReloadInv'
<1> DEFINE t == fileEntries'
<1>1. /\ Whole(t) /\ t \in Seq(Int) /\ t # <<>>
      /\ disk'[sessionFile'] = <<>>
      /\ \/ AssistantIn(log', t) /\ pending' = t /\ flushed' = flushed
         \/ ~AssistantIn(log', t) /\ pending' = <<>> /\ flushed' = FALSE
  BY ForkIs
<1>2. t[1] = Header /\ Once(t)
  BY <1>1 DEF Whole
<1> HIDE DEF t
<1>3. CASE AssistantIn(log', t) /\ pending' = t /\ flushed' = flushed
  <2>1. Following(log', t, flushed', alive', <<>>, t)
    BY <1>1, <1>2, <1>3, WholeFollows
  <2> QED
    BY <1>1, <1>2, <1>3, <2>1, ReloadNext DEF t
<1>4. CASE ~AssistantIn(log', t) /\ pending' = <<>> /\ flushed' = FALSE
  <2>1. Waiting(log', t, FALSE, <<>>, <<>>)
    BY <1>4, NewWaits
  <2> QED
    BY <1>1, <1>2, <1>4, <2>1, ReloadNext DEF t
<1> QED
  BY <1>1, <1>3, <1>4

LEMMA ReloadStarted ==
  ASSUME StoreInv, Started \/ Crash
  PROVE  ReloadInv'
<1>1. fileEntries' = <<Header>> /\ flushed' = FALSE /\ pending' = <<>>
  BY DEF Started, Crash, Fresh
<1>2. CASE Crash
  <2>1. alive' = FALSE
    BY <1>2 DEF Crash
  <2> QED
    BY <1>1, <2>1, HeaderList, ReloadNext
<1>3. CASE Started
  <2>1. disk'[sessionFile'] = <<>>
    BY <1>3, FileTypes DEF Started, files
  <2>2. Waiting(log', <<Header>>, FALSE, <<>>, <<>>)
    BY HeaderList, NewWaits
  <2> QED
    BY <1>1, <2>1, <2>2, HeaderList, ReloadNext
<1> QED
  BY <1>2, <1>3

\* A file without a line that was cut short is read as it is.
LEMMA LoadedUntorn ==
  ASSUME StoreInv, NEW f \in Files, Loaded(f) # <<>>
  PROVE  /\ Loaded(f) \in Seq(Int) /\ Loaded(f)[1] = Header
         /\ Garbage \notin ToSet(disk[f]) => Loaded(f) = disk[f]
<1> DEFINE s == disk[f]
<1>1. s \in Seq(Int)
  BY FileTypes
<1>2. Loaded(f) = Parsed(f) /\ Head(Parsed(f)) = Header
  BY DEF Loaded
<1>3. Loaded(f) \in Seq(Int)
  <2>1. Len(log) \in Nat /\ Loaded(f) \in Seq(0..Len(log))
    BY LoadedType DEF StoreInv, TypeOK
  <2>2. 0..Len(log) \subseteq Int
    BY <2>1
  <2> QED
    BY <2>1, <2>2, SeqMonotonic
<1>4. Loaded(f)[1] = Header
  BY <1>2, <1>3
<1> HIDE DEF s
<1>5. ASSUME Garbage \notin ToSet(s) PROVE Loaded(f) = s
  <2>1. ToSet(s) \subseteq ToSet(s) \ {Garbage}
    BY <1>5
  <2>2. Only(s, ToSet(s) \ {Garbage}) = s
    BY <1>1, <2>1, OnlyAll
  <2> QED
    BY <1>2, <2>2 DEF Parsed, s
<1> QED
  BY <1>3, <1>4, <1>5 DEF s

LEMMA ReloadOpened ==
  ASSUME StoreInv, NEW f \in Files, Emptied(f) \/ Opened(f) \/ Converted(f) \/ Copied(f)
  PROVE  ReloadInv'
<1> DEFINE t == fileEntries'
<1>1. CASE Opened(f)
  <2>1. /\ Loaded(f) # <<>> /\ t = Loaded(f) /\ sessionFile' = f /\ flushed' = TRUE
        /\ pending' = <<>> /\ disk' = disk /\ alive' = TRUE
    BY <1>1 DEF Opened, files
  <2>2. t \in Seq(Int) /\ t # <<>> /\ t[1] = Header
    BY <2>1, LoadedUntorn
  <2>3. ASSUME Garbage \notin ToSet(disk'[f])
        PROVE  Following(log', t, flushed', alive', disk'[f], pending')
    <3>1. disk'[f] = t
      BY <2>1, <2>3, LoadedUntorn
    <3>2. Covered(t, t, <<>>)
      BY <2>2, CoveredWhole
    <3> QED
      BY <2>1, <3>1, <3>2 DEF Following
  <2> QED
    BY <2>1, <2>2, <2>3, ReloadNext
<1>2. CASE Emptied(f)
  <2>1. /\ t = <<Header>> /\ flushed' = FALSE /\ sessionFile' = f /\ pending' = t /\ Truncate(f)
    BY <1>2 DEF Emptied, Fresh
  <2>2. disk'[f] = <<>>
    <3>1. disk = [g \in Files |-> disk[g]]
      BY DEF StoreInv, TypeOK
    <3> QED
      BY <2>1, <3>1 DEF Truncate
  <2>3. Following(log', <<Header>>, FALSE, alive', <<>>, <<Header>>)
    BY HeaderList, WholeFollows
  <2> QED
    BY <2>1, <2>2, <2>3, HeaderList, ReloadNext
<1>3. CASE Converted(f)
  <2>1. /\ t = <<Header, 1, 2, 3>> /\ sessionFile' = f /\ pending' = t /\ ~alive'
    BY <1>3 DEF Converted
  <2>2. disk'[f] = <<>>
    BY <1>3, ConvertedIs
  <2>3. <<Header, 1, 2, 3>> \in Seq(Int) /\ <<Header, 1, 2, 3>> # <<>> /\ <<Header, 1, 2, 3>>[1] = Header
    BY DEF Header
  <2>4. Following(log', t, flushed', alive', <<>>, t)
    BY <2>1, <2>3, WholeFollows
  <2> QED
    BY <2>1, <2>2, <2>3, <2>4, ReloadNext
<1>4. CASE Copied(f)
  <2>1. /\ t \in Seq(0..Len(log)) /\ t # <<>> /\ t[1] = Header /\ disk'[sessionFile'] = <<>>
    BY <1>4, CopiedIs
  <2>2. pending' = t /\ alive' = alive /\ ~alive
    BY <1>4 DEF Copied
  <2>3. t \in Seq(Int)
    <3>1. 0..Len(log) \subseteq Int
      BY MemoryTypes
    <3> QED
      BY <2>1, <3>1, SeqMonotonic
  <2>4. Following(log', t, flushed', alive', <<>>, t)
    BY <2>1, <2>2, <2>3, WholeFollows
  <2> QED
    BY <2>1, <2>2, <2>4, ReloadNext
<1> QED
  BY <1>1, <1>2, <1>3, <1>4

\* The last line stays new when the first of several is written.
LEMMA NextIsNew ==
  ASSUME NEW d \in Seq(Int), NEW p \in Seq(Int), p # <<>>, LastIsNew(d, p), Tail(p) # <<>>
  PROVE  LastIsNew(Append(d, Head(p)), Tail(p))
<1> DEFINE q == Tail(p)
<1>1. /\ Len(p) \in Nat /\ Len(p) > 0 /\ q \in Seq(Int) /\ Len(q) = Len(p) - 1 /\ Head(p) = p[1]
      /\ \A k \in 1..Len(q) : q[k] = p[k + 1]
  OBVIOUS
<1>2. ToSet(Append(d, Head(p))) = ToSet(d) \union {p[1]}
  <2>1. Head(p) \in Int
    OBVIOUS
  <2> QED
    BY <1>1, <2>1, AppendedSet
<1>3. q # <<>>
  OBVIOUS
<1> HIDE DEF q
<1>4. Len(q) \in Nat /\ Len(q) > 0
  BY <1>1, <1>3, SMTT(20), ZenonT(20)
<1>5. q[Len(q)] = p[Len(p)]
  <2>1. Len(q) \in 1..Len(q) /\ Len(q) + 1 = Len(p)
    BY <1>1, <1>4
  <2> QED
    BY <1>1, <2>1
<1>6. p[Len(p)] \notin ToSet(d) /\ \A k \in 1..Len(p) - 1 : p[k] # p[Len(p)]
  BY DEF LastIsNew, Last
<1>7. p[1] # p[Len(p)]
  <2>1. 1 \in 1..Len(p) - 1
    BY <1>1, <1>4
  <2> QED
    BY <1>6, <2>1
<1>8. \A k \in 1..Len(q) - 1 : q[k] # q[Len(q)]
  <2> SUFFICES ASSUME NEW k \in 1..Len(q) - 1 PROVE q[k] # q[Len(q)]
    OBVIOUS
  <2>1. k \in 1..Len(q) /\ k + 1 \in 1..Len(p) - 1
    BY <1>1, <1>4
  <2> QED
    BY <1>1, <1>5, <1>6, <2>1
<1>9. LastIsNew(Append(d, Head(p)), q)
  BY <1>2, <1>5, <1>6, <1>7, <1>8 DEF LastIsNew, Last
<1> QED
  BY <1>9 DEF q

LEMMA ReloadWritten ==
  ASSUME StoreInv, ReloadInv, WriteLine
  PROVE  ReloadInv'
<1> DEFINE d == disk[sessionFile]
           e == disk'[sessionFile]
           s == fileEntries
           p == pending
           q == pending'
<1>1. /\ p # <<>> /\ q = Tail(p)
      /\ e = IF sessionFile \in openTail THEN Append(Front(d), Garbage) ELSE Append(d, Head(p))
      /\ openTail' = openTail \ {sessionFile}
      /\ flushed' = (flushed \/ q = <<>>) /\ alive' = (alive \/ q = <<>>)
      /\ log' = log /\ fileEntries' = s /\ sessionFile' = sessionFile
  BY WriteLineIs
<1>2. d \in Seq(Int) /\ p \in Seq(Int) /\ s \in Seq(Int)
  BY FileTypes, MemoryList, MemoryTypes
<1>3. s # <<>> /\ s[1] = Header
  BY DEF ReloadInv
<1>4. /\ ~(sessionFile \in openTail \/ Garbage \in ToSet(d)) =>
           \/ GivenUp(log, s, flushed, d, p) \/ Waiting(log, s, flushed, d, p)
           \/ Following(log, s, flushed, alive, d, p)
  BY <1>1 DEF ReloadInv, Torn
<1> SUFFICES ASSUME ~(sessionFile \in openTail' \/ Garbage \in ToSet(e))
             PROVE  \/ GivenUp(log, s, flushed', e, q)
                    \/ Following(log, s, flushed', alive', e, q)
  BY <1>1, <1>3, ReloadNext
<1>5. ToSet(p) = {Head(p)} \union ToSet(q) /\ Head(p) \in Int /\ q \in Seq(Int)
  <2>1. p \in Seq(Int) /\ p # <<>> /\ q = Tail(p)
    BY <1>1, <1>2
  <2> HIDE DEF d, e, s, p, q
  <2>2. Head(p) \in Int /\ Tail(p) \in Seq(Int)
    BY <2>1
  <2>3. ToSet(p) = {Head(p)} \union ToSet(Tail(p))
    BY <2>1, HeadOrTail
  <2> QED
    BY <2>1, <2>2, <2>3
<1> HIDE DEF d, e, s, p, q
<1>6. sessionFile \notin openTail
  <2> SUFFICES ASSUME sessionFile \in openTail PROVE Garbage \in ToSet(e)
    OBVIOUS
  <2>1. Front(d) \in Seq(Int)
    <3>1. Len(d) \in Nat /\ Len(d) - 1 \in Int /\ 1 \in Int /\ \A i \in 1..Len(d) - 1 : d[i] \in Int
      BY <1>2
    <3>2. SubSeq(d, 1, Len(d) - 1) \in Seq(Int)
      BY <3>1, SubSeqProperties
    <3> QED
      BY <3>2 DEF Front
  <2>2. Garbage \in Int
    BY DEF Garbage
  <2> HIDE DEF Garbage
  <2>3. ToSet(Append(Front(d), Garbage)) = ToSet(Front(d)) \union {Garbage}
    BY <2>1, <2>2, AppendedSet
  <2> QED
    BY <1>1, <2>3
<1>7. e = Append(d, Head(p)) /\ ToSet(e) = ToSet(d) \union {Head(p)}
  <2>1. e = Append(d, Head(p))
    BY <1>1, <1>6
  <2> QED
    BY <1>2, <1>5, <2>1, AppendedSet
<1>8. \/ GivenUp(log, s, flushed, d, p) \/ Waiting(log, s, flushed, d, p)
      \/ Following(log, s, flushed, alive, d, p)
  BY <1>4, <1>6, <1>7
<1>9. CASE GivenUp(log, s, flushed, d, p)
  <2>1. flushed' /\ AssistantIn(log, s)
    BY <1>1, <1>9 DEF GivenUp
  <2>2. Lost(s, e, q)
    BY <1>5, <1>7, <1>9 DEF GivenUp, Lost
  <2> QED
    BY <2>1, <2>2 DEF GivenUp
<1>10. CASE Following(log, s, flushed, alive, d, p)
  <2>1. Covered(s, d, p)
    BY <1>10 DEF Following
  <2>2. Covered(s, e, q)
    <3>1. e \o q = d \o p
      BY <1>1, <1>2, <1>7, HeadMoved
    <3> QED
      BY <2>1, <3>1 DEF Covered
  <2>3. flushed' \/ q # <<>>
    BY <1>1
  <2>4. ASSUME alive', q # <<>> PROVE LastIsNew(e, q) /\ (flushed' => AssistantIn(log, s))
    <3>1. alive /\ flushed' = (flushed \/ FALSE)
      BY <1>1, <2>4
    <3>2. LastIsNew(d, p) /\ (flushed => AssistantIn(log, s))
      BY <1>1, <1>10, <3>1 DEF Following
    <3>3. LastIsNew(e, q)
      BY <1>1, <1>2, <1>7, <2>4, <3>2, NextIsNew
    <3> QED
      BY <3>1, <3>2, <3>3
  <2> QED
    BY <2>2, <2>3, <2>4 DEF Following
<1>11. ~Waiting(log, s, flushed, d, p)
  BY <1>1 DEF Waiting
<1> QED
  BY <1>8, <1>9, <1>10, <1>11

LEMMA ReloadFailed ==
  ASSUME StoreInv, ReloadInv, WriteFails
  PROVE  ReloadInv'
<1> DEFINE d == disk[sessionFile]
           s == fileEntries
           p == pending
<1>1. /\ alive /\ p # <<>> /\ pending' = <<>> /\ Interrupted
      /\ fileEntries' = s /\ sessionFile' = sessionFile /\ flushed' = flushed /\ log' = log
  BY DEF WriteFails, memory
<1>2. d \in Seq(Int) /\ p \in Seq(Int) /\ s \in Seq(Int) /\ flushed \in BOOLEAN
  BY FileTypes, MemoryList, MemoryTypes
<1>3. s # <<>> /\ s[1] = Header
  BY DEF ReloadInv
<1>4. (disk' = disk /\ openTail' = openTail) \/ sessionFile \in openTail'
  BY <1>1, InterruptedIs
<1> SUFFICES ASSUME disk' = disk, openTail' = openTail, ~(sessionFile \in openTail \/ Garbage \in ToSet(d))
             PROVE  GivenUp(log, s, flushed, d, <<>>) \/ Waiting(log, s, flushed, d, <<>>)
  BY <1>1, <1>3, <1>4, ReloadNext
<1>5. \/ GivenUp(log, s, flushed, d, p) \/ Waiting(log, s, flushed, d, p)
      \/ Following(log, s, flushed, alive, d, p)
  BY <1>1 DEF ReloadInv, Torn
<1> HIDE DEF d, s, p
<1>6. CASE GivenUp(log, s, flushed, d, p)
  BY <1>6, EmptySet DEF GivenUp, Lost
<1>7. CASE Following(log, s, flushed, alive, d, p)
  <2>1. Covered(s, d, p) /\ LastIsNew(d, p) /\ (flushed => AssistantIn(log, s))
    BY <1>1, <1>7 DEF Following
  <2>2. ToSet(d) \union ToSet(p) = ToSet(s) /\ Starts(d)
    BY <1>2, <1>3, <2>1, CoveredIs
  <2>3. Last(p) \in ToSet(p)
    <3>1. Len(p) \in DOMAIN p
      BY <1>1, <1>2
    <3> QED
      BY <3>1 DEF Last, ToSet
  <2>4. Lost(s, d, <<>>)
    BY <2>1, <2>2, <2>3, EmptySet DEF Lost, LastIsNew
  <2>5. CASE flushed
    BY <2>1, <2>4, <2>5 DEF GivenUp
  <2>6. CASE ~flushed
    BY <2>2, <2>4, <2>6 DEF Waiting
  <2> QED
    BY <2>5, <2>6
<1>8. ~Waiting(log, s, flushed, d, p)
  BY <1>1 DEF Waiting
<1> QED
  BY <1>5, <1>6, <1>7, <1>8

LEMMA ReloadInit == Init => ReloadInv
<1> SUFFICES ASSUME Init PROVE ReloadInv
  OBVIOUS
<1>1. fileEntries = <<Header>> /\ alive = FALSE /\ pending = <<>>
  BY DEF Init
<1> QED
  BY <1>1, HeaderList DEF ReloadInv

LEMMA ReloadStep ==
  ASSUME StoreInv, ReloadInv, [Next]_vars
  PROVE  ReloadInv'
<1>1. StepKind
  BY Steps
<1>2. ASSUME NEW e, EntryAdded(e) PROVE ReloadInv'
  BY <1>2, ReloadAdded
<1>3. ASSUME LeafMoved \/ \E f \in Files : TouchFile(f) PROVE ReloadInv'
  BY <1>3, ReloadMoved
<1>4. ASSUME NEW id \in 1..Len(log), CreateBranchedSession(id) PROVE ReloadInv'
  BY <1>4, ReloadForked
<1>5. ASSUME Started \/ Crash PROVE ReloadInv'
  BY <1>5, ReloadStarted
<1>6. ASSUME NEW f \in Files, Emptied(f) \/ Opened(f) \/ Converted(f) \/ Copied(f) PROVE ReloadInv'
  BY <1>6, ReloadOpened
<1>7. ASSUME WriteLine \/ WriteFails PROVE ReloadInv'
  BY <1>7, ReloadWritten, ReloadFailed
<1> QED
  BY <1>1, <1>2, <1>3, <1>4, <1>5, <1>6, <1>7 DEF StepKind

\* Where no line is cut short and none was lost, a new process that opens the file
\* of an idle session finds the entries, the leaf and the labels the running one
\* has: whatever an earlier attempt wrote comes before the list and is part of it.
THEOREM ReloadEquivalentAlways == Spec => []ReloadEquivalent
<1>1. StoreInv /\ ReloadInv => ReloadEquivalent
  <2> SUFFICES ASSUME StoreInv, ReloadInv, Idle, HasAssistant(fileEntries), ~Torn(sessionFile),
                      ToSet(fileEntries) \subseteq Written
               PROVE  /\ Ids(Loaded(sessionFile)) = Ids(fileEntries)
                      /\ LastId(Loaded(sessionFile)) = LastId(fileEntries)
                      /\ LabelsBut(Loaded(sessionFile), unmarked) = labelsById
    BY DEF ReloadEquivalent
  <2> DEFINE d == disk[sessionFile]
             s == fileEntries
  <2>1. alive /\ pending = <<>> /\ AssistantIn(log, s) /\ ToSet(s) \subseteq ToSet(d)
        /\ Garbage \notin ToSet(d)
    BY AssistantIs, EmptySet DEF Idle, Written, Torn
  <2>2. ~Lost(s, d, <<>>)
    BY <2>1 DEF Lost
  <2>3. Covered(s, d, <<>>)
    BY <2>1, <2>2 DEF ReloadInv, GivenUp, Waiting, Following
  <2>4. /\ d \in Seq(Int) /\ s \in Seq(Int) /\ sessionFile \in Files
        /\ s # <<>> /\ s[1] = Header
    BY FileTypes, MemoryList, MemoryTypes DEF ReloadInv
  <2>5. PICK pre \in Seq(Int) : d \o <<>> = pre \o s /\ ToSet(pre) \subseteq ToSet(s)
    BY <2>3 DEF Covered
  <2> HIDE DEF d, s
  <2>6. d = pre \o s
    <3>1. \A x \in Seq(Int) : x \o <<>> = x
      OBVIOUS
    <3> QED
      BY <2>4, <2>5, <3>1
  <2>7. Ids(s) # {}
    BY <2>1 DEF AssistantIn
  <2>8. /\ Ids(d) = Ids(s) /\ LastId(d) = LastId(s)
        /\ LabelsIn(log, d, unmarked) = LabelsIn(log, s, unmarked)
    BY <2>4, <2>5, <2>6, <2>7, RepeatedLines
  <2>9. Loaded(sessionFile) = d
    <3>1. Starts(d) /\ d # <<>>
      <4>1. <<>> \in Seq(Int)
        OBVIOUS
      <4>2. Starts(d)
        BY <2>3, <2>4, <4>1, CoveredIs
      <4>3. d # <<>>
        BY <2>7, <2>8, EmptySet DEF Ids
      <4> QED
        BY <4>2, <4>3
    <3>2. Parsed(sessionFile) = d
      <4>1. ToSet(d) \subseteq ToSet(d) \ {Garbage}
        BY <2>1
      <4>2. Only(d, ToSet(d) \ {Garbage}) = d
        BY <2>4, <4>1, OnlyAll
      <4> QED
        BY <4>2 DEF Parsed, d
    <3>3. Head(d) = Header
      BY <2>4, <3>1 DEF Starts
    <3> QED
      BY <3>1, <3>2, <3>3 DEF Loaded
  <2>10. labelsById = LabelsIn(log, s, unmarked)
    BY LabelsHold DEF s
  <2> QED
    BY <2>8, <2>9, <2>10, LabelsOfIs DEF s
<1>2. StoreInv /\ ReloadInv /\ [Next]_vars => ReloadInv'
  BY ReloadStep
<1> QED
  BY <1>1, <1>2, ReloadInit, StoreInvariant, PTL DEF Spec

-----------------------------------------------------------------------------
(* The paths that the context is rebuilt from stay *)

\* A set that has each number whose smaller ones it has has them all.
LEMMA ByAge ==
  ASSUME NEW n \in Nat, NEW G,
         \A i \in 0..n : (\A j \in 0..n : j < i => j \in G) => i \in G
  PROVE  \A i \in 0..n : i \in G
<1> DEFINE Bad == {i \in Nat : i <= n /\ i \notin G}
<1>1. Bad = {}
  <2> SUFFICES ASSUME Bad # {} PROVE FALSE
    OBVIOUS
  <2>1. PICK i \in Bad : \A j \in Bad : i <= j
    <3>1. Bad \in SUBSET Nat
      OBVIOUS
    <3> QED
      BY <3>1, LeastNat
  <2>2. i \in 0..n /\ i \notin G
    OBVIOUS
  <2>3. ASSUME NEW j \in 0..n, j < i PROVE j \in G
    <3>1. j \notin Bad
      <4>1. ~(i <= j)
        BY <2>2, <2>3
      <4> HIDE DEF Bad
      <4> QED
        BY <2>1, <4>1
    <3>2. j \in Nat /\ j <= n
      OBVIOUS
    <3> QED
      BY <3>1, <3>2
  <2> QED
    BY <2>2, <2>3
<1> QED
  BY <1>1

\* The whole path of an entry.
Walk(tree, id) == PathIn(tree, 1..Len(tree), id)

LEMMA FullBranchIs == \A id : FullBranch(id) = Walk(log, id)
  BY BranchIn DEF FullBranch, Walk

\* The entries of a branch.
LEMMA BranchSet ==
  ASSUME NEW tree \in Seq(Entry), Earlier(tree), NEW known \in SUBSET (1..Len(tree)), NEW id \in 0..Len(tree)
  PROVE  ToSet(PathIn(tree, known, id)) =
           IF id \in known THEN ToSet(PathIn(tree, known, tree[id].parent)) \union {id} ELSE {}
<1>1. CASE id \notin known
  <2>1. PathIn(tree, known, id) = <<>>
    BY <1>1, BranchIs
  <2> QED
    BY <1>1, <2>1, EmptySet
<1>2. CASE id \in known
  <2>1. id \in Nat /\ tree[id].parent \in 0..Len(tree)
    <3>1. Len(tree) \in Nat /\ id \in 1..Len(tree) /\ id \in DOMAIN tree /\ tree[id].parent \in Nat
      BY <1>2, TreeFacts
    <3>2. tree[id].parent < id
      BY <3>1 DEF Earlier
    <3> QED
      BY <3>1, <3>2
  <2> DEFINE path == PathIn(tree, known, tree[id].parent)
  <2>2. path \in Seq(Int)
    <3>1. PathTo(PathIn(tree, known, tree[id].parent), tree[id].parent, known)
      BY <2>1, BranchPath
    <3> QED
      BY <3>1 DEF PathTo
  <2>3. PathIn(tree, known, id) = Append(path, id)
    BY <1>2, BranchIs
  <2> HIDE DEF path
  <2>4. id \in Int
    BY <2>1
  <2>5. ToSet(PathIn(tree, known, id)) = ToSet(path) \union {id}
    BY <2>2, <2>3, <2>4, AppendedSet
  <2> QED
    BY <1>2, <2>5 DEF path
<1> QED
  BY <1>1, <1>2

\* What a parent is.
LEMMA ParentIs ==
  ASSUME NEW tree \in Seq(Entry), Earlier(tree), NEW i \in 1..Len(tree)
  PROVE  /\ Len(tree) \in Nat /\ i \in 0..Len(tree)
         /\ tree[i].parent \in 0..Len(tree) /\ tree[i].parent < i
         /\ tree[i].parent # 0 => tree[i].parent \in 1..Len(tree)
<1>1. Len(tree) \in Nat /\ i \in DOMAIN tree /\ tree[i].parent \in Nat
  BY TreeFacts
<1>2. tree[i].parent < i
  BY <1>1 DEF Earlier
<1> QED
  BY <1>1, <1>2

\* A branch is on the whole path.
LEMMA BranchWithin ==
  ASSUME NEW tree \in Seq(Entry), Earlier(tree), NEW known \in SUBSET (1..Len(tree)), NEW id \in 0..Len(tree)
  PROVE  ToSet(PathIn(tree, known, id)) \subseteq ToSet(Walk(tree, id))
<1> DEFINE n == Len(tree)
           G == {i \in 0..n : ToSet(PathIn(tree, known, i)) \subseteq ToSet(Walk(tree, i))}
<1>1. n \in Nat
  BY TreeFacts
<1>2. ASSUME NEW i \in 0..n, \A j \in 0..n : j < i => j \in G PROVE i \in G
  <2>1. CASE i \notin known
    <3>1. ToSet(PathIn(tree, known, i)) = {}
      BY <2>1, BranchSet
    <3> QED
      BY <3>1
  <2>2. CASE i \in known
    <3>1. i \in 1..n /\ tree[i].parent \in 0..n /\ tree[i].parent < i
      BY <2>2, ParentIs
    <3>2. tree[i].parent \in G
      <4> HIDE DEF G
      <4> QED
        BY <1>2, <3>1
    <3>3. ToSet(PathIn(tree, known, i)) = ToSet(PathIn(tree, known, tree[i].parent)) \union {i}
      BY <2>2, BranchSet
    <3>4. ToSet(Walk(tree, i)) = ToSet(Walk(tree, tree[i].parent)) \union {i}
      BY <3>1, BranchSet DEF Walk
    <3> QED
      BY <3>2, <3>3, <3>4
  <2> QED
    BY <2>1, <2>2
<1> HIDE DEF G
<1>3. id \in G
  BY <1>1, <1>2, ByAge
<1> QED
  BY <1>3 DEF G

\* With an entry, a branch has its parent if that is known.
LEMMA BranchParents ==
  ASSUME NEW tree \in Seq(Entry), Earlier(tree), NEW known \in SUBSET (1..Len(tree)), NEW id \in 0..Len(tree),
         NEW a \in ToSet(PathIn(tree, known, id)), tree[a].parent \in known
  PROVE  tree[a].parent \in ToSet(PathIn(tree, known, id))
<1> DEFINE n == Len(tree)
           G == {i \in 0..n : \A x \in ToSet(PathIn(tree, known, i)) :
                   tree[x].parent \in known => tree[x].parent \in ToSet(PathIn(tree, known, i))}
<1>1. n \in Nat
  BY TreeFacts
<1>2. ASSUME NEW i \in 0..n, \A j \in 0..n : j < i => j \in G PROVE i \in G
  <2> SUFFICES ASSUME NEW x \in ToSet(PathIn(tree, known, i)), tree[x].parent \in known
               PROVE  tree[x].parent \in ToSet(PathIn(tree, known, i))
    OBVIOUS
  <2>1. i \in known
    BY BranchSet
  <2>2. i \in 1..n /\ tree[i].parent \in 0..n /\ tree[i].parent < i
    BY <2>1, ParentIs
  <2>3. tree[i].parent \in G
    <3> HIDE DEF G
    <3> QED
      BY <1>2, <2>2
  <2>4. ToSet(PathIn(tree, known, i)) = ToSet(PathIn(tree, known, tree[i].parent)) \union {i}
    BY <2>1, BranchSet
  <2>5. CASE x = i
    <3>1. tree[i].parent \in known
      BY <2>5
    <3>2. tree[i].parent \in ToSet(PathIn(tree, known, tree[i].parent))
      BY <2>2, <3>1, BranchSet
    <3> QED
      BY <2>4, <2>5, <3>2
  <2>6. CASE x # i
    BY <2>3, <2>4, <2>6
  <2> QED
    BY <2>5, <2>6
<1> HIDE DEF G
<1>3. id \in G
  BY <1>1, <1>2, ByAge
<1> QED
  BY <1>3 DEF G

\* The whole paths through entries whose parents stay are the same.
LEMMA SamePaths ==
  ASSUME NEW tree \in Seq(Entry), Earlier(tree), NEW more \in Seq(Entry), Earlier(more),
         Len(tree) <= Len(more), NEW S \in SUBSET (1..Len(tree)),
         \A i \in S : more[i].parent = tree[i].parent /\ tree[i].parent \in S \union {0},
         NEW id \in S \union {0}
  PROVE  Walk(more, id) = Walk(tree, id)
<1> DEFINE n == Len(tree)
           G == {i \in 0..n : i \in S \union {0} => Walk(more, i) = Walk(tree, i)}
<1>1. n \in Nat /\ Len(more) \in Nat
  BY TreeFacts
<1>2. ASSUME NEW i \in 0..n, \A j \in 0..n : j < i => j \in G PROVE i \in G
  <2>1. CASE i = 0
    <3>1. 0 \notin 1..n /\ 0 \notin 1..Len(more) /\ 0 \in 0..n /\ 0 \in 0..Len(more)
      BY <1>1
    <3>2. PathIn(more, 1..Len(more), 0) = <<>>
      BY <3>1, BranchIs, SMTT(20), ZenonT(20)
    <3>3. PathIn(tree, 1..Len(tree), 0) = <<>>
      <4>1. 0 \notin 1..Len(tree) /\ 1..Len(tree) \in SUBSET (1..Len(tree)) /\ 0 \in 0..Len(tree)
        BY <3>1
      <4>2. \A known \in SUBSET (1..Len(tree)) : 0 \notin known => PathIn(tree, known, 0) = <<>>
        <5> HIDE DEF n, G
        <5> QED
          BY <4>1, BranchIs
      <4> HIDE DEF n, G
      <4> QED
        BY <4>1, <4>2
    <3> QED
      BY <2>1, <3>2, <3>3 DEF Walk
  <2>2. CASE i # 0 /\ i \in S
    <3>1. i \in 1..n /\ i \in 1..Len(more) /\ i \in 0..Len(more)
      BY <1>1, <2>2
    <3>2. tree[i].parent \in 0..n /\ tree[i].parent < i
      BY <3>1, ParentIs
    <3>3. tree[i].parent \in G
      <4> HIDE DEF G
      <4> QED
        BY <1>2, <3>2
    <3>4. Walk(more, tree[i].parent) = Walk(tree, tree[i].parent)
      BY <2>2, <3>3
    <3>5. Walk(tree, i) = Append(Walk(tree, tree[i].parent), i)
      BY <3>1, BranchIs DEF Walk
    <3>6. Walk(more, i) = Append(Walk(more, more[i].parent), i)
      BY <3>1, BranchIs DEF Walk
    <3> QED
      BY <2>2, <3>4, <3>5, <3>6
  <2>3. CASE i \notin S \union {0}
    BY <2>3
  <2> QED
    BY <2>1, <2>2, <2>3
<1> HIDE DEF G
<1>3. id \in 0..n
  BY <1>1
<1>4. id \in G
  BY <1>1, <1>2, <1>3, ByAge
<1> QED
  BY <1>4 DEF G

\* A set of entries that has the parent of each, label entries aside.
Closed(tree, X) ==
  \A i \in X : tree[i].parent \in X \/ tree[i].parent = Null \/ tree[tree[i].parent].kind = "label"

\* In such a set the branch of an entry is its whole path if that has no labels.
LEMMA BranchComplete ==
  ASSUME NEW tree \in Seq(Entry), Earlier(tree), NEW X \in SUBSET (1..Len(tree)), Closed(tree, X),
         NEW id \in X, \A a \in ToSet(Walk(tree, id)) : tree[a].kind # "label"
  PROVE  PathIn(tree, X, id) = Walk(tree, id)
<1> DEFINE n == Len(tree)
           G == {i \in 0..n : i \in X \union {0} /\ (\A a \in ToSet(Walk(tree, i)) : tree[a].kind # "label")
                                => PathIn(tree, X, i) = Walk(tree, i)}
<1>1. n \in Nat
  BY TreeFacts
<1>2. ASSUME NEW i \in 0..n, \A j \in 0..n : j < i => j \in G PROVE i \in G
  <2> SUFFICES ASSUME i \in X \union {0}, \A a \in ToSet(Walk(tree, i)) : tree[a].kind # "label"
               PROVE  PathIn(tree, X, i) = Walk(tree, i)
    OBVIOUS
  <2>1. CASE i = 0
    <3>1. 0 \notin 1..n /\ 0 \notin X
      BY <1>1
    <3> QED
      BY <2>1, <3>1, BranchIs DEF Walk
  <2>2. CASE i # 0
    <3>1. i \in X /\ i \in 1..n
      BY <2>2
    <3> DEFINE j == tree[i].parent
    <3>2. j \in 0..n /\ j < i /\ (j # 0 => j \in 1..n)
      BY <3>1, ParentIs
    <3>3. j \in G
      <4> HIDE DEF G
      <4> QED
        BY <1>2, <3>2
    <3>4. ToSet(Walk(tree, i)) = ToSet(Walk(tree, j)) \union {i}
      BY <3>1, BranchSet DEF Walk
    <3>5. j \in X \union {0}
      <4> SUFFICES ASSUME j # 0 PROVE j \in X
        OBVIOUS
      <4>1. j \in ToSet(Walk(tree, j))
        BY <3>2, BranchSet DEF Walk
      <4>2. tree[j].kind # "label"
        BY <3>4, <4>1
      <4> QED
        BY <3>1, <4>2 DEF Closed, Null
    <3>6. PathIn(tree, X, j) = Walk(tree, j)
      BY <3>3, <3>4, <3>5
    <3>7. PathIn(tree, X, i) = Append(PathIn(tree, X, j), i)
      BY <3>1, BranchIs
    <3>8. Walk(tree, i) = Append(Walk(tree, j), i)
      BY <3>1, BranchIs DEF Walk
    <3> QED
      BY <3>6, <3>7, <3>8
  <2> QED
    BY <2>1, <2>2
<1> HIDE DEF G
<1>3. id \in 0..n
  BY <1>1
<1>4. id \in G
  BY <1>1, <1>2, <1>3, ByAge
<1> QED
  BY <1>4 DEF G

\* The leaf is an entry of the session.
LeafKnown == leafId \in Ids(fileEntries) \union {Null}

LEMMA LastIdIn ==
  ASSUME NEW s \in Seq(Int)
  PROVE  LastId(s) \in Ids(s) \union {Null}
<1> DEFINE ids == Only(s, Ids(s))
<1>1. ids \in Seq(Int) /\ ToSet(ids) = ToSet(s) \intersect Ids(s)
  BY OnlyElements
<1>2. LastId(s) = IF ids = <<>> THEN Null ELSE Last(ids)
  BY DEF LastId
<1> HIDE DEF ids
<1>3. ids # <<>> => Last(ids) \in ToSet(ids)
  <2>1. ids # <<>> => Len(ids) \in DOMAIN ids
    BY <1>1
  <2> QED
    BY <2>1 DEF Last, ToSet
<1> QED
  BY <1>1, <1>2, <1>3

\* What a header alone holds, and the list of an old file.
LEMMA SmallLists ==
  /\ ToSet(<<Header>>) = {Header} /\ Ids(<<Header>>) = {}
  /\ Ids(<<Header, 1, 2, 3>>) = 1..3 /\ <<Header, 1, 2, 3>> \in Seq(Int)
<1>1. DOMAIN <<Header>> = {1} /\ <<Header>>[1] = Header
  OBVIOUS
<1>2. ToSet(<<Header>>) = {Header} /\ Ids(<<Header>>) = {}
  BY <1>1 DEF Ids, ToSet
<1>3. <<Header, 1, 2, 3>> \in Seq(Int)
  BY DEF Header
<1> QED
  BY <1>2, <1>3, WholeOld

\* The lists a session is opened with.
LEMMA OpenedList ==
  ASSUME StoreInv, NEW f \in Files, Emptied(f) \/ Opened(f) \/ Converted(f) \/ Copied(f)
  PROVE  /\ fileEntries' \in Seq(Int)
         /\ leafId' = Null \/ leafId' = LastId(fileEntries')
         /\ Emptied(f) => Ids(fileEntries') = {} /\ pending' = fileEntries'
         /\ Opened(f) => Ids(fileEntries') = Ids(Loaded(f)) /\ f \notin old /\ pending' = <<>>
         /\ Converted(f) => Ids(fileEntries') = 1..3 /\ pending' = fileEntries'
         /\ Copied(f) => Ids(fileEntries') = Ids(Loaded(f)) /\ f \notin old /\ pending' = fileEntries'
<1>1. Len(log) \in Nat /\ Loaded(f) \in Seq(0..Len(log)) /\ Loaded(f) \in Seq(Int)
  <2>1. Len(log) \in Nat /\ Loaded(f) \in Seq(0..Len(log))
    BY LoadedType DEF StoreInv, TypeOK
  <2>2. 0..Len(log) \subseteq Int
    BY <2>1
  <2> QED
    BY <2>1, <2>2, SeqMonotonic
<1>2. CASE Emptied(f)
  <2>1. fileEntries' = <<Header>> /\ leafId' = Null /\ pending' = <<Header>>
    BY <1>2 DEF Emptied, Fresh
  <2>2. ~Opened(f) /\ ~Copied(f)
    BY <1>2 DEF Emptied, Opened, Copied
  <2>3. ~Converted(f)
    <3>1. Converted(f) => fileEntries' = <<Header, 1, 2, 3>>
      BY DEF Converted
    <3>2. Ids(<<Header, 1, 2, 3>>) # Ids(<<Header>>)
      BY SmallLists
    <3> QED
      BY <2>1, <3>1, <3>2
  <2> QED
    BY <1>2, <2>1, <2>2, <2>3, HeaderList, SmallLists
<1>3. ASSUME Opened(f)
      PROVE  /\ fileEntries' = Loaded(f) /\ f \notin old /\ pending' = <<>>
             /\ leafId' = LastId(fileEntries')
  BY <1>3 DEF Opened
<1>4. ASSUME Converted(f)
      PROVE  /\ fileEntries' = <<Header, 1, 2, 3>> /\ pending' = fileEntries'
             /\ leafId' = LastId(fileEntries')
  BY <1>4 DEF Converted
<1>5. ASSUME Copied(f)
      PROVE  /\ Ids(fileEntries') = Ids(Loaded(f)) /\ f \notin old /\ pending' = fileEntries'
             /\ leafId' = LastId(fileEntries') /\ fileEntries' \in Seq(Int)
  <2>1. Ids(fileEntries') = Ids(Loaded(f)) /\ fileEntries' \in Seq(0..Len(log))
    BY <1>5, CopiedIs
  <2>2. fileEntries' \in Seq(Int)
    <3>1. 0..Len(log) \subseteq Int
      BY <1>1
    <3> QED
      BY <2>1, <3>1, SeqMonotonic
  <2> QED
    BY <1>5, <2>1, <2>2 DEF Copied
<1>6. CASE ~Emptied(f)
  BY <1>1, <1>3, <1>4, <1>5, <1>6, SmallLists
<1> QED
  BY <1>2, <1>6

LEMMA LeafStep ==
  ASSUME StoreInv, LeafKnown, [Next]_vars
  PROVE  LeafKnown'
<1>1. StepKind
  BY Steps
<1>2. ASSUME NEW e, EntryAdded(e) PROVE LeafKnown'
  <2> DEFINE n == Len(log)
  <2>1. leafId' = n + 1 /\ fileEntries' = Append(fileEntries, n + 1)
    BY <1>2, EntryAddedIs
  <2>2. n \in Nat /\ fileEntries \in Seq(Int)
    BY MemoryTypes, MemoryList
  <2>3. ToSet(fileEntries') = ToSet(fileEntries) \union {n + 1} /\ n + 1 # 0 /\ n + 1 # -1
    BY <2>1, <2>2, AppendedSet
  <2> QED
    BY <2>1, <2>3 DEF LeafKnown, Ids, Header, Garbage
<1>3. ASSUME LeafMoved PROVE LeafKnown'
  BY <1>3 DEF LeafMoved, LeafKnown, Ids
<1>4. ASSUME NEW id \in 1..Len(log), CreateBranchedSession(id) PROVE LeafKnown'
  <2>1. fileEntries' \in Seq(Int) /\ leafId' = LastId(fileEntries')
    BY <1>4, ForkIs, ForkStep
  <2> QED
    BY <2>1, LastIdIn DEF LeafKnown, Ids
<1>5. ASSUME Started \/ Crash PROVE LeafKnown'
  BY <1>5 DEF Started, Crash, Fresh, LeafKnown
<1>6. ASSUME NEW f \in Files, Emptied(f) \/ Opened(f) \/ Converted(f) \/ Copied(f) PROVE LeafKnown'
  <2>1. fileEntries' \in Seq(Int) /\ (leafId' = Null \/ leafId' = LastId(fileEntries'))
    BY <1>6, OpenedList
  <2> QED
    BY <2>1, LastIdIn DEF LeafKnown, Ids
<1>7. ASSUME UNCHANGED <<fileEntries, leafId>> PROVE LeafKnown'
  BY <1>7 DEF LeafKnown, Ids
<1>8. (\E f \in Files : TouchFile(f)) \/ WriteLine \/ WriteFails => UNCHANGED <<fileEntries, leafId>>
  BY DEF TouchFile, WriteLine, WriteFails, memory
<1> QED
  BY <1>1, <1>2, <1>3, <1>4, <1>5, <1>6, <1>7, <1>8 DEF StepKind

\* The items of a list but its last.
LEMMA FrontIn ==
  ASSUME NEW s \in Seq(Int)
  PROVE  Front(s) \in Seq(Int) /\ ToSet(Front(s)) \subseteq ToSet(s)
<1>1. Len(s) \in Nat /\ Len(s) - 1 \in Int /\ 1 \in Int /\ \A i \in 1..Len(s) - 1 : s[i] \in Int
  OBVIOUS
<1> DEFINE t == SubSeq(s, 1, Len(s) - 1)
<1>2. t \in Seq(Int)
  BY <1>1, SubSeqProperties
<1>3. DOMAIN t = 1..Len(s) - 1 /\ \A i \in 1..Len(s) - 1 : t[i] = s[i]
  BY <1>1
<1>4. Front(s) = t /\ DOMAIN s = 1..Len(s)
  BY DEF Front
<1> HIDE DEF t
<1>5. \A i \in DOMAIN t : i \in DOMAIN s /\ t[i] = s[i]
  BY <1>1, <1>3, <1>4
<1>6. ToSet(t) \subseteq ToSet(s)
  BY <1>5 DEF ToSet
<1> QED
  BY <1>2, <1>4, <1>6

\* A step of a write puts nothing on disk but what is about to be written, and
\* lines that cannot be parsed.
LEMMA LinesWritten ==
  ASSUME StoreInv, WriteLine \/ WriteFails \/ Crash
  PROVE  /\ ToSet(disk'[sessionFile]) \subseteq ToSet(disk[sessionFile]) \union ToSet(pending) \union {Garbage}
         /\ \A f \in Files : f # sessionFile => disk'[f] = disk[f]
         /\ ToSet(pending') \subseteq ToSet(pending)
         /\ log' = log /\ old' = old /\ sessionFile' = sessionFile
<1> DEFINE d == disk[sessionFile]
<1>1. d \in Seq(Int) /\ pending \in Seq(Int) /\ Garbage \in Int
  BY FileTypes, MemoryList, MemoryTypes DEF Garbage
<1> HIDE DEF d, Garbage
<1>2. \A x \in Int : ToSet(Append(d, x)) = ToSet(d) \union {x}
  BY <1>1, AppendedSet
<1>3. pending # <<>> => Head(pending) \in ToSet(pending) /\ Head(pending) \in Int
                        /\ ToSet(Tail(pending)) \subseteq ToSet(pending)
  BY <1>1, HeadOrTail
<1>4. CASE WriteLine
  <2>1. /\ disk'[sessionFile] = IF sessionFile \in openTail THEN Append(Front(d), Garbage) ELSE Append(d, Head(pending))
        /\ \A f \in Files : f # sessionFile => disk'[f] = disk[f]
        /\ pending # <<>> /\ pending' = Tail(pending)
        /\ log' = log /\ old' = old /\ sessionFile' = sessionFile
    BY <1>4, WriteLineIs DEF d
  <2>2. ToSet(Append(Front(d), Garbage)) \subseteq ToSet(d) \union {Garbage}
    <3>1. Front(d) \in Seq(Int) /\ ToSet(Front(d)) \subseteq ToSet(d)
      BY <1>1, FrontIn
    <3> DEFINE u == Front(d)
    <3>2. ToSet(Append(u, Garbage)) = ToSet(u) \union {Garbage}
      <4>1. u \in Seq(Int)
        BY <3>1
      <4> HIDE DEF u
      <4> QED
        BY <1>1, <4>1, AppendedSet
    <3> QED
      BY <3>1, <3>2
  <2>3. ToSet(disk'[sessionFile]) \subseteq ToSet(d) \union ToSet(pending) \union {Garbage}
    BY <1>2, <1>3, <2>1, <2>2
  <2> QED
    BY <1>3, <2>1, <2>3 DEF d
<1>5. CASE WriteFails \/ Crash
  <2>1. Interrupted /\ pending' = <<>> /\ log' = log /\ old' = old /\ sessionFile' = sessionFile
    BY <1>5 DEF WriteFails, Crash, memory
  <2>2. /\ \A f \in Files : f # sessionFile => disk'[f] = disk[f]
        /\ \/ disk' = disk
           \/ pending # <<>> /\ \E x \in {Garbage, Head(pending)} : disk'[sessionFile] = Append(d, x)
    BY <2>1, InterruptedIs DEF d
  <2>3. ToSet(disk'[sessionFile]) \subseteq ToSet(d) \union ToSet(pending) \union {Garbage}
    <3>1. CASE disk' = disk
      BY <3>1 DEF d
    <3>2. CASE pending # <<>> /\ \E x \in {Garbage, Head(pending)} : disk'[sessionFile] = Append(d, x)
      <4>1. PICK x \in {Garbage, Head(pending)} : disk'[sessionFile] = Append(d, x)
        BY <3>2
      <4>2. x \in Int /\ x \in ToSet(pending) \union {Garbage}
        BY <1>1, <1>3, <3>2
      <4>3. ToSet(disk'[sessionFile]) = ToSet(d) \union {x}
        BY <1>2, <4>1, <4>2
      <4> QED
        BY <4>2, <4>3
    <3> QED
      BY <2>2, <3>1, <3>2
  <2> QED
    BY <2>1, <2>2, <2>3, EmptySet DEF d
<1> QED
  BY <1>4, <1>5

\* The label entries of a fork are below its path, one below the other.
LEMMA ForkParents ==
  ASSUME StoreInv, NEW id \in 0..Len(log), NEW k \in 1..Len(ForkKept(id))
  PROVE  \/ k = 1 /\ ForkNew(id)[k].parent \in ToSet(ForkPath(id))
         \/ k > 1 /\ ForkNew(id)[k].parent = Len(log) + k - 1
<1> DEFINE n == Len(log)
           path == ForkPath(id)
           kept == ForkKept(id)
<1>1. n \in Nat
  BY MemoryTypes
<1>2. kept \in Seq(1..n) /\ ToSet(kept) \subseteq ToSet(path) /\ path \in Seq(1..n)
  BY ForkKeptIs, ForkPathIs
<1>3. ForkNew(id)[k].parent = IF k = 1 THEN Last(path) ELSE n + k - 1
  BY DEF ForkNew
<1> HIDE DEF n, kept, path
<1>4. Len(kept) \in Nat /\ DOMAIN kept = 1..Len(kept) /\ Len(path) \in Nat /\ DOMAIN path = 1..Len(path)
  BY <1>2
<1>5. k \in 1..Len(kept)
  BY DEF kept
<1>6. Last(path) \in ToSet(path)
  <2>1. kept[k] \in ToSet(path)
    BY <1>2, <1>4, <1>5 DEF ToSet
  <2>2. Len(path) # 0
    BY <1>4, <2>1 DEF ToSet
  <2>3. Len(path) \in DOMAIN path
    BY <1>4, <2>2
  <2> QED
    BY <2>3 DEF Last, ToSet
<1>7. k = 1 \/ k > 1
  BY <1>4, <1>5
<1> QED
  BY <1>3, <1>6, <1>7 DEF n, path

\* The entries of an old file are in no other list until it is migrated, and no
\* later entry is below them.
OldApart ==
  /\ \A f, g \in old : f = g
  /\ old # {} =>
       /\ \A x \in 1..3 : x \notin ToSet(fileEntries) /\ x \notin ToSet(pending)
       /\ \A f \in Files \ old : \A x \in 1..3 : x \notin ToSet(disk[f])
       /\ \A id \in 1..Len(log) : id > 3 => log[id].parent \notin 1..3

LEMMA ApartNext ==
  ASSUME OldApart, old' \subseteq old,
         old' # {} =>
           /\ \A x \in 1..3 : x \notin ToSet(fileEntries') /\ x \notin ToSet(pending')
           /\ \A f \in Files \ old' : \A x \in 1..3 : x \notin ToSet(disk'[f])
           /\ \A id \in 1..Len(log') : id > 3 => log'[id].parent \notin 1..3
  PROVE  OldApart'
  BY DEF OldApart

LEMMA ApartAdded ==
  ASSUME StoreInv, LeafKnown, OldApart, NEW e, EntryAdded(e)
  PROVE  OldApart'
<1> DEFINE n == Len(log)
<1>1. /\ log' \in Seq(Entry) /\ Len(log') = n + 1 /\ log'[n + 1] = e
      /\ \A i \in 1..n : log'[i] = log[i]
      /\ fileEntries' = Append(fileEntries, n + 1)
      /\ disk' = disk /\ old' = old
      /\ pending' = <<>> \/ pending' = <<n + 1>> \/ pending' = fileEntries'
  BY EntryAddedIs
<1>2. n \in Nat /\ fileEntries \in Seq(Int)
  BY MemoryTypes, MemoryList
<1> SUFFICES ASSUME old # {}
             PROVE  /\ \A x \in 1..3 : x \notin ToSet(fileEntries') /\ x \notin ToSet(pending')
                    /\ \A id \in 1..Len(log') : id > 3 => log'[id].parent \notin 1..3
  <2>1. old # {} => \A f \in Files \ old' : \A x \in 1..3 : x \notin ToSet(disk'[f])
    BY <1>1 DEF OldApart
  <2> QED
    BY <1>1, <2>1, ApartNext
<1>3. n >= 3
  <2>1. 3 \in DOMAIN log
    BY DEF StoreInv, OldFilesInv
  <2>2. DOMAIN log = 1..n
    BY MemoryTypes
  <2> QED
    BY <1>2, <2>1, <2>2
<1>4. ToSet(fileEntries') = ToSet(fileEntries) \union {n + 1}
  BY <1>1, <1>2, AppendedSet
<1>5. ToSet(<<n + 1>>) = {n + 1}
  <2>1. DOMAIN <<n + 1>> = {1} /\ <<n + 1>>[1] = n + 1
    OBVIOUS
  <2> QED
    BY <2>1 DEF ToSet
<1>6. \A x \in 1..3 : x # n + 1 /\ x \notin ToSet(fileEntries)
  BY <1>2, <1>3 DEF OldApart
<1>7. \A x \in 1..3 : x \notin ToSet(fileEntries') /\ x \notin ToSet(pending')
  BY <1>1, <1>4, <1>5, <1>6, EmptySet
<1>8. e.parent \notin 1..3
  <2>1. e.parent \in Ids(fileEntries) \union {Null}
    BY DEF EntryAdded, LeafKnown
  <2> QED
    BY <1>6, <2>1 DEF Ids, Null
<1>9. \A id \in 1..n + 1 : id > 3 => log'[id].parent \notin 1..3
  <2> SUFFICES ASSUME NEW id \in 1..n + 1, id > 3 PROVE log'[id].parent \notin 1..3
    OBVIOUS
  <2>1. CASE id = n + 1
    BY <1>1, <1>8, <2>1
  <2>2. CASE id # n + 1
    <3>1. id \in 1..n
      BY <1>2, <2>2
    <3> QED
      BY <1>1, <3>1 DEF OldApart
  <2> QED
    BY <2>1, <2>2
<1> QED
  BY <1>1, <1>7, <1>9

LEMMA ApartForked ==
  ASSUME StoreInv, OldApart, NEW id \in 1..Len(log), CreateBranchedSession(id)
  PROVE  OldApart'
<1> DEFINE n == Len(log)
           m == Len(ForkKept(id))
<1>1. /\ fileEntries' \in Seq(Int) /\ disk' = disk
      /\ pending' = <<>> \/ pending' = fileEntries'
  BY ForkIs
<1>2. n \in Nat /\ id \in 0..n
  BY MemoryTypes
<1>3. old' = old /\ fileEntries' = ForkEntries(id)
  BY ForkStep
<1>4. /\ Len(log') = n + m /\ \A i \in 1..n : log'[i] = log[i]
      /\ \A k \in 1..m : log'[n + k] = ForkNew(id)[k]
  BY <1>2, ForkLists
<1>5. m \in Nat
  <2>1. ForkKept(id) \in Seq(1..n)
    BY <1>2, ForkKeptIs
  <2> QED
    BY <2>1
<1> SUFFICES ASSUME old # {}
             PROVE  /\ \A x \in 1..3 : x \notin ToSet(fileEntries') /\ x \notin ToSet(pending')
                    /\ \A i \in 1..Len(log') : i > 3 => log'[i].parent \notin 1..3
  <2>1. old # {} => \A f \in Files \ old' : \A x \in 1..3 : x \notin ToSet(disk'[f])
    BY <1>1, <1>3 DEF OldApart
  <2> QED
    BY <1>3, <2>1, ApartNext
<1>6. n >= 3
  <2>1. 3 \in DOMAIN log
    BY DEF StoreInv, OldFilesInv
  <2>2. DOMAIN log = 1..n
    BY MemoryTypes
  <2> QED
    BY <1>2, <2>1, <2>2
<1>7. \A x \in 1..3 : x \notin ToSet(ForkPath(id))
  <2>1. ToSet(ForkPath(id)) \subseteq Ids(fileEntries)
    BY <1>2, ForkPathIs
  <2> QED
    BY <2>1 DEF OldApart, Ids
<1>8. \A x \in 1..3 : x \notin ToSet(fileEntries')
  <2> SUFFICES ASSUME NEW x \in 1..3, x \in ToSet(ForkEntries(id)) PROVE FALSE
    BY <1>3
  <2>1. x \in 1..Len(log)
    BY <1>2, <1>6
  <2>2. x \in ToSet(ForkPath(id))
    BY <1>2, <2>1, ForkHolds
  <2> QED
    BY <1>7, <2>2
<1>9. \A x \in 1..3 : x \notin ToSet(pending')
  BY <1>1, <1>8, EmptySet
<1>10. ASSUME NEW i \in 1..Len(log'), i > 3 PROVE log'[i].parent \notin 1..3
  <2>1. CASE i \in 1..n
    BY <1>4, <1>10, <2>1 DEF OldApart
  <2>2. CASE i \notin 1..n
    <3> DEFINE k == i - n
    <3> HIDE DEF m
    <3>1. k \in 1..m /\ i = n + k
      BY <1>2, <1>4, <1>5, <2>2
    <3>2. log'[i] = ForkNew(id)[k]
      BY <1>4, <3>1
    <3>3. \/ k = 1 /\ ForkNew(id)[k].parent \in ToSet(ForkPath(id))
          \/ k > 1 /\ ForkNew(id)[k].parent = n + k - 1
      BY <1>2, <3>1, ForkParents DEF m
    <3>4. CASE k > 1 /\ ForkNew(id)[k].parent = n + k - 1
      BY <1>2, <1>6, <3>1, <3>2, <3>4
    <3>5. CASE ForkNew(id)[k].parent \in ToSet(ForkPath(id))
      BY <1>7, <3>2, <3>5
    <3> QED
      BY <3>3, <3>4, <3>5
  <2> QED
    BY <2>1, <2>2
<1> QED
  BY <1>8, <1>9, <1>10

LEMMA ApartOpened ==
  ASSUME StoreInv, OldApart, NEW f \in Files, Emptied(f) \/ Opened(f) \/ Converted(f) \/ Copied(f)
  PROVE  OldApart'
<1>1. old' \subseteq old /\ (old' # old => Converted(f))
  BY DEF Emptied, Opened, Converted, Copied
<1>2. CASE Converted(f)
  <2>1. f \in old /\ old' = old \ {f}
    BY <1>2 DEF Converted
  <2>2. old' = {}
    BY <2>1 DEF OldApart
  <2> QED
    BY <2>2, ApartNext
<1>3. CASE ~Converted(f)
  <2>1. old' = old /\ log' = log
    BY <1>1, <1>3 DEF Emptied, Opened, Copied
  <2>2. \A g \in Files : disk'[g] = disk[g] \/ disk'[g] = <<>>
    <3>1. disk = [g \in Files |-> disk[g]]
      BY DEF StoreInv, TypeOK
    <3>2. Emptied(f) => disk' = [disk EXCEPT ![f] = <<>>]
      BY DEF Emptied, Truncate
    <3>3. Opened(f) \/ Copied(f) => disk' = disk
      BY DEF Opened, Copied, files
    <3> QED
      BY <1>3, <3>1, <3>2, <3>3
  <2>3. Ids(fileEntries') = {} \/ (f \notin old /\ Ids(fileEntries') = Ids(Loaded(f)))
    BY <1>3, OpenedList
  <2>4. pending' = <<>> \/ pending' = fileEntries'
    BY <1>3, OpenedList
  <2>5. Ids(Loaded(f)) \subseteq ToSet(disk[f])
    BY LoadedIn DEF Ids
  <2>6. \A x \in 1..3 : x # Header /\ x # Garbage
    BY DEF Header, Garbage
  <2>7. ASSUME old # {}, NEW x \in 1..3 PROVE x \notin ToSet(fileEntries')
    <3>1. x \notin Ids(fileEntries')
      BY <2>3, <2>5, <2>7 DEF OldApart
    <3> QED
      BY <2>6, <3>1 DEF Ids
  <2>8. ASSUME old # {}, NEW x \in 1..3 PROVE x \notin ToSet(pending')
    BY <2>4, <2>7, <2>8, EmptySet
  <2>9. ASSUME old # {}, NEW g \in Files \ old, NEW x \in 1..3 PROVE x \notin ToSet(disk'[g])
    BY <2>2, <2>9, EmptySet DEF OldApart
  <2>10. ASSUME old # {}, NEW id \in 1..Len(log), id > 3 PROVE log[id].parent \notin 1..3
    BY <2>10 DEF OldApart
  <2> QED
    BY <2>1, <2>7, <2>8, <2>9, <2>10, ApartNext
<1> QED
  BY <1>2, <1>3

LEMMA ApartOthers ==
  ASSUME StoreInv, OldApart,
         LeafMoved \/ Started \/ WriteLine \/ WriteFails \/ Crash \/ \E f \in Files : TouchFile(f)
  PROVE  OldApart'
<1>1. old' = old /\ log' = log
  BY DEF LeafMoved, Started, WriteLine, WriteFails, Crash, TouchFile
<1>2. fileEntries' = fileEntries \/ fileEntries' = <<Header>>
  BY DEF LeafMoved, Started, Fresh, WriteLine, WriteFails, Crash, TouchFile, memory
<1>3. \A x \in 1..3 : x # Header /\ x # Garbage
  BY DEF Header, Garbage
<1>4. ToSet(pending') \subseteq ToSet(pending)
      /\ \A f \in Files : ToSet(disk'[f]) \subseteq ToSet(disk[f]) \union ToSet(pending) \union {Garbage}
  <2>1. CASE LeafMoved \/ Started \/ \E f \in Files : TouchFile(f)
    BY <2>1 DEF LeafMoved, Started, TouchFile, files
  <2>2. CASE WriteLine \/ WriteFails \/ Crash
    <3>1. /\ ToSet(disk'[sessionFile]) \subseteq ToSet(disk[sessionFile]) \union ToSet(pending) \union {Garbage}
          /\ \A f \in Files : f # sessionFile => disk'[f] = disk[f]
          /\ ToSet(pending') \subseteq ToSet(pending)
      BY <2>2, LinesWritten
    <3> QED
      BY <3>1
  <2> QED
    BY <2>1, <2>2
<1>5. ASSUME old # {}, NEW x \in 1..3 PROVE x \notin ToSet(fileEntries') /\ x \notin ToSet(pending')
  BY <1>2, <1>3, <1>4, <1>5, SmallLists DEF OldApart
<1>6. ASSUME old # {}, NEW f \in Files \ old, NEW x \in 1..3 PROVE x \notin ToSet(disk'[f])
  <2>1. x \notin ToSet(disk[f]) /\ x \notin ToSet(pending)
    BY <1>6 DEF OldApart
  <2> QED
    BY <1>3, <1>4, <2>1
<1>7. ASSUME old # {}, NEW id \in 1..Len(log), id > 3 PROVE log[id].parent \notin 1..3
  BY <1>7 DEF OldApart
<1> QED
  BY <1>1, <1>5, <1>6, <1>7, ApartNext

LEMMA ApartStep ==
  ASSUME StoreInv, LeafKnown, OldApart, [Next]_vars
  PROVE  OldApart'
<1>1. StepKind
  BY Steps
<1>2. ASSUME NEW e, EntryAdded(e) PROVE OldApart'
  BY <1>2, ApartAdded
<1>3. ASSUME NEW id \in 1..Len(log), CreateBranchedSession(id) PROVE OldApart'
  BY <1>3, ApartForked
<1>4. ASSUME NEW f \in Files, Emptied(f) \/ Opened(f) \/ Converted(f) \/ Copied(f) PROVE OldApart'
  BY <1>4, ApartOpened
<1>5. ASSUME LeafMoved \/ Started \/ WriteLine \/ WriteFails \/ Crash \/ \E f \in Files : TouchFile(f)
      PROVE  OldApart'
  BY <1>5, ApartOthers
<1> QED
  BY <1>1, <1>2, <1>3, <1>4, <1>5 DEF StepKind

\* The entry a compaction keeps from is on the path of the compaction, except in a
\* file that is not migrated yet.
KeptOnPath ==
  \A id \in 1..Len(log) :
    log[id].kind = "compaction" =>
      log[id].ref \in ToSet(Walk(log, id)) \/ (id = 3 /\ old # {})

\* The paths of the entries there are stay when entries are added.
LEMMA LongerLog ==
  ASSUME StoreInv, log' \in Seq(Entry), Earlier(log'), Len(log) <= Len(log'),
         \A i \in 1..Len(log) : log'[i] = log[i], NEW id \in 0..Len(log)
  PROVE  Walk(log', id) = Walk(log, id)
<1> DEFINE n == Len(log)
           S == 1..n
<1>1. log \in Seq(Entry) /\ Earlier(log) /\ n \in Nat
  BY MemoryTypes DEF StoreInv, TreeInv, Earlier
<1>2. \A i \in S : log'[i].parent = log[i].parent /\ log[i].parent \in S \union {0}
  BY <1>1, ParentIs
<1>3. id \in S \union {0}
  BY <1>1
<1> HIDE DEF S
<1>4. S \in SUBSET (1..Len(log))
  BY DEF S
<1> QED
  BY <1>1, <1>2, <1>3, <1>4, SamePaths

LEMMA EarlierNext == StoreInv' => Earlier(log') /\ log' \in Seq(Entry)
  BY DEF StoreInv, TreeInv, Earlier, TypeOK

LEMMA KeptAdded ==
  ASSUME StoreInv, StoreInv', LeafKnown, KeptOnPath, NEW e, EntryAdded(e)
  PROVE  KeptOnPath'
<1> DEFINE n == Len(log)
<1>1. /\ log' \in Seq(Entry) /\ Len(log') = n + 1 /\ log'[n + 1] = e
      /\ \A i \in 1..n : log'[i] = log[i]
      /\ old' = old
  BY EntryAddedIs
<1>2. n \in Nat /\ Earlier(log') /\ log \in Seq(Entry) /\ Earlier(log) /\ leafId \in 0..n
  BY EarlierNext, MemoryTypes DEF StoreInv, TreeInv, Earlier
<1>3. \A id \in 0..n : Walk(log', id) = Walk(log, id)
  BY <1>1, <1>2, LongerLog
<1>4. ASSUME e.kind = "compaction" PROVE e.ref \in ToSet(Walk(log', n + 1))
  <2>1. e.parent = leafId /\ e.ref \in ToSet(Branch(Ids(fileEntries), leafId))
    BY <1>4 DEF EntryAdded
  <2>2. Ids(fileEntries) \in SUBSET (1..n)
    BY MemoryTypes, IdsType
  <2>3. e.ref \in ToSet(Walk(log, leafId))
    BY <1>2, <2>1, <2>2, BranchIn, BranchWithin
  <2>4. n + 1 \in 1..Len(log') /\ n + 1 \in 0..Len(log')
    BY <1>1, <1>2
  <2>5. ToSet(Walk(log', n + 1)) = ToSet(Walk(log', e.parent)) \union {n + 1}
    BY <1>1, <1>2, <2>4, BranchSet DEF Walk
  <2> QED
    BY <1>2, <1>3, <2>1, <2>3, <2>5
<1>5. ASSUME NEW id \in 1..n + 1, log'[id].kind = "compaction"
      PROVE  log'[id].ref \in ToSet(Walk(log', id)) \/ (id = 3 /\ old # {})
  <2>1. CASE id = n + 1
    BY <1>1, <1>4, <1>5, <2>1
  <2>2. CASE id # n + 1
    <3>1. id \in 1..n /\ id \in 0..n
      BY <1>2, <2>2
    <3> QED
      BY <1>1, <1>3, <1>5, <3>1 DEF KeptOnPath
  <2> QED
    BY <2>1, <2>2
<1> QED
  BY <1>1, <1>5 DEF KeptOnPath, Walk, PathIn, PathsIn

LEMMA KeptForked ==
  ASSUME StoreInv, StoreInv', KeptOnPath, NEW id \in 1..Len(log), CreateBranchedSession(id)
  PROVE  KeptOnPath'
<1> DEFINE n == Len(log)
           m == Len(ForkKept(id))
<1>1. n \in Nat /\ id \in 0..n /\ Earlier(log') /\ log' \in Seq(Entry)
  BY EarlierNext, MemoryTypes
<1>2. /\ Len(log') = n + m /\ \A i \in 1..n : log'[i] = log[i]
      /\ \A k \in 1..m : log'[n + k] = ForkNew(id)[k]
  BY <1>1, ForkLists
<1>3. m \in Nat
  <2>1. ForkKept(id) \in Seq(1..n)
    BY <1>1, ForkKeptIs
  <2> QED
    BY <2>1
<1>4. old' = old
  BY ForkStep
<1>5. \A i \in 0..n : Walk(log', i) = Walk(log, i)
  BY <1>1, <1>2, <1>3, LongerLog
<1>6. \A k \in 1..m : ForkNew(id)[k].kind = "label"
  BY <1>1, ForkNewIs
<1> HIDE DEF m
<1>7. ASSUME NEW i \in 1..n + m, log'[i].kind = "compaction"
      PROVE  log'[i].ref \in ToSet(Walk(log', i)) \/ (i = 3 /\ old # {})
  <2>1. i \in 1..n /\ i \in 0..n
    <3> SUFFICES ASSUME i \notin 1..n PROVE FALSE
      BY <1>1
    <3>1. i - n \in 1..m /\ i = n + (i - n)
      BY <1>1, <1>3
    <3>2. log'[i].kind = "label"
      BY <1>2, <1>6, <3>1
    <3> QED
      BY <1>7, <3>2
  <2> QED
    BY <1>2, <1>5, <1>7, <2>1 DEF KeptOnPath
<1> QED
  BY <1>2, <1>4, <1>7 DEF KeptOnPath, Walk, PathIn, PathsIn

LEMMA KeptConverted ==
  ASSUME StoreInv, StoreInv', OldApart, KeptOnPath, NEW f \in Files, Converted(f)
  PROVE  KeptOnPath'
<1> DEFINE n == Len(log)
           S == {i \in 1..n : i > 3}
<1>1. /\ log' \in Seq(Entry) /\ Len(log') = n
      /\ \A i \in 1..n :
           /\ log'[i].kind = log[i].kind /\ log'[i].ref = log[i].ref
           /\ log'[i].parent = IF i \in 1..3 THEN i - 1 ELSE log[i].parent
      /\ 1 \in 1..n /\ 2 \in 1..n /\ 3 \in 1..n
      /\ log[1].kind = "user" /\ log[2].kind = "assistant" /\ log[3].kind = "compaction"
      /\ log[3].ref \in 1..2
  BY ConvertedIs
<1>2. n \in Nat /\ Earlier(log') /\ log \in Seq(Entry) /\ Earlier(log)
  BY EarlierNext, MemoryTypes DEF StoreInv, TreeInv, Earlier
<1>3. \A i \in S : log[i].parent \in S \union {0} /\ log'[i].parent = log[i].parent
  <2> SUFFICES ASSUME NEW i \in S PROVE log[i].parent \in S \union {0} /\ log'[i].parent = log[i].parent
    OBVIOUS
  <2>1. log[i].parent \in 0..n
    BY <1>2, ParentIs
  <2>2. log[i].parent \notin 1..3
    <3>1. old # {}
      BY DEF Converted
    <3> QED
      BY <3>1 DEF OldApart
  <2> QED
    BY <1>1, <1>2, <2>1, <2>2
<1>4. \A i \in S : Walk(log', i) = Walk(log, i)
  <2> HIDE DEF S
  <2>1. S \in SUBSET (1..Len(log)) /\ Len(log) <= Len(log')
    BY <1>1, <1>2 DEF S
  <2>2. log \in Seq(Entry) /\ Earlier(log) /\ log' \in Seq(Entry) /\ Earlier(log')
    BY <1>1, <1>2
  <2>3. \A i \in S : log'[i].parent = log[i].parent /\ log[i].parent \in S \union {0}
    BY <1>3
  <2>4. \A i \in S \union {0} : Walk(log', i) = Walk(log, i)
    BY <2>1, <2>2, <2>3, SamePaths
  <2> QED
    BY <2>4
<1>5. {1, 2} \subseteq ToSet(Walk(log', 3))
  <2>1. \A i \in 1..3 : i \in 1..Len(log') /\ i \in 0..Len(log') /\ log'[i].parent = i - 1
    BY <1>1, <1>2
  <2>2. \A i \in 1..3 : ToSet(Walk(log', i)) = ToSet(Walk(log', i - 1)) \union {i}
    BY <1>1, <1>2, <2>1, BranchSet DEF Walk
  <2>3. 1 \in ToSet(Walk(log', 1))
    BY <2>2
  <2>4. ToSet(Walk(log', 2)) = ToSet(Walk(log', 1)) \union {2}
    <3>1. 2 - 1 = 1 /\ 2 \in 1..3
      OBVIOUS
    <3> QED
      BY <2>2, <3>1
  <2>5. ToSet(Walk(log', 3)) = ToSet(Walk(log', 2)) \union {3}
    <3>1. 3 - 1 = 2 /\ 3 \in 1..3
      OBVIOUS
    <3> QED
      BY <2>2, <3>1
  <2> QED
    BY <2>3, <2>4, <2>5
<1>6. ASSUME NEW i \in 1..n, log'[i].kind = "compaction"
      PROVE  log'[i].ref \in ToSet(Walk(log', i))
  <2>1. CASE i > 3
    <3>1. i \in S /\ i # 3
      BY <2>1
    <3> HIDE DEF S
    <3> QED
      BY <1>1, <1>4, <1>6, <3>1 DEF KeptOnPath
  <2>2. CASE i = 3
    <3>1. log[3].ref = 1 \/ log[3].ref = 2
      BY <1>1
    <3> QED
      BY <1>1, <1>5, <2>2, <3>1
  <2>3. CASE i = 1 \/ i = 2
    BY <1>1, <1>6, <2>3
  <2> QED
    BY <1>2, <2>1, <2>2, <2>3
<1> QED
  BY <1>1, <1>6 DEF KeptOnPath, Walk, PathIn, PathsIn

LEMMA KeptStep ==
  ASSUME StoreInv, StoreInv', LeafKnown, OldApart, KeptOnPath, [Next]_vars
  PROVE  KeptOnPath'
<1>1. StepKind
  BY Steps
<1>2. ASSUME UNCHANGED <<log, old>> PROVE KeptOnPath'
  BY <1>2 DEF KeptOnPath, Walk, PathIn, PathsIn
<1>3. ASSUME NEW e, EntryAdded(e) PROVE KeptOnPath'
  BY <1>3, KeptAdded
<1>4. ASSUME NEW id \in 1..Len(log), CreateBranchedSession(id) PROVE KeptOnPath'
  BY <1>4, KeptForked
<1>5. ASSUME NEW f \in Files, Converted(f) PROVE KeptOnPath'
  BY <1>5, KeptConverted
<1>6. ASSUME NEW f \in Files, Emptied(f) \/ Opened(f) \/ Copied(f) \/ TouchFile(f) PROVE UNCHANGED <<log, old>>
  BY <1>6 DEF Emptied, Opened, Copied, TouchFile
<1>7. ASSUME LeafMoved \/ Started \/ WriteLine \/ WriteFails \/ Crash PROVE UNCHANGED <<log, old>>
  BY <1>7 DEF LeafMoved, Started, WriteLine, WriteFails, Crash
<1> QED
  BY <1>1, <1>2, <1>3, <1>4, <1>5, <1>6, <1>7 DEF StepKind

\* As long as no fault occurred: no line is cut short, and every list of entries,
\* in memory and in a file that is complete, has the parents of its entries.
Unbroken ==
  /\ openTail = {} /\ failed = {} /\ \A f \in Files : Garbage \notin ToSet(disk[f])
  /\ Closed(log, Ids(fileEntries))
  /\ \A f \in Files \ old : pending = <<>> \/ f # sessionFile => Closed(log, Ids(disk[f]))

UnbrokenInv == faults = 0 => Unbroken

LEMMA IdsOf ==
  ASSUME NEW n \in Nat, NEW s \in Seq(-1..n)
  PROVE  Ids(s) \subseteq 1..n
<1>1. \A i \in DOMAIN s : s[i] \in -1..n
  BY ElementOfSeq
<1> QED
  BY <1>1 DEF Ids, ToSet, Header, Garbage

LEMMA ClosedGrows ==
  ASSUME NEW tree \in Seq(Entry), Earlier(tree), NEW more,
         \A i \in 1..Len(tree) : more[i].kind = tree[i].kind,
         NEW X \in SUBSET (1..Len(tree)), Closed(tree, X),
         \A i \in X : more[i].parent = tree[i].parent
  PROVE  Closed(more, X)
<1> SUFFICES ASSUME NEW i \in X
             PROVE  more[i].parent \in X \/ more[i].parent = Null \/ more[more[i].parent].kind = "label"
  BY DEF Closed
<1>1. more[i].parent = tree[i].parent
  OBVIOUS
<1>2. tree[i].parent # 0 => tree[i].parent \in 1..Len(tree)
  BY ParentIs
<1>3. tree[i].parent \in X \/ tree[i].parent = 0 \/ tree[tree[i].parent].kind = "label"
  BY DEF Closed, Null
<1> QED
  BY <1>1, <1>2, <1>3 DEF Null

LEMMA ClosedEmpty == \A tree : Closed(tree, {})
  BY DEF Closed

\* Without a fault, what is on disk and about to be written is the list.
LEMMA WrittenIsList ==
  ASSUME StoreInv, SavedInv, ReloadInv, Unbroken, pending # <<>>
  PROVE  ToSet(disk[sessionFile]) \union ToSet(pending) = ToSet(fileEntries)
<1> DEFINE d == disk[sessionFile]
           s == fileEntries
<1>1. d \in Seq(Int) /\ pending \in Seq(Int) /\ s \in Seq(Int) /\ sessionFile \in Files
  BY FileTypes, MemoryList, MemoryTypes
<1>2. ~Torn(sessionFile) /\ failed = {}
  BY <1>1 DEF Torn, Unbroken
<1>3. Missing = {}
  BY <1>2 DEF SavedInv, Saved
<1>4. ~Lost(s, d, pending)
  BY <1>2, <1>3 DEF Missing, Lost
<1>5. Covered(s, d, pending) /\ s # <<>> /\ s[1] = Header
  BY <1>2, <1>4 DEF ReloadInv, GivenUp, Waiting, Following
<1> HIDE DEF d, s
<1>6. ToSet(d) \union ToSet(pending) = ToSet(s)
  BY <1>1, <1>5, CoveredIs
<1> QED
  BY <1>6 DEF d, s

LEMMA UnbrokenNext ==
  Unbroken' <=>
    /\ openTail' = {} /\ failed' = {} /\ \A f \in Files : Garbage \notin ToSet(disk'[f])
    /\ Closed(log', Ids(fileEntries'))
    /\ \A f \in Files \ old' : pending' = <<>> \/ f # sessionFile' => Closed(log', Ids(disk'[f]))
  BY DEF Unbroken, Closed, Ids

LEMMA FileIds ==
  ASSUME StoreInv
  PROVE  /\ log \in Seq(Entry) /\ Earlier(log) /\ Len(log) \in Nat
         /\ Ids(fileEntries) \in SUBSET (1..Len(log))
         /\ \A f \in Files : Ids(disk[f]) \in SUBSET (1..Len(log))
<1>1. log \in Seq(Entry) /\ Earlier(log) /\ Len(log) \in Nat
  BY MemoryTypes DEF StoreInv, TreeInv, Earlier
<1>2. Ids(fileEntries) \in SUBSET (1..Len(log))
  BY MemoryTypes, IdsType
<1>3. \A f \in Files : Ids(disk[f]) \in SUBSET (1..Len(log))
  BY <1>1, FileTypes, IdsOf
<1> QED
  BY <1>1, <1>2, <1>3

LEMMA UnbrokenAdded ==
  ASSUME StoreInv, LeafKnown, Unbroken, NEW e, EntryAdded(e)
  PROVE  Unbroken'
<1> DEFINE n == Len(log)
           X == Ids(fileEntries)
<1>1. /\ log'[n + 1] = e /\ \A i \in 1..n : log'[i] = log[i]
      /\ fileEntries' = Append(fileEntries, n + 1) /\ pending = <<>>
      /\ disk' = disk /\ old' = old /\ openTail' = openTail /\ failed' = failed
  BY EntryAddedIs
<1>2. /\ log \in Seq(Entry) /\ Earlier(log) /\ n \in Nat /\ X \in SUBSET (1..n)
      /\ \A f \in Files : Ids(disk[f]) \in SUBSET (1..n)
      /\ fileEntries \in Seq(Int)
  BY FileIds, MemoryList
<1>3. \A Y \in SUBSET (1..n) : Closed(log, Y) => Closed(log', Y)
  <2> SUFFICES ASSUME NEW Y \in SUBSET (1..n), Closed(log, Y) PROVE Closed(log', Y)
    OBVIOUS
  <2>1. \A i \in 1..Len(log) : log'[i].kind = log[i].kind
    BY <1>1
  <2>2. \A i \in Y : log'[i].parent = log[i].parent
    BY <1>1
  <2> QED
    BY <1>2, <2>1, <2>2, ClosedGrows
<1>4. Ids(fileEntries') = X \union {n + 1}
  <2>1. n + 1 \in Int /\ n + 1 # 0 /\ n + 1 # -1
    BY <1>2
  <2>2. ToSet(fileEntries') = ToSet(fileEntries) \union {n + 1}
    BY <1>1, <1>2, <2>1, AppendedSet
  <2> QED
    BY <2>1, <2>2 DEF Ids, Header, Garbage
<1>5. e.parent \in X \union {Null}
  BY DEF EntryAdded, LeafKnown
<1>6. Closed(log', X)
  BY <1>2, <1>3 DEF Unbroken
<1> HIDE DEF X
<1>7. Closed(log', X \union {n + 1})
  BY <1>1, <1>5, <1>6 DEF Closed
<1>8. \A f \in Files \ old : Closed(log', Ids(disk[f]))
  BY <1>1, <1>2, <1>3 DEF Unbroken
<1> QED
  BY <1>1, <1>4, <1>7, <1>8, UnbrokenNext DEF Unbroken

LEMMA UnbrokenForked ==
  ASSUME StoreInv, Unbroken, NEW id \in 1..Len(log), CreateBranchedSession(id)
  PROVE  Unbroken'
<1> DEFINE n == Len(log)
           m == Len(ForkKept(id))
           X == Ids(fileEntries)
           Y == Ids(fileEntries')
           B == ToSet(PathIn(log, X, id))
           P == ToSet(ForkPath(id))
<1>1. pending = <<>> /\ disk' = disk /\ openTail' = openTail /\ fileEntries' \in Seq(Int)
  BY ForkIs
<1>2. old' = old /\ failed' = failed /\ fileEntries' = ForkEntries(id)
  BY ForkStep DEF bounds
<1>3. /\ log \in Seq(Entry) /\ Earlier(log) /\ n \in Nat /\ X \in SUBSET (1..n) /\ id \in 0..n
      /\ \A f \in Files : Ids(disk[f]) \in SUBSET (1..n)
  BY FileIds
<1>4. /\ Len(log') = n + m /\ \A i \in 1..n : log'[i] = log[i]
      /\ \A k \in 1..m : log'[n + k] = ForkNew(id)[k]
      /\ log' \in Seq(Entry) /\ fileEntries' \in Seq(0..Len(log'))
  BY <1>3, ForkLists
<1>5. m \in Nat /\ \A k \in 1..m : ForkNew(id)[k].kind = "label"
  <2>1. ForkKept(id) \in Seq(1..n)
    BY <1>3, ForkKeptIs
  <2>2. m \in Nat
    BY <2>1
  <2>3. \A k \in 1..m : ForkNew(id)[k].kind = "label"
    BY <1>3, ForkNewIs
  <2> QED
    BY <2>2, <2>3
<1>6. \A Z \in SUBSET (1..n) : Closed(log, Z) => Closed(log', Z)
  <2> SUFFICES ASSUME NEW Z \in SUBSET (1..n), Closed(log, Z) PROVE Closed(log', Z)
    OBVIOUS
  <2>1. \A i \in 1..Len(log) : log'[i].kind = log[i].kind
    BY <1>4
  <2>2. \A i \in Z : log'[i].parent = log[i].parent
    BY <1>4
  <2> QED
    BY <1>3, <2>1, <2>2, ClosedGrows
<1>7. \A f \in Files \ old : Closed(log', Ids(disk[f]))
  BY <1>1, <1>3, <1>6 DEF Unbroken
<1>8. P = B \intersect Unlabelled(X)
  <2> DEFINE b == Branch(X, id)
  <2>1. b = PathIn(log, X, id)
    BY BranchIn
  <2>2. b \in Seq(Int)
    BY <1>3, <2>1, BranchPath DEF PathTo
  <2> HIDE DEF b
  <2>3. ToSet(Only(b, Unlabelled(X))) = ToSet(b) \intersect Unlabelled(X)
    BY <2>2, OnlyElements
  <2>4. ForkPath(id) = Only(b, Unlabelled(X))
    BY DEF ForkPath, b
  <2> QED
    BY <2>1, <2>3, <2>4
<1>9. Y \subseteq 1..n + m
  BY <1>3, <1>4, <1>5, IdsType
<1>10. \A t \in Y : t \in 1..n => t \in P
  BY <1>2, <1>3, ForkHolds DEF Ids
<1>11. P \subseteq Y
  <2>1. P \subseteq ToSet(ForkEntries(id))
    <3> DEFINE path == ForkPath(id)
               new == [k \in 1..m |-> n + k]
               head == <<Header>>
    <3>1. path \in Seq(Int)
      <4>1. path \in Seq(1..n) /\ 1..n \subseteq Int
        BY <1>3, ForkPathIs
      <4> QED
        BY <4>1, SeqMonotonic
    <3>2. new \in Seq(Int)
      BY <1>3, <1>5
    <3>3. head \in Seq(Int) /\ ForkEntries(id) = head \o path \o new
      BY HeaderList DEF ForkEntries
    <3> HIDE DEF path, new, head
    <3> DEFINE u == head \o path
    <3>4. u \in Seq(Int)
      BY <3>1, <3>3
    <3>5. ToSet(head \o path) = ToSet(head) \union ToSet(path)
      BY <3>1, <3>3, JoinedAll
    <3>6. ToSet(u \o new) = ToSet(u) \union ToSet(new)
      <4> HIDE DEF u
      <4> QED
        BY <3>2, <3>4, JoinedAll
    <3> QED
      BY <3>3, <3>5, <3>6 DEF path
  <2>2. P \subseteq X
    BY <1>3, <1>8 DEF Unlabelled
  <2> QED
    BY <1>2, <2>1, <2>2 DEF Ids
<1> HIDE DEF m, X, Y, B, P
<1>12. ASSUME NEW i \in Y
       PROVE  log'[i].parent \in Y \/ log'[i].parent = Null \/ log'[log'[i].parent].kind = "label"
  <2>1. CASE i \in 1..n
    <3>1. i \in P /\ i \in B /\ i \in X
      BY <1>8, <1>10, <1>12, <2>1 DEF Unlabelled
    <3> DEFINE j == log[i].parent
    <3>2. j = log'[i].parent /\ (j # 0 => j \in 1..n)
      BY <1>3, <1>4, <2>1, ParentIs
    <3>3. j \in X \/ j = Null \/ log[j].kind = "label"
      BY <3>1 DEF Unbroken, Closed, X
    <3> HIDE DEF j
    <3>4. CASE j # 0 /\ log[j].kind = "label"
      BY <1>4, <3>2, <3>4
    <3>5. CASE j = 0
      BY <3>2, <3>5 DEF Null
    <3>6. CASE j \in X /\ log[j].kind # "label"
      <4>1. j \in B
        BY <1>3, <3>1, <3>6, BranchParents DEF B, j
      <4>2. j \in Unlabelled(X)
        BY <3>6 DEF Unlabelled, IsKind
      <4> QED
        BY <1>8, <1>11, <3>2, <4>1, <4>2
    <3> QED
      BY <3>3, <3>4, <3>5, <3>6 DEF Null
  <2>2. CASE i \notin 1..n
    <3> DEFINE k == i - n
    <3>1. k \in 1..m /\ i = n + k
      BY <1>3, <1>5, <1>9, <1>12, <2>2
    <3>2. log'[i].parent = ForkNew(id)[k].parent
      BY <1>4, <3>1
    <3>3. \/ k = 1 /\ ForkNew(id)[k].parent \in P
          \/ k > 1 /\ ForkNew(id)[k].parent = n + k - 1
      BY <1>3, <3>1, ForkParents DEF m, P
    <3> HIDE DEF k
    <3>4. CASE ForkNew(id)[k].parent \in P
      BY <1>11, <3>2, <3>4
    <3>5. CASE k > 1 /\ ForkNew(id)[k].parent = n + k - 1
      <4>1. k - 1 \in 1..m /\ n + (k - 1) = n + k - 1
        BY <1>3, <1>5, <3>1, <3>5
      <4>2. log'[n + k - 1].kind = "label"
        BY <1>4, <1>5, <4>1
      <4> QED
        BY <3>2, <3>5, <4>2
    <3> QED
      BY <3>3, <3>4, <3>5
  <2> QED
    BY <2>1, <2>2
<1>13. Closed(log', Y)
  BY <1>12 DEF Closed
<1> QED
  BY <1>1, <1>2, <1>7, <1>13, UnbrokenNext DEF Unbroken, Y

LEMMA UnbrokenOpened ==
  ASSUME StoreInv, OldApart, Unbroken, NEW f \in Files, Emptied(f) \/ Opened(f) \/ Converted(f) \/ Copied(f)
  PROVE  Unbroken'
<1>1. /\ log \in Seq(Entry) /\ Earlier(log) /\ Len(log) \in Nat
      /\ \A g \in Files : Ids(disk[g]) \in SUBSET (1..Len(log))
  BY FileIds
<1>2. pending = <<>> /\ openTail' = {} /\ failed' = {}
  BY DEF Emptied, Opened, Converted, Copied, Truncate, files, bounds, Unbroken
<1>3. Ids(<<>>) = {} /\ ToSet(<<>>) = {}
  BY EmptySet DEF Ids
<1>4. CASE Converted(f)
  <2>1. /\ \A i \in 1..Len(log) : log'[i].kind = log[i].kind
        /\ \A i \in 1..Len(log) : log'[i].parent = IF i \in 1..3 THEN i - 1 ELSE log[i].parent
        /\ 1 \in 1..Len(log) /\ 2 \in 1..Len(log) /\ 3 \in 1..Len(log)
        /\ disk'[f] = <<>> /\ \A g \in Files : g # f => disk'[g] = disk[g]
    BY <1>4, ConvertedIs
  <2>2. Ids(fileEntries') = 1..3 /\ pending' = fileEntries'
    BY <1>4, OpenedList
  <2>3. pending' # <<>>
    BY <1>3, <2>2
  <2>4. sessionFile' = f /\ f \in old
    BY <1>4 DEF Converted
  <2>5. Closed(log', 1..3)
    <3> SUFFICES ASSUME NEW i \in 1..3 PROVE log'[i].parent \in 1..3 \/ log'[i].parent = Null
      BY DEF Closed
    <3>1. log'[i].parent = i - 1
      <4>1. i \in 1..Len(log)
        BY <1>1, <2>1
      <4> QED
        BY <2>1, <4>1
    <3> QED
      BY <3>1 DEF Null
  <2>6. ASSUME NEW g \in Files, g # f PROVE Closed(log', Ids(disk'[g]))
    <3>1. g \notin old /\ disk'[g] = disk[g]
      BY <2>1, <2>4, <2>6 DEF OldApart
    <3>2. Closed(log, Ids(disk[g]))
      BY <1>2, <3>1 DEF Unbroken
    <3>3. \A i \in Ids(disk[g]) : i \notin 1..3
      BY <2>4, <3>1 DEF OldApart, Ids
    <3>4. \A i \in Ids(disk[g]) : log'[i].parent = log[i].parent
      BY <1>1, <2>1, <3>3
    <3>5. Closed(log', Ids(disk[g]))
      <4> DEFINE X == Ids(disk[g])
      <4>1. X \in SUBSET (1..Len(log)) /\ Closed(log, X) /\ \A i \in X : log'[i].parent = log[i].parent
        BY <1>1, <2>6, <3>2, <3>4
      <4>2. \A i \in 1..Len(log) : log'[i].kind = log[i].kind
        BY <2>1
      <4> HIDE DEF X
      <4>3. Closed(log', X)
        BY <1>1, <4>1, <4>2, ClosedGrows
      <4> QED
        BY <4>3 DEF X
    <3> QED
      BY <3>1, <3>5
  <2>7. \A g \in Files : Garbage \notin ToSet(disk'[g])
    BY <1>3, <2>1 DEF Unbroken
  <2> QED
    BY <1>2, <2>2, <2>3, <2>4, <2>5, <2>6, <2>7, UnbrokenNext
<1>5. CASE ~Converted(f)
  <2>1. log' = log /\ old' = old
    BY <1>5 DEF Emptied, Opened, Copied
  <2>2. \A g \in Files : disk'[g] = disk[g] \/ disk'[g] = <<>>
    <3>1. disk = [g \in Files |-> disk[g]]
      BY DEF StoreInv, TypeOK
    <3>2. Emptied(f) => disk' = [disk EXCEPT ![f] = <<>>]
      BY DEF Emptied, Truncate
    <3>3. Opened(f) \/ Copied(f) => disk' = disk
      BY DEF Opened, Copied, files
    <3> QED
      BY <1>5, <3>1, <3>2, <3>3
  <2>3. Closed(log, Ids(fileEntries'))
    <3>1. CASE Emptied(f)
      BY <3>1, OpenedList, ClosedEmpty
    <3>2. CASE Opened(f) \/ Copied(f)
      <4>1. f \notin old /\ Ids(fileEntries') = Ids(Loaded(f)) /\ Loaded(f) # <<>>
        BY <3>2, OpenedList DEF Opened, Copied
      <4>2. Loaded(f) = disk[f]
        BY <4>1, LoadedUntorn DEF Unbroken
      <4> QED
        BY <1>2, <4>1, <4>2 DEF Unbroken
    <3> QED
      BY <1>5, <3>1, <3>2
  <2>4. \A g \in Files \ old : Closed(log, Ids(disk'[g]))
    BY <1>2, <1>3, <2>2, ClosedEmpty DEF Unbroken
  <2>5. \A g \in Files : Garbage \notin ToSet(disk'[g])
    BY <1>3, <2>2 DEF Unbroken
  <2> QED
    BY <1>2, <2>1, <2>3, <2>4, <2>5, UnbrokenNext
<1> QED
  BY <1>4, <1>5

LEMMA UnbrokenWritten ==
  ASSUME StoreInv, SavedInv, ReloadInv, Unbroken, WriteLine
  PROVE  Unbroken'
<1> DEFINE d == disk[sessionFile]
           e == disk'[sessionFile]
<1>1. /\ pending # <<>> /\ pending' = Tail(pending)
      /\ e = IF sessionFile \in openTail THEN Append(Front(d), Garbage) ELSE Append(d, Head(pending))
      /\ \A f \in Files : f # sessionFile => disk'[f] = disk[f]
      /\ openTail' = openTail \ {sessionFile}
      /\ log' = log /\ fileEntries' = fileEntries /\ sessionFile' = sessionFile /\ old' = old
      /\ failed' = failed
  BY WriteLineIs
<1>2. d \in Seq(Int) /\ pending \in Seq(Int) /\ sessionFile \in Files
  BY FileTypes, MemoryList, MemoryTypes
<1>3. ToSet(pending) = {Head(pending)} \union ToSet(pending') /\ Head(pending) \in Int
  BY <1>1, <1>2, HeadOrTail
<1>4. ToSet(d) \union ToSet(pending) = ToSet(fileEntries)
  BY <1>1, WrittenIsList
<1>5. openTail = {} /\ failed = {} /\ Garbage \notin ToSet(d)
  BY <1>2 DEF Unbroken
<1>6. e = Append(d, Head(pending))
  BY <1>1, <1>5
<1> HIDE DEF d, e
<1>7. ToSet(e) = ToSet(d) \union {Head(pending)}
  BY <1>2, <1>3, <1>6, AppendedSet
<1>8. Garbage \notin ToSet(e)
  <2>1. \A i \in DOMAIN fileEntries : fileEntries[i] \in 0..Len(log)
    BY MemoryTypes, ElementOfSeq
  <2>2. Garbage \notin ToSet(fileEntries)
    BY <2>1 DEF ToSet, Garbage
  <2> QED
    BY <1>3, <1>4, <1>7, <2>2
<1>9. \A f \in Files : Garbage \notin ToSet(disk'[f])
  BY <1>1, <1>8 DEF Unbroken, e
<1>10. pending' = <<>> => Ids(disk'[sessionFile]) = Ids(fileEntries)
  <2>1. pending' = <<>> => ToSet(e) = ToSet(fileEntries)
    BY <1>3, <1>4, <1>7, EmptySet
  <2> QED
    BY <2>1 DEF Ids, e
<1>11. Closed(log, Ids(fileEntries))
  BY DEF Unbroken
<1>12. ASSUME NEW f \in Files \ old, pending' = <<>> \/ f # sessionFile
       PROVE  Closed(log, Ids(disk'[f]))
  <2>1. CASE f = sessionFile
    <3>1. pending' = <<>>
      BY <1>12, <2>1
    <3> QED
      BY <1>10, <1>11, <2>1, <3>1
  <2>2. CASE f # sessionFile
    <3>1. disk'[f] = disk[f]
      BY <1>1, <2>2
    <3>2. Closed(log, Ids(disk[f]))
      BY <2>2 DEF Unbroken
    <3> QED
      BY <3>1, <3>2
  <2> QED
    BY <2>1, <2>2
<1>13. openTail' = {} /\ failed' = {}
  BY <1>1, <1>5
<1> QED
  BY <1>1, <1>9, <1>11, <1>12, <1>13, UnbrokenNext

LEMMA UnbrokenOthers ==
  ASSUME StoreInv, Unbroken, LeafMoved \/ Started \/ \E f \in Files : TouchFile(f)
  PROVE  Unbroken'
<1>1. /\ log' = log /\ old' = old /\ disk' = disk /\ openTail' = openTail /\ failed' = failed
      /\ pending' = pending
  BY DEF LeafMoved, Started, TouchFile, files, bounds
<1>2. (fileEntries' = fileEntries /\ sessionFile' = sessionFile) \/ (fileEntries' = <<Header>> /\ pending = <<>>)
  BY DEF LeafMoved, Started, Fresh, TouchFile, memory
<1>3. CASE fileEntries' = fileEntries /\ sessionFile' = sessionFile
  BY <1>1, <1>3, UnbrokenNext DEF Unbroken
<1>4. CASE fileEntries' = <<Header>> /\ pending = <<>>
  <2>1. Closed(log, Ids(fileEntries'))
    BY <1>4, SmallLists, ClosedEmpty
  <2>2. \A f \in Files \ old : Closed(log, Ids(disk[f]))
    BY <1>4 DEF Unbroken
  <2> QED
    BY <1>1, <2>1, <2>2, UnbrokenNext DEF Unbroken
<1> QED
  BY <1>2, <1>3, <1>4

LEMMA UnbrokenStep ==
  ASSUME StoreInv, SavedInv, ReloadInv, LeafKnown, OldApart, UnbrokenInv, [Next]_vars
  PROVE  UnbrokenInv'
<1>1. StepKind
  BY Steps
<1>2. /\ faults' \in Nat /\ faults \in Nat
      /\ faults' = faults \/ ((WriteFails \/ Crash) /\ faults' = faults + 1)
  BY <1>1, FaultsGrow, MemoryTypes
<1> SUFFICES ASSUME faults' = 0 PROVE Unbroken'
  BY DEF UnbrokenInv
<1>3. Unbroken /\ ~WriteFails /\ ~Crash
  BY <1>2 DEF UnbrokenInv, WriteFails, Crash
<1>4. ASSUME NEW e, EntryAdded(e) PROVE Unbroken'
  BY <1>3, <1>4, UnbrokenAdded
<1>5. ASSUME NEW id \in 1..Len(log), CreateBranchedSession(id) PROVE Unbroken'
  BY <1>3, <1>5, UnbrokenForked
<1>6. ASSUME NEW f \in Files, Emptied(f) \/ Opened(f) \/ Converted(f) \/ Copied(f) PROVE Unbroken'
  BY <1>3, <1>6, UnbrokenOpened
<1>7. ASSUME LeafMoved \/ Started \/ \E f \in Files : TouchFile(f) PROVE Unbroken'
  BY <1>3, <1>7, UnbrokenOthers
<1>8. ASSUME WriteLine PROVE Unbroken'
  BY <1>3, <1>8, UnbrokenWritten
<1> QED
  BY <1>1, <1>3, <1>4, <1>5, <1>6, <1>7, <1>8 DEF StepKind

\* What makes PathsIntact inductive, together with SavedInv and ReloadInv.
PathInv == LeafKnown /\ OldApart /\ KeptOnPath /\ UnbrokenInv

LEMMA PathInit == Init => PathInv
<1> SUFFICES ASSUME Init PROVE PathInv
  OBVIOUS
<1>1. fileEntries = <<Header>> /\ leafId = Null /\ openTail = {} /\ pending = <<>> /\ failed = {}
  BY DEF Init
<1>2. \A x \in 1..3 : x # 0 /\ x # -1
  OBVIOUS
<1>3. LeafKnown
  BY <1>1 DEF LeafKnown
<1>4. CASE old = {} /\ log = <<>> /\ disk = [f \in Files |-> <<>>]
  <2>1. OldApart
    BY <1>4 DEF OldApart
  <2>2. KeptOnPath
    <3>1. 1..Len(log) = {}
      BY <1>4
    <3> QED
      BY <3>1 DEF KeptOnPath
  <2>3. \A f \in Files : disk[f] = <<>>
    BY <1>4
  <2>4. Ids(<<>>) = {}
    BY EmptySet DEF Ids
  <2>5. UnbrokenInv
    BY <1>1, <2>3, <2>4, EmptySet, SmallLists, ClosedEmpty DEF UnbrokenInv, Unbroken
  <2> QED
    BY <1>3, <2>1, <2>2, <2>5 DEF PathInv
<1>5. CASE /\ old = {sessionFile} /\ sessionFile \in Files
           /\ disk = [f \in Files |-> IF f = sessionFile THEN <<Header, 1, 2, 3>> ELSE <<>>]
           /\ \E index \in 1..2 :
                log = <<OldEntry("user", Null), OldEntry("assistant", Null), OldEntry("compaction", index)>>
  <2>1. Len(log) = 3 /\ log[1].kind = "user" /\ log[2].kind = "assistant"
    BY <1>5 DEF OldEntry
  <2>2. \A f \in Files \ old : disk[f] = <<>>
    BY <1>5
  <2>3. OldApart
    <3>1. \A id \in 1..Len(log) : ~(id > 3)
      BY <2>1
    <3>2. \A x \in 1..3 : x \notin ToSet(<<Header>>) /\ x \notin ToSet(<<>>)
      BY SmallLists, EmptySet DEF Header
    <3> QED
      BY <1>1, <1>5, <2>2, <3>1, <3>2 DEF OldApart
  <2>4. KeptOnPath
    <3>1. \A id \in 1..Len(log) : id = 1 \/ id = 2 \/ id = 3
      BY <2>1
    <3> QED
      BY <1>5, <2>1, <3>1 DEF KeptOnPath
  <2>5. Ids(<<>>) = {}
    BY EmptySet DEF Ids
  <2>6. \A f \in Files : Garbage \notin ToSet(disk[f])
    <3>1. Garbage \notin ToSet(<<Header, 1, 2, 3>>)
      <4>1. \A i \in 1..Len(<<Header, 1, 2, 3>>) : <<Header, 1, 2, 3>>[i] # Garbage
        BY WholeOld DEF Whole
      <4>2. DOMAIN <<Header, 1, 2, 3>> = 1..Len(<<Header, 1, 2, 3>>)
        OBVIOUS
      <4> DEFINE s == <<Header, 1, 2, 3>>
      <4> HIDE DEF s
      <4>3. \A i \in DOMAIN s : s[i] # Garbage
        BY <4>1, <4>2 DEF s
      <4>4. Garbage \notin ToSet(s)
        BY <4>3 DEF ToSet
      <4> QED
        BY <4>4 DEF s
    <3> QED
      BY <1>5, <3>1, EmptySet
  <2>7. UnbrokenInv
    BY <1>1, <2>2, <2>5, <2>6, SmallLists, ClosedEmpty DEF UnbrokenInv, Unbroken
  <2> QED
    BY <1>3, <2>3, <2>4, <2>7 DEF PathInv
<1> QED
  BY <1>4, <1>5 DEF Init

\* Forks, crashes, failed writes and migrations leave the paths that the context is
\* rebuilt from: without a fault, an entry without label entries above it is in each
\* session with its whole path; and the entry a compaction keeps from is on the path
\* of the compaction.
THEOREM PathsStayIntact == Spec => []PathsIntact
<1>1. StoreInv /\ PathInv => PathsIntact
  <2> SUFFICES ASSUME StoreInv, PathInv PROVE UnlabelledHistoryIntact /\ KeptEntryOnPath
    BY DEF PathsIntact
  <2>1. LeafKnown /\ OldApart /\ KeptOnPath /\ UnbrokenInv
    BY DEF PathInv
  <2>2. /\ log \in Seq(Entry) /\ Earlier(log) /\ Len(log) \in Nat
        /\ Ids(fileEntries) \in SUBSET (1..Len(log)) /\ DOMAIN log = 1..Len(log)
    BY FileIds
  <2>3. UnlabelledHistoryIntact
    <3> SUFFICES ASSUME faults = 0, NEW id \in Ids(fileEntries),
                        \A a \in ToSet(FullBranch(id)) : ~IsKind(a, "label")
                 PROVE  Branch(Ids(fileEntries), id) = FullBranch(id)
      BY DEF UnlabelledHistoryIntact
    <3>1. Closed(log, Ids(fileEntries))
      BY <2>1 DEF UnbrokenInv, Unbroken
    <3>2. \A a \in ToSet(Walk(log, id)) : log[a].kind # "label"
      BY FullBranchIs DEF IsKind
    <3>3. PathIn(log, Ids(fileEntries), id) = Walk(log, id)
      BY <2>2, <3>1, <3>2, BranchComplete
    <3> QED
      BY <3>3, BranchIn, FullBranchIs
  <2>4. KeptEntryOnPath
    <3> SUFFICES ASSUME NEW id \in 1..Len(log), log[id].kind = "compaction", id \in Ids(fileEntries)
                 PROVE  log[id].ref \in ToSet(Walk(log, id))
      BY <2>2, FullBranchIs DEF KeptEntryOnPath, IsKind
    <3>1. ~(id = 3 /\ old # {})
      <4>1. 3 \in 1..3
        OBVIOUS
      <4> QED
        BY <2>1, <4>1 DEF OldApart, Ids
    <3> QED
      BY <2>1, <3>1 DEF KeptOnPath
  <2> QED
    BY <2>3, <2>4
<1>2. StoreInv /\ SavedInv /\ ReloadInv /\ PathInv /\ [Next]_vars /\ StoreInv' => PathInv'
  BY LeafStep, ApartStep, KeptStep, UnbrokenStep DEF PathInv
<1>3. StoreInv /\ SavedInv /\ [Next]_vars => SavedInv'
  BY SavedStep
<1>4. StoreInv /\ ReloadInv /\ [Next]_vars => ReloadInv'
  BY ReloadStep
<1> QED
  BY <1>1, <1>2, <1>3, <1>4, PathInit, SavedInit, ReloadInit, StoreInvariant, PTL DEF Spec
=============================================================================
