------------------------- MODULE AgentSession_proofs -------------------------
(***************************************************************************)
(* Proofs about AgentSession, for any callers, retries and budgets.        *)
(***************************************************************************)
EXTENDS AgentSession, SequenceTheorems, WellFoundedInduction, TLAPS

\* What is proved of numbers by a least counterexample.
LEMMA LeastNat ==
  ASSUME NEW T \in SUBSET Nat, T # {}
  PROVE  \E m \in T : \A n \in T : m <= n
<1> DEFINE R == {p \in Nat \X Nat : p[1] < p[2]}
<1>1. IsWellFoundedOn(R, Nat)
  BY NatLessThanWellFounded DEF OpToRel
<1>2. \A x, y \in Nat : x < y => <<x, y>> \in R
  OBVIOUS
<1> HIDE DEF R
<1>3. PICK m \in T : \A y \in T : ~ (<<y, m>> \in R)
  BY <1>1, WFMin
<1>4. \A n \in T : ~ (n < m)
  BY <1>2, <1>3
<1> QED
  BY <1>4

-----------------------------------------------------------------------------
(* The filter *)

UpTo(g, n, s, S, A) ==
  /\ g \in [0..n -> Seq(A)]
  /\ g[0] = <<>>
  /\ \A i \in 1..n : g[i] = IF s[i] \in S THEN Append(g[i - 1], s[i]) ELSE g[i - 1]

\* One more position of a list that is filtered.
LEMMA UpToMore ==
  ASSUME NEW A, NEW s \in Seq(A), NEW S, NEW n \in 1..Len(s), NEW g, UpTo(g, n - 1, s, S, A)
  PROVE  \E h : UpTo(h, n, s, S, A)
<1> DEFINE new == IF s[n] \in S THEN Append(g[n - 1], s[n]) ELSE g[n - 1]
           h == [i \in 0..n |-> IF i = n THEN new ELSE g[i]]
<1>1. n - 1 \in Nat /\ n \in Nat /\ s[n] \in A /\ n - 1 \in 0..n - 1
  OBVIOUS
<1>2. g \in [0..n - 1 -> Seq(A)] /\ g[0] = <<>>
  BY DEF UpTo
<1>3. new \in Seq(A)
  <2>1. g[n - 1] \in Seq(A)
    BY <1>1, <1>2
  <2> QED
    BY <2>1, <1>1
<1>4. h \in [0..n -> Seq(A)]
  <2> HIDE DEF new
  <2>1. ASSUME NEW i \in 0..n PROVE h[i] \in Seq(A)
    BY <2>1, <1>1, <1>2, <1>3
  <2> QED
    BY <2>1
<1>5. h[0] = <<>>
  BY <1>1, <1>2
<1>6. ASSUME NEW i \in 1..n
      PROVE  h[i] = IF s[i] \in S THEN Append(h[i - 1], s[i]) ELSE h[i - 1]
  <2>1. CASE i = n
    <3>1. h[i] = new /\ h[i - 1] = g[n - 1]
      BY <2>1, <1>1
    <3> QED
      BY <3>1, <2>1
  <2>2. CASE i # n
    <3>1. i \in 1..n - 1 /\ h[i] = g[i] /\ h[i - 1] = g[i - 1]
      BY <2>2, <1>1
    <3>2. g[i] = IF s[i] \in S THEN Append(g[i - 1], s[i]) ELSE g[i - 1]
      BY <3>1 DEF UpTo
    <3> QED
      BY <3>1, <3>2
  <2> QED
    BY <2>1, <2>2
<1> HIDE DEF h
<1>7. UpTo(h, n, s, S, A)
  BY <1>4, <1>5, <1>6 DEF UpTo
<1> QED
  BY <1>7

\* There is a function that filters, because a shorter one can be extended.
LEMMA UpToExists ==
  ASSUME NEW A, NEW s \in Seq(A), NEW S
  PROVE  \E g : UpTo(g, Len(s), s, S, A)
<1> DEFINE Bad == {n \in Nat : n <= Len(s) /\ ~\E g : UpTo(g, n, s, S, A)}
<1>1. Bad = {}
  <2> SUFFICES ASSUME Bad # {} PROVE FALSE
    OBVIOUS
  <2>1. PICK n \in Bad : \A k \in Bad : n <= k
    <3>1. Bad \in SUBSET Nat
      OBVIOUS
    <3> QED
      BY <3>1, LeastNat
  <2>2. CASE n = 0
    <3>1. UpTo([i \in 0..0 |-> <<>>], 0, s, S, A)
      BY DEF UpTo
    <3> QED
      BY <2>2, <3>1
  <2>3. CASE n # 0
    <3>1. n - 1 \in Nat /\ n - 1 <= Len(s) /\ n \in 1..Len(s) /\ ~(n <= n - 1)
      BY <2>3
    <3>2. n - 1 \notin Bad
      <4> HIDE DEF Bad
      <4> QED
        BY <2>1, <3>1
    <3>3. PICK g : UpTo(g, n - 1, s, S, A)
      BY <3>1, <3>2
    <3>4. \E h : UpTo(h, n, s, S, A)
      BY <3>1, <3>3, UpToMore
    <3> QED
      BY <3>4
  <2> QED
    BY <2>2, <2>3
<1>2. Len(s) \in Nat /\ Len(s) <= Len(s)
  OBVIOUS
<1> QED
  BY <1>1, <1>2

\* OnlyUpTo is that function.
LEMMA OnlyUpToIs ==
  ASSUME NEW A, NEW s \in Seq(A), NEW S
  PROVE  UpTo(OnlyUpTo(s, S), Len(s), s, S, A)
<1> DEFINE Rec(f) ==
      f = [i \in 0..Len(s) |-> IF i = 0 THEN <<>>
                               ELSE IF s[i] \in S THEN Append(f[i - 1], s[i]) ELSE f[i - 1]]
<1>1. OnlyUpTo(s, S) = CHOOSE f : Rec(f)
  BY DEF OnlyUpTo
<1>2. PICK g : UpTo(g, Len(s), s, S, A)
  BY UpToExists
<1>3. g \in [0..Len(s) -> Seq(A)] /\ Len(s) \in Nat /\ g[0] = <<>>
  BY <1>2 DEF UpTo
<1>4. \A i \in 0..Len(s) :
        g[i] = IF i = 0 THEN <<>> ELSE IF s[i] \in S THEN Append(g[i - 1], s[i]) ELSE g[i - 1]
  <2> SUFFICES ASSUME NEW i \in 0..Len(s)
               PROVE  g[i] = IF i = 0 THEN <<>>
                             ELSE IF s[i] \in S THEN Append(g[i - 1], s[i]) ELSE g[i - 1]
    OBVIOUS
  <2>1. i = 0 \/ i \in 1..Len(s)
    BY <1>3
  <2> QED
    BY <2>1, <1>2 DEF UpTo
<1>5. Rec(g)
  BY <1>3, <1>4
<1> HIDE DEF Rec
<1>6. Rec(OnlyUpTo(s, S))
  BY <1>1, <1>5
<1> DEFINE f == OnlyUpTo(s, S)
           Bad == {n \in Nat : n <= Len(s) /\ ~(f[n] = g[n])}
<1>7. f = [i \in 0..Len(s) |-> IF i = 0 THEN <<>>
                               ELSE IF s[i] \in S THEN Append(f[i - 1], s[i]) ELSE f[i - 1]]
  BY <1>6 DEF Rec
<1> HIDE DEF f
<1>8. Bad = {}
  <2> SUFFICES ASSUME Bad # {} PROVE FALSE
    OBVIOUS
  <2>1. PICK n \in Bad : \A k \in Bad : n <= k
    <3>1. Bad \in SUBSET Nat
      OBVIOUS
    <3> QED
      BY <3>1, LeastNat
  <2>2. n # 0
    BY <1>3, <1>7, <2>1
  <2>3. n - 1 \in Nat /\ n - 1 <= Len(s) /\ n \in 1..Len(s) /\ ~(n <= n - 1) /\ n \in 0..Len(s)
    BY <2>1, <2>2, <1>3
  <2>4. n - 1 \notin Bad
    <3> HIDE DEF Bad
    <3> QED
      BY <2>1, <2>3
  <2>5. f[n - 1] = g[n - 1]
    BY <2>3, <2>4
  <2>6. f[n] = IF s[n] \in S THEN Append(f[n - 1], s[n]) ELSE f[n - 1]
    BY <1>7, <2>2, <2>3
  <2>7. g[n] = IF s[n] \in S THEN Append(g[n - 1], s[n]) ELSE g[n - 1]
    BY <1>4, <2>2, <2>3
  <2> QED
    BY <2>1, <2>5, <2>6, <2>7
<1>9. \A i \in 0..Len(s) : f[i] = g[i]
  BY <1>8, <1>3
<1>10. f = g
  BY <1>7, <1>9, <1>3
<1> QED
  BY <1>2, <1>10 DEF f

LEMMA OnlyType ==
  ASSUME NEW A, NEW s \in Seq(A), NEW S
  PROVE  Only(s, S) \in Seq(A)
BY OnlyUpToIs DEF Only, UpTo

LEMMA OnlyEmpty == \A S : Only(<<>>, S) = <<>>
<1> SUFFICES ASSUME NEW S PROVE Only(<<>>, S) = <<>>
  OBVIOUS
<1>1. <<>> \in Seq({}) /\ Len(<<>>) = 0
  OBVIOUS
<1>2. UpTo(OnlyUpTo(<<>>, S), 0, <<>>, S, {})
  BY <1>1, OnlyUpToIs
<1> QED
  BY <1>1, <1>2 DEF Only, UpTo

\* A list that is filtered position by position alike up to n.
LEMMA UpToSame ==
  ASSUME NEW A, NEW s, NEW t, NEW S, NEW n \in Nat, NEW m \in Nat, n <= m,
         NEW f, NEW g, UpTo(f, n, s, S, A), UpTo(g, m, t, S, A),
         \A i \in 1..n : s[i] = t[i]
  PROVE  f[n] = g[n]
<1> DEFINE Bad == {k \in Nat : k <= n /\ f[k] # g[k]}
<1>1. Bad = {}
  <2> SUFFICES ASSUME Bad # {} PROVE FALSE
    OBVIOUS
  <2>1. PICK k \in Bad : \A l \in Bad : k <= l
    <3>1. Bad \in SUBSET Nat
      OBVIOUS
    <3> QED
      BY <3>1, LeastNat
  <2>2. k # 0
    BY <2>1 DEF UpTo
  <2>3. k - 1 \in Nat /\ k - 1 <= n /\ k \in 1..n /\ k \in 1..m /\ ~(k <= k - 1)
    BY <2>1, <2>2
  <2>4. f[k - 1] = g[k - 1]
    <3>1. k - 1 \notin Bad
      <4> HIDE DEF Bad
      <4> QED
        BY <2>1, <2>3
    <3> QED
      BY <2>3, <3>1
  <2>5. f[k] = IF s[k] \in S THEN Append(f[k - 1], s[k]) ELSE f[k - 1]
    BY <2>3 DEF UpTo
  <2>6. g[k] = IF t[k] \in S THEN Append(g[k - 1], t[k]) ELSE g[k - 1]
    BY <2>3 DEF UpTo
  <2> QED
    BY <2>1, <2>3, <2>4, <2>5, <2>6
<1> QED
  BY <1>1

\* One more item is left out or comes last.
LEMMA OnlyAppend ==
  ASSUME NEW A, NEW s \in Seq(A), NEW x \in A, NEW S
  PROVE  Only(Append(s, x), S) = IF x \in S THEN Append(Only(s, S), x) ELSE Only(s, S)
<1> DEFINE t == Append(s, x)
           f == OnlyUpTo(s, S)
           g == OnlyUpTo(t, S)
<1>1. t \in Seq(A) /\ Len(t) = Len(s) + 1 /\ t[Len(s) + 1] = x /\ \A i \in 1..Len(s) : t[i] = s[i]
  BY AppendProperties
<1>2. Len(s) \in Nat
  OBVIOUS
<1> HIDE DEF t
<1>3. UpTo(f, Len(s), s, S, A) /\ UpTo(g, Len(s) + 1, t, S, A)
  BY <1>1, OnlyUpToIs
<1> HIDE DEF f, g
<1>4. f[Len(s)] = g[Len(s)]
  <2>1. Len(s) <= Len(s) + 1 /\ Len(s) + 1 \in Nat /\ \A i \in 1..Len(s) : s[i] = t[i]
    BY <1>1, <1>2
  <2> QED
    BY <1>2, <1>3, <2>1, UpToSame
<1>5. Len(s) + 1 \in 1..Len(s) + 1 /\ Len(s) + 1 - 1 = Len(s)
  BY <1>2
<1>6. g[Len(s) + 1] = IF t[Len(s) + 1] \in S THEN Append(g[Len(s)], t[Len(s) + 1]) ELSE g[Len(s)]
  BY <1>3, <1>5 DEF UpTo
<1> QED
  BY <1>1, <1>4, <1>6 DEF Only, f, g, t

\* The same of a list given item by item.
LEMMA OnlyLonger ==
  ASSUME NEW A, NEW s \in Seq(A), NEW t \in Seq(A), NEW S,
         Len(t) = Len(s) + 1, \A i \in 1..Len(s) : t[i] = s[i]
  PROVE  Only(t, S) = IF t[Len(t)] \in S THEN Append(Only(s, S), t[Len(t)]) ELSE Only(s, S)
<1> DEFINE x == t[Len(t)]
<1>1. Len(s) \in Nat /\ x \in A
  BY ElementOfSeq
<1> HIDE DEF x
<1>2. Append(s, x) \in Seq(A) /\ Len(Append(s, x)) = Len(s) + 1
      /\ (\A i \in 1..Len(s) : Append(s, x)[i] = s[i]) /\ Append(s, x)[Len(s) + 1] = x
  BY <1>1, AppendProperties
<1>3. t = Append(s, x)
  <2> DEFINE a == Append(s, x)
  <2>1. \A i \in 1..Len(t) : t[i] = a[i]
    BY <1>1, <1>2 DEF x
  <2>2. a \in Seq(A) /\ Len(a) = Len(t)
    BY <1>2
  <2> HIDE DEF a
  <2>3. t = a
    BY <2>1, <2>2, SeqEqual
  <2> QED
    BY <2>3 DEF a
<1>4. Only(Append(s, x), S) = IF x \in S THEN Append(Only(s, S), x) ELSE Only(s, S)
  BY <1>1, OnlyAppend
<1> QED
  BY <1>3, <1>4 DEF x

\* What one item contributes.
Given(x, S) == IF x \in S THEN <<x>> ELSE <<>>

\* A list has one more item, given position by position.
Longer(t, s, x) ==
  Len(t) = Len(s) + 1 /\ t[Len(t)] = x /\ \A i \in 1..Len(s) : t[i] = s[i]

\* So has what is left of it, when that item is.
Grows(t, s, x, S, A) ==
  Given(x, S) \in Seq(A) /\ Only(t, S) = Only(s, S) \o Given(x, S)

LEMMA OnlyWith ==
  ASSUME NEW A, NEW s \in Seq(A), NEW t \in Seq(A), NEW S, NEW x \in A,
         Longer(t, s, x)
  PROVE  Grows(t, s, x, S, A)
<1> DEFINE q == Only(s, S)
           r == Only(t, S)
<1>1. q \in Seq(A)
  BY OnlyType
<1>2. r = IF x \in S THEN Append(q, x) ELSE q
  BY OnlyLonger DEF Longer
<1> HIDE DEF q, r
<1>3. Given(x, S) \in Seq(A)
  BY DEF Given
<1>4. Append(q, x) = q \o <<x>> /\ q = q \o <<>>
  BY <1>1
<1>5. r = q \o Given(x, S)
  BY <1>2, <1>4, Zenon DEF Given
<1> QED
  BY <1>3, <1>5 DEF q, r, Grows

\* Two lists put together are filtered one by one.
Splits(s, t, S) == Only(s \o t, S) = Only(s, S) \o Only(t, S)

LEMMA SplitsMore ==
  ASSUME NEW A, NEW s \in Seq(A), NEW u \in Seq(A), NEW x \in A, NEW S, Splits(s, u, S),
         NEW t \in Seq(A), Longer(t, u, x)
  PROVE  Splits(s, t, S)
<1> DEFINE su == s \o u
           p == Only(s, S)
           q == Only(u, S)
           st == s \o t
           g == Given(x, S)
<1>1. p \in Seq(A) /\ q \in Seq(A) /\ su \in Seq(A)
  BY OnlyType
<1>2. Only(su, S) = p \o q
  BY DEF Splits
<1>3. Grows(t, u, x, S, A)
  BY OnlyWith, Zenon
<1>4. st \in Seq(A) /\ Longer(st, su, x)
  <2>1. /\ st \in Seq(A) /\ Len(st) = Len(s) + Len(t) /\ Len(su) = Len(s) + Len(u)
        /\ Len(t) = Len(u) + 1 /\ t[Len(t)] = x /\ Len(s) \in Nat /\ Len(u) \in Nat
    BY DEF Longer
  <2>2. st[Len(st)] = x
    BY <2>1
  <2>3. ASSUME NEW i \in 1..Len(su) PROVE st[i] = su[i]
    <3>1. i \in 1..Len(s) \/ i - Len(s) \in 1..Len(u)
      BY <2>1
    <3>2. CASE i \in 1..Len(s)
      BY <2>1, <3>2
    <3>3. CASE i - Len(s) \in 1..Len(u)
      BY <2>1, <3>3 DEF Longer
    <3> QED
      BY <3>1, <3>2, <3>3
  <2> QED
    BY <2>1, <2>2, <2>3 DEF Longer
<1> HIDE DEF su, st
<1>5. Grows(st, su, x, S, A)
  BY <1>1, <1>4, OnlyWith, Zenon
<1>6. g \in Seq(A) /\ Only(t, S) = q \o g /\ Only(st, S) = Only(su, S) \o g
  BY <1>3, <1>5 DEF Grows
<1> HIDE DEF p, q, g
<1>7. (p \o q) \o g = p \o (q \o g)
  BY <1>1, <1>6, SMTT(60)
<1>8. Only(st, S) = p \o Only(t, S)
  BY <1>2, <1>6, <1>7, Zenon
<1> QED
  BY <1>8 DEF st, p, Splits

LEMMA OnlyJoin ==
  ASSUME NEW A, NEW s \in Seq(A), NEW t \in Seq(A), NEW S
  PROVE  Only(s \o t, S) = Only(s, S) \o Only(t, S)
<1> DEFINE Bad == {n \in Nat : \E v \in Seq(A) : Len(v) = n /\ ~Splits(s, v, S)}
<1>1. Bad = {}
  <2> SUFFICES ASSUME Bad # {} PROVE FALSE
    OBVIOUS
  <2>1. PICK n \in Bad : \A k \in Bad : n <= k
    <3>1. Bad \in SUBSET Nat
      OBVIOUS
    <3> QED
      BY <3>1, LeastNat
  <2>2. PICK v \in Seq(A) : Len(v) = n /\ ~Splits(s, v, S)
    BY <2>1
  <2>3. v # <<>>
    <3>1. Only(s, S) \in Seq(A)
      BY OnlyType
    <3>2. s \o <<>> = s /\ Only(s, S) \o <<>> = Only(s, S)
      BY <3>1, ConcatEmptySeq
    <3>3. Splits(s, <<>>, S)
      BY <3>2, OnlyEmpty DEF Splits
    <3> QED
      BY <2>2, <3>3
  <2>4. PICK u \in Seq(A), x \in A : v = Append(u, x)
    BY <2>3, SequenceEmptyOrAppend
  <2>5. Len(u) \in Nat /\ ~(n <= Len(u)) /\ Longer(v, u, x)
    BY <2>2, <2>4 DEF Longer
  <2>6. Splits(s, u, S)
    <3>1. Len(u) \notin Bad
      <4> HIDE DEF Bad
      <4> QED
        BY <2>1, <2>5
    <3> QED
      BY <3>1, <2>5
  <2>7. Splits(s, v, S)
    <3> HIDE DEF Bad
    <3> QED
      BY <2>5, <2>6, SplitsMore, Zenon
  <2> QED
    BY <2>2, <2>7
<1>2. Len(t) \in Nat /\ Len(t) \notin Bad
  BY <1>1
<1>3. Splits(s, t, S)
  BY <1>2
<1> QED
  BY <1>3 DEF Splits

LEMMA OnlyOne ==
  ASSUME NEW x, NEW S
  PROVE  Only(<<x>>, S) = IF x \in S THEN <<x>> ELSE <<>>
<1> DEFINE none == <<>>
           A == {x}
<1>1. none \in Seq(A) /\ x \in A /\ Append(none, x) = <<x>>
  OBVIOUS
<1>2. Only(none, S) = none
  BY OnlyEmpty
<1> HIDE DEF none, A
<1>3. Only(Append(none, x), S) = IF x \in S THEN Append(Only(none, S), x) ELSE Only(none, S)
  BY <1>1, OnlyAppend
<1> QED
  BY <1>1, <1>2, <1>3 DEF none

\* A list is its first item and the others.
LEMMA HeadFirst ==
  ASSUME NEW A, NEW s \in Seq(A), s # <<>>
  PROVE  /\ Head(s) \in A /\ Tail(s) \in Seq(A)
         /\ s = <<Head(s)>> \o Tail(s)
<1>1. Head(s) \in A /\ Tail(s) \in Seq(A)
  BY HeadTailProperties
<1>2. s = <<Head(s)>> \o Tail(s)
  <2>1. Len(s) \in Nat \ {0} /\ 1 \in 1..Len(s) /\ Len(s) \in 1..Len(s)
    BY EmptySeq
  <2>2. SubSeq(s, 1, Len(s)) = <<s[1]>> \o SubSeq(s, 2, Len(s))
    BY <2>1, SubSeqRecursiveFirst
  <2>3. SubSeq(s, 1, Len(s)) = s /\ Tail(s) = SubSeq(s, 2, Len(s)) /\ Head(s) = s[1]
    BY SubSeqFull, TailIsSubSeq
  <2> QED
    BY <2>2, <2>3
<1> QED
  BY <1>1, <1>2

LEMMA OnlyTail ==
  ASSUME NEW A, NEW s \in Seq(A), s # <<>>, NEW S
  PROVE  Only(s, S) = (IF Head(s) \in S THEN <<Head(s)>> ELSE <<>>) \o Only(Tail(s), S)
<1>1. Head(s) \in A /\ Tail(s) \in Seq(A) /\ s = <<Head(s)>> \o Tail(s)
  BY HeadFirst
<1> DEFINE first == <<Head(s)>>
           rest == Tail(s)
<1>2. first \in Seq(A) /\ rest \in Seq(A)
  BY <1>1
<1>3. Only(first, S) = IF Head(s) \in S THEN <<Head(s)>> ELSE <<>>
  BY OnlyOne
<1> HIDE DEF first, rest
<1>4. Only(first \o rest, S) = Only(first, S) \o Only(rest, S)
  BY <1>2, OnlyJoin
<1> QED
  BY <1>1, <1>3, <1>4 DEF first, rest

\* What is left is in the set, and was in the list.
LEMMA OnlyFrom ==
  ASSUME NEW A, NEW S
  PROVE  \A s \in Seq(A) : \A j \in 1..Len(Only(s, S)) :
           Only(s, S)[j] \in S /\ \E k \in 1..Len(s) : Only(s, S)[j] = s[k]
<1> DEFINE Holds(s) == \A j \in 1..Len(Only(s, S)) :
             Only(s, S)[j] \in S /\ \E k \in 1..Len(s) : Only(s, S)[j] = s[k]
           Bad == {n \in Nat : \E s \in Seq(A) : Len(s) = n /\ ~Holds(s)}
<1>1. Bad = {}
  <2> SUFFICES ASSUME Bad # {} PROVE FALSE
    OBVIOUS
  <2>1. PICK n \in Bad : \A k \in Bad : n <= k
    <3>1. Bad \in SUBSET Nat
      OBVIOUS
    <3> QED
      BY <3>1, LeastNat
  <2>2. PICK s \in Seq(A) : Len(s) = n /\ ~Holds(s)
    BY <2>1
  <2>3. CASE s = <<>>
    <3>1. Only(s, S) = <<>>
      BY <2>3, OnlyEmpty
    <3> QED
      BY <2>2, <3>1
  <2>4. CASE s # <<>>
    <3>1. PICK u \in Seq(A), x \in A : s = Append(u, x)
      BY <2>4, SequenceEmptyOrAppend
    <3>2. Len(u) \in Nat /\ Len(s) = Len(u) + 1 /\ ~(n <= Len(u))
      BY <3>1, <2>2
    <3>3. Holds(u)
      <4>1. Len(u) \notin Bad
        <5> HIDE DEF Bad
        <5> QED
          BY <2>1, <3>2
      <4> HIDE DEF Holds
      <4> QED
        BY <4>1, <3>2
    <3>4. \A k \in 1..Len(u) : s[k] = u[k] /\ k \in 1..Len(s)
      BY <3>1, <3>2, AppendProperties
    <3>5. s[Len(s)] = x /\ Len(s) \in 1..Len(s)
      BY <3>1, <3>2, AppendProperties
    <3>6. Only(s, S) = IF x \in S THEN Append(Only(u, S), x) ELSE Only(u, S)
      BY <3>1, OnlyAppend
    <3> DEFINE q == Only(u, S)
               r == Only(s, S)
    <3>7. q \in Seq(A)
      BY OnlyType
    <3>8. \A j \in 1..Len(q) : q[j] \in S /\ \E k \in 1..Len(u) : q[j] = u[k]
      BY <3>3
    <3>9. r = IF x \in S THEN Append(q, x) ELSE q
      BY <3>6
    <3> HIDE DEF q, r
    <3>10. ASSUME NEW j \in 1..Len(r) PROVE r[j] \in S /\ \E k \in 1..Len(s) : r[j] = s[k]
      <4>1. CASE x \notin S
        BY <3>4, <3>8, <3>9, <4>1
      <4>2. CASE x \in S
        <5>1. Len(r) = Len(q) + 1 /\ r[Len(q) + 1] = x /\ \A i \in 1..Len(q) : r[i] = q[i]
          BY <3>7, <3>9, <4>2, AppendProperties
        <5>2. j \in 1..Len(q) \/ j = Len(q) + 1
          BY <3>7, <5>1
        <5> QED
          BY <3>4, <3>5, <3>8, <4>2, <5>1, <5>2
      <4> QED
        BY <4>1, <4>2
    <3> QED
      BY <2>2, <3>10 DEF r
  <2> QED
    BY <2>3, <2>4
<1>2. ASSUME NEW s \in Seq(A) PROVE Holds(s)
  <2>1. Len(s) \in Nat /\ Len(s) \notin Bad
    BY <1>1
  <2> QED
    BY <2>1
<1> QED
  BY <1>2

LEMMA OnlyIn ==
  ASSUME NEW A, NEW s \in Seq(A), NEW S
  PROVE  Only(s, S) \in Seq(S)
<1> DEFINE q == Only(s, S)
<1>1. q \in Seq(A) /\ \A j \in 1..Len(q) : q[j] \in S
  BY OnlyType, OnlyFrom
<1> HIDE DEF q
<1>2. Len(q) \in Nat /\ q \in [1..Len(q) -> S]
  BY <1>1, LenProperties
<1> QED
  BY <1>2 DEF q

-----------------------------------------------------------------------------
(* The operators of the session *)

LEMMA ItemIs ==
  ASSUME TypeOK
  PROVE  \A kind \in Kinds : Item(kind) \in ItemsOf({kind}) /\ Item(kind) \in Items
BY DEF TypeOK, Item, Items, ItemsOf, Kinds

\* A finite number of positions has a last one.
LEMMA GreatestBelow ==
  ASSUME NEW n \in Nat, NEW T \in SUBSET (1..n), T # {}
  PROVE  \E m \in T : \A k \in T : k <= m
<1> DEFINE D == {n - k : k \in T}
<1>1. D \in SUBSET Nat /\ D # {}
  <2>1. \A k \in T : k \in 1..n /\ n - k \in Nat
    OBVIOUS
  <2>2. D \in SUBSET Nat
    BY <2>1
  <2>3. PICK k \in T : TRUE
    OBVIOUS
  <2>4. n - k \in D
    BY <2>3
  <2> QED
    BY <2>2, <2>4
<1>2. PICK d \in D : \A e \in D : d <= e
  <2> HIDE DEF D
  <2> QED
    BY <1>1, LeastNat
<1>3. PICK m \in T : d = n - m
  BY <1>2
<1>4. ASSUME NEW k \in T PROVE k <= m
  <2>1. n - k \in D
    OBVIOUS
  <2>2. d <= n - k
    BY <1>2, <2>1
  <2> QED
    BY <1>3, <2>2
<1> QED
  BY <1>4

LEMMA LatestSummaryIs ==
  ASSUME NEW es \in Seq(Items)
  PROVE  /\ LatestSummary(es) \in 0..Len(es)
         /\ LatestSummary(es) = 0 <=> Summaries(es) = {}
         /\ LatestSummary(es) # 0 => es[LatestSummary(es)].kind \in SummaryKinds
         /\ \A j \in Summaries(es) : j <= LatestSummary(es)
<1>1. Summaries(es) \in SUBSET (1..Len(es)) /\ Len(es) \in Nat
  BY DEF Summaries
<1>2. CASE Summaries(es) = {}
  BY <1>1, <1>2 DEF LatestSummary
<1>3. CASE Summaries(es) # {}
  <2>1. \E m \in Summaries(es) : \A k \in Summaries(es) : k <= m
    BY <1>1, <1>3, GreatestBelow
  <2>2. LatestSummary(es) \in Summaries(es) /\ \A j \in Summaries(es) : j <= LatestSummary(es)
    BY <1>3, <2>1 DEF LatestSummary
  <2> QED
    BY <1>1, <1>3, <2>2 DEF Summaries
<1> QED
  BY <1>2, <1>3

\* The parts of the context: the summary, what it keeps, and what follows it.
KeptBefore(es) ==
  LET i == LatestSummary(es)
      before == SubSeq(es, 1, i - 1)
      kept == {k \in DOMAIN before : before[k].n = es[i].first}
  IN  IF kept = {} THEN <<>>
      ELSE Only(SubSeq(before, CHOOSE k \in kept : TRUE, i - 1), ItemsOf(Kinds \ SummaryKinds))

LEMMA BuildContextIs ==
  ASSUME NEW es \in Seq(Items)
  PROVE  /\ KeptBefore(es) \in Seq(Items)
         /\ BuildContext(es) \in Seq(Items)
         /\ LatestSummary(es) = 0 => BuildContext(es) = es
         /\ LatestSummary(es) # 0 =>
              BuildContext(es) = <<es[LatestSummary(es)]>> \o KeptBefore(es)
                                   \o SubSeq(es, LatestSummary(es) + 1, Len(es))
<1> DEFINE i == LatestSummary(es)
           before == SubSeq(es, 1, i - 1)
           kept == {k \in DOMAIN before : before[k].n = es[i].first}
           from == SubSeq(before, CHOOSE k \in kept : TRUE, i - 1)
           after == SubSeq(es, i + 1, Len(es))
           keep == KeptBefore(es)
<1>1. i \in 0..Len(es) /\ Len(es) \in Nat
  BY LatestSummaryIs
<1>2. keep \in Seq(Items)
  <2>1. CASE kept = {}
    BY <2>1 DEF KeptBefore
  <2>2. CASE kept # {}
    <3>1. i # 0
      <4>1. ASSUME i = 0 PROVE kept = {}
        <5>1. SubSeq(es, 1, 0 - 1) = <<>>
          BY <1>1
        <5> QED
          BY <4>1, <5>1
      <4> QED
        BY <2>2, <4>1
    <3>2. before \in Seq(Items) /\ Len(before) = i - 1
      BY <1>1, <3>1
    <3>3. (CHOOSE k \in kept : TRUE) \in 1..i - 1
      BY <2>2, <3>2
    <3> HIDE DEF before, kept
    <3>4. from \in Seq(Items)
      <4> DEFINE m == CHOOSE k \in kept : TRUE
                 l == i - 1
      <4>1. m \in 1..l /\ l \in Nat /\ Len(before) = l
        BY <1>1, <3>1, <3>2, <3>3
      <4> HIDE DEF m, l
      <4>2. SubSeq(before, m, l) \in Seq(Items)
        BY <3>2, <4>1
      <4> QED
        BY <4>2 DEF m, l
    <3>5. keep = Only(from, ItemsOf(Kinds \ SummaryKinds))
      BY <2>2 DEF KeptBefore, before, kept
    <3> HIDE DEF from
    <3> QED
      BY <3>4, <3>5, OnlyType
  <2> QED
    BY <2>1, <2>2
<1>3. i # 0 => after \in Seq(Items) /\ <<es[i]>> \in Seq(Items)
  BY <1>1
<1>4. i # 0 => BuildContext(es) = <<es[i]>> \o keep \o after
  BY DEF BuildContext, KeptBefore
<1>5. i = 0 => BuildContext(es) = es
  BY DEF BuildContext
<1>6. i # 0 => BuildContext(es) \in Seq(Items)
  <2> SUFFICES ASSUME i # 0 PROVE BuildContext(es) \in Seq(Items)
    OBVIOUS
  <2> DEFINE one == <<es[i]>>
  <2>1. one \in Seq(Items) /\ after \in Seq(Items) /\ BuildContext(es) = one \o keep \o after
    BY <1>3, <1>4
  <2> HIDE DEF one, after, keep
  <2>2. one \o keep \o after \in Seq(Items)
    BY <1>2, <2>1
  <2> QED
    BY <2>1, <2>2
<1> QED
  BY <1>2, <1>4, <1>5, <1>6

LEMMA LastAssistantIs ==
  ASSUME NEW ms \in Seq(Items)
  PROVE  /\ LastAssistantIn(ms) \in Items
         /\ EndsWithAssistant(ms) => LastAssistantIn(ms) = Last(ms)
         /\ (\E i \in DOMAIN ms : IsAssistant(ms[i])) =>
              \E i \in DOMAIN ms : LastAssistantIn(ms) = ms[i] /\ IsAssistant(ms[i])
                /\ \A j \in i+1..Len(ms) : ~IsAssistant(ms[j])
<1> DEFINE T == {i \in DOMAIN ms : IsAssistant(ms[i])}
           P(i) == IsAssistant(ms[i]) /\ \A j \in i+1..Len(ms) : ~IsAssistant(ms[j])
<1>1. T \in SUBSET (1..Len(ms)) /\ Len(ms) \in Nat /\ DOMAIN ms = 1..Len(ms)
  OBVIOUS
<1>2. NoItem \in Items
  BY DEF NoItem, Items, ItemsOf, Kinds
<1>3. CASE T = {}
  <2>1. ~\E i \in DOMAIN ms : IsAssistant(ms[i])
    BY <1>3
  <2>2. LastAssistantIn(ms) = NoItem
    BY <2>1 DEF LastAssistantIn
  <2>3. ~EndsWithAssistant(ms)
    BY <1>1, <2>1 DEF EndsWithAssistant, Last
  <2> QED
    BY <1>2, <2>1, <2>2, <2>3
<1>4. CASE T # {}
  <2>1. PICK m \in T : \A k \in T : k <= m
    BY <1>1, <1>4, GreatestBelow
  <2>2. m \in DOMAIN ms /\ P(m)
    BY <1>1, <2>1
  <2>3. LastAssistantIn(ms) = ms[CHOOSE i \in DOMAIN ms : P(i)]
    BY <1>4 DEF LastAssistantIn
  <2>4. PICK i \in DOMAIN ms : P(i) /\ LastAssistantIn(ms) = ms[i]
    <3> HIDE DEF P
    <3> QED
      BY <2>2, <2>3
  <2>5. ms[i] \in Items
    BY <1>1, ElementOfSeq
  <2>6. ASSUME EndsWithAssistant(ms) PROVE ms[i] = Last(ms)
    <3>1. Len(ms) \in DOMAIN ms /\ IsAssistant(ms[Len(ms)])
      BY <1>1, <2>6 DEF EndsWithAssistant, Last
    <3>2. i = Len(ms)
      BY <1>1, <2>4, <3>1
    <3> QED
      BY <3>2 DEF Last
  <2> QED
    BY <2>4, <2>5, <2>6
<1> QED
  BY <1>3, <1>4

\* The first occurrence of an item is the item before which there is none.
LEMMA RemoveFirstIs ==
  ASSUME NEW A, NEW s \in Seq(A), NEW x
  PROVE  /\ RemoveFirst(s, x) \in Seq(A)
         /\ (\A i \in 1..Len(s) : s[i] # x) => RemoveFirst(s, x) = s
         /\ s # <<>> /\ Head(s) = x => RemoveFirst(s, x) = Tail(s)
         /\ \A i \in 1..Len(RemoveFirst(s, x)) : \E j \in 1..Len(s) : RemoveFirst(s, x)[i] = s[j]
<1> DEFINE I == {i \in 1..Len(s) : s[i] = x}
<1>1. I \in SUBSET Nat /\ Len(s) \in Nat
  OBVIOUS
<1>2. CASE I = {}
  <2>1. RemoveFirst(s, x) = s
    BY <1>2 DEF RemoveFirst
  <2>2. s # <<>> => Head(s) # x
    BY <1>2
  <2> QED
    BY <2>1, <2>2
<1>3. CASE I # {}
  <2>1. PICK m \in I : \A k \in I : m <= k
    BY <1>1, <1>3, LeastNat
  <2>2. Min(I) = m
    BY <1>1, <2>1 DEF Min
  <2>3. RemoveFirst(s, x) = SubSeq(s, 1, m - 1) \o SubSeq(s, m + 1, Len(s))
    <3>1. SelectInSeq(s, LAMBDA v : v = x) = m
      BY <1>3, <2>2 DEF SelectInSeq
    <3> QED
      BY <1>3, <3>1 DEF RemoveFirst, RemoveAt
  <2> DEFINE a == SubSeq(s, 1, m - 1)
             b == SubSeq(s, m + 1, Len(s))
  <2>4. m \in 1..Len(s)
    BY <2>1
  <2>5. /\ a \in Seq(A) /\ Len(a) = m - 1 /\ \A i \in 1..m - 1 : a[i] = s[i]
        /\ b \in Seq(A) /\ Len(b) = Len(s) - m /\ \A i \in 1..Len(s) - m : b[i] = s[i + m]
    <3> HIDE DEF I
    <3> QED
      BY <1>1, <2>4
  <2>6. m = 1 => a = <<>> /\ b = Tail(s)
    BY <1>1, <2>4
  <2>7. s # <<>> /\ Head(s) = x => m = 1
    <3> SUFFICES ASSUME s # <<>>, Head(s) = x PROVE m = 1
      OBVIOUS
    <3>1. 1 \in I
      BY <1>1
    <3> QED
      BY <1>1, <2>1, <3>1
  <2> HIDE DEF a, b
  <2>8. a \o b \in Seq(A) /\ (a = <<>> => a \o b = b)
    BY <2>5
  <2>9. ~\A i \in 1..Len(s) : s[i] # x
    BY <1>3
  <2>10. ASSUME NEW i \in 1..Len(a \o b) PROVE \E j \in 1..Len(s) : (a \o b)[i] = s[j]
    <3> HIDE DEF I
    <3>1. CASE i <= m - 1
      <4>1. i \in 1..m - 1 /\ (a \o b)[i] = a[i] /\ i \in 1..Len(s)
        BY <1>1, <2>4, <2>5, <3>1
      <4> QED
        BY <4>1, <2>5
    <3>2. CASE ~(i <= m - 1)
      <4>1. (a \o b)[i] = b[i - (m - 1)] /\ i - (m - 1) \in 1..Len(s) - m /\ i + 1 \in 1..Len(s)
            /\ i - (m - 1) + m = i + 1
        BY <1>1, <2>4, <2>5, <3>2
      <4> QED
        BY <4>1, <2>5
    <3> QED
      BY <3>1, <3>2
  <2>11. RemoveFirst(s, x) = a \o b
    BY <2>3 DEF a, b
  <2> QED
    BY <2>6, <2>7, <2>8, <2>9, <2>10, <2>11
<1> QED
  BY <1>2, <1>3

LEMMA DropReplyIs ==
  ASSUME NEW ms \in Seq(Items)
  PROVE  /\ DropReply(ms) \in Seq(Items)
         /\ ms # <<>> => /\ Last(ms) \in Items /\ Front(ms) \in Seq(Items)
                         /\ Len(Front(ms)) = Len(ms) - 1 /\ Len(ms) \in 1..Len(ms)
                         /\ Last(ms) = ms[Len(ms)] /\ \A i \in 1..Len(ms) - 1 : Front(ms)[i] = ms[i]
                         /\ Longer(ms, Front(ms), Last(ms))
<1>1. ms # <<>> => /\ Len(ms) \in Nat \ {0}
                   /\ Front(ms) \in Seq(Items) /\ Len(Front(ms)) = Len(ms) - 1
                   /\ Last(ms) \in Items /\ Len(ms) \in 1..Len(ms)
                   /\ Last(ms) = ms[Len(ms)] /\ \A i \in 1..Len(ms) - 1 : Front(ms)[i] = ms[i]
  <2> SUFFICES ASSUME ms # <<>>
               PROVE  /\ Len(ms) \in Nat \ {0}
                      /\ Front(ms) \in Seq(Items) /\ Len(Front(ms)) = Len(ms) - 1
                      /\ Last(ms) \in Items /\ Len(ms) \in 1..Len(ms)
                      /\ Last(ms) = ms[Len(ms)] /\ \A i \in 1..Len(ms) - 1 : Front(ms)[i] = ms[i]
    OBVIOUS
  <2>1. Len(ms) \in Nat \ {0} /\ Len(ms) \in 1..Len(ms)
    OBVIOUS
  <2>2. Last(ms) \in Items /\ Last(ms) = ms[Len(ms)]
    BY <2>1, ElementOfSeq DEF Last
  <2>3. Front(ms) \in Seq(Items) /\ Len(Front(ms)) = Len(ms) - 1
    <3> DEFINE m == Len(ms) - 1
    <3>1. m \in Nat /\ m <= Len(ms)
      BY <2>1
    <3> HIDE DEF m
    <3>2. SubSeq(ms, 1, m) \in Seq(Items) /\ Len(SubSeq(ms, 1, m)) = m
      BY <2>1, <3>1
    <3> QED
      BY <3>2 DEF Front, m
  <2>4. \A i \in 1..Len(ms) - 1 : Front(ms)[i] = ms[i]
    BY <2>1 DEF Front
  <2> QED
    BY <2>1, <2>2, <2>3, <2>4
<1>2. ms # <<>> => Longer(ms, Front(ms), Last(ms))
  BY <1>1 DEF Longer
<1> QED
  BY <1>1, <1>2 DEF DropReply, EndsWithAssistant

-----------------------------------------------------------------------------
(* The steps of a session, of its own clients' and of the terminal's making *)

\* What a step does to the clock and the inputs left does not matter here.
Time == clock' \in Nat /\ clock <= clock' /\ left' \in [Inputs -> Nat]

UserItem(item) == item \in ItemsOf({"user"}) /\ item.n <= clock'
UserItems(s) == s \in Seq(ItemsOf({"user"})) /\ \A i \in 1..Len(s) : UserItem(s[i])

RestVars == <<messages, streaming, ending, owner, connected, events, handlerVars, compactVars,
              timers, pendingBash, fileVars, admin, disturbed>>

Steers ==
  /\ \E more : UserItems(more) /\ queued' = queued \o more /\ shown' = shown \o more
  /\ ~disturbed => events = <<>> /\ admin = "none"
  /\ UNCHANGED <<RestVars, aborting, retryVars, pc>>
Replaces ==
  /\ \E more : UserItems(more) /\ queued' = more /\ shown' = more
  /\ disturbed
  /\ UNCHANGED <<RestVars, aborting, retryVars, pc>>
Clears ==
  /\ queued' = <<>> /\ shown' = <<>>
  /\ aborting' \in BOOLEAN
  /\ UNCHANGED <<RestVars, retryVars, pc>>
Stops ==
  /\ AbortRetryEffects
  /\ aborting' \in BOOLEAN
  /\ UNCHANGED <<messages, streaming, ending, owner, connected, events, lastAssistant,
                 overflowTried, compactVars, timers, pendingBash, fileVars, admin, disturbed,
                 queued, shown>>
Idles == UNCHANGED <<RestVars, aborting, retryVars, pc, queued, shown>>

BeginsPrompt(c) == \E more : UserItems(more) /\ PromptBeginWith(c, more)
StartsPrompt(c) ==
  \E user : /\ UserItem(user)
            /\ ~disturbed => \A i \in 1..Len(queued) : queued[i] # user
            /\ PromptStartWith(c, user)
GivesUpPrompt(c) ==
  PromptThrows(c) /\ ((queued' = queued /\ shown' = shown) \/ (queued' = <<>> /\ shown' = <<>>))
Compacts(w) ==
  \/ PrepareCompaction(w) \/ StopCompaction(w)
  \/ \E waiting \in BOOLEAN : FinishCompactionWith(w, waiting)

SessionAction ==
  \/ \E w \in Workers : Compacts(w)
  \/ AbortCompactions \/ QueueMessage(Item("user")) \/ Steers \/ Replaces \/ Clears \/ Stops
  \/ Idles
  \/ \E c \in Callers : \/ BeginsPrompt(c) \/ PromptCheck(c) \/ StartsPrompt(c)
                        \/ GivesUpPrompt(c)
  \/ ReplyAndGoOn \/ ReplyAndDeliver \/ EndRun \/ \E kind \in AssistantKinds : LastReply(kind)
  \/ ContinueSwallowed \/ Continue
  \/ HandleStart \/ HandleUser \/ HandleResult \/ HandleAssistant \/ HandleEndRetry \/ HandleEnd
  \/ SleepEnds \/ RecordBash
  \/ \E operation \in {"new", "switch", "compact"} : AdminBegin(operation)
  \/ NewSession \/ SwitchSession \/ ManualCompact
SessionStep == Time /\ SessionAction

-----------------------------------------------------------------------------
(* Types *)

LEMMA EntriesType ==
  ASSUME TypeOK
  PROVE  /\ entries \in Seq(Items) /\ DOMAIN entries = 1..Len(entries)
         /\ current \in 1..Len(files) /\ current \in Nat
BY DEF TypeOK, entries

\* A file of the session manager is replaced.
LEMMA FileReplaced ==
  ASSUME TypeOK, NEW es \in Seq(Items)
  PROVE  /\ [files EXCEPT ![current] = es] \in Seq(Seq(Items))
         /\ DOMAIN [files EXCEPT ![current] = es] = DOMAIN files /\ DOMAIN files = 1..Len(files)
         /\ [files EXCEPT ![current] = es][current] = es
         /\ \A s \in DOMAIN files \ {current} : [files EXCEPT ![current] = es][s] = files[s]
<1>1. files \in Seq(Seq(Items)) /\ current \in 1..Len(files) /\ DOMAIN files = 1..Len(files)
  BY DEF TypeOK
<1>2. entries \in Seq(Items)
  BY <1>1 DEF entries
<1> DEFINE A == Seq(Items)
<1>3. files \in Seq(A) /\ es \in A
  BY <1>1
<1> HIDE DEF A
<1>4. [files EXCEPT ![current] = es] \in Seq(A)
  BY <1>1, <1>3, ExceptSeq
<1> QED
  BY <1>1, <1>2, <1>4 DEF A

LEMMA EntryAppended ==
  ASSUME TypeOK, NEW item \in Items
  PROVE  /\ AppendEntry(item) \in Seq(Seq(Items)) /\ current \in DOMAIN AppendEntry(item)
         /\ Append(entries, item) \in Seq(Items)
         /\ AppendEntry(item) = [files EXCEPT ![current] = Append(entries, item)]
<1>1. entries \in Seq(Items) /\ Append(entries, item) \in Seq(Items)
  BY EntriesType
<1>2. AppendEntry(item) = [files EXCEPT ![current] = Append(entries, item)]
  BY DEF AppendEntry, entries
<1> DEFINE es == Append(entries, item)
<1>3. es \in Seq(Items) /\ AppendEntry(item) = [files EXCEPT ![current] = es]
  BY <1>1, <1>2
<1> HIDE DEF es
<1>4. AppendEntry(item) \in Seq(Seq(Items)) /\ current \in DOMAIN AppendEntry(item)
  BY <1>3, FileReplaced
<1> QED
  BY <1>1, <1>2, <1>4

LEMMA EmittedIs ==
  ASSUME TypeOK, NEW new \in Seq([type : {"agent_start", "message", "agent_end"}, item : Items])
  PROVE  Emitted(new) \in Seq([type : {"agent_start", "message", "agent_end"}, item : Items])
BY DEF TypeOK, Emitted

LEMMA SummaryIs ==
  ASSUME TypeOK
  PROVE  \A w \in Workers :
           /\ compaction[w] \in Compactions
           /\ Summary(compaction[w]) \in Items
           /\ Summary(compaction[w]).kind = IF compaction[w].reason = "overflow" THEN "rescue" ELSE "summary"
           /\ Summary(compaction[w]).n = clock + 1
<1> SUFFICES ASSUME NEW w \in Workers
             PROVE  /\ compaction[w] \in Compactions
                    /\ Summary(compaction[w]) \in Items
                    /\ Summary(compaction[w]).kind = IF compaction[w].reason = "overflow" THEN "rescue" ELSE "summary"
                    /\ Summary(compaction[w]).n = clock + 1
  OBVIOUS
<1> DEFINE c == compaction[w]
           kind == IF c.reason = "overflow" THEN "rescue" ELSE "summary"
<1>1. c \in Compactions /\ clock \in Nat
  BY DEF TypeOK
<1>2. c.first \in Nat /\ current \in Nat
  BY <1>1, EntriesType DEF Compactions
<1>3. Summary(c) = [kind |-> kind, n |-> clock + 1, first |-> c.first]
  BY DEF Summary, Item
<1>4. kind \in Kinds
  BY DEF Kinds, SummaryKinds
<1> HIDE DEF kind
<1>5. Summary(c) \in Items
  BY <1>1, <1>2, <1>3, <1>4 DEF Items, ItemsOf
<1> QED
  BY <1>1, <1>3, <1>5 DEF kind

LEMMA ReleaseType ==
  ASSUME TypeOK, NEW w \in Workers, Release(w)
  PROVE  /\ compaction' \in [Workers -> Compactions]
         /\ controller' \in Workers \cup {"nobody"}
         /\ handler' \in {"free", "sleeping", "compacting"}
         /\ pc' \in [Callers -> {"idle", "checking", "compacting", "starting", "running",
                                "retryWait"}]
         /\ connected' \in BOOLEAN
         /\ admin' \in {"none", "new", "switch", "compact", "compacting"}
<1>1. NoCompaction \in Compactions
  BY DEF NoCompaction, Compactions
<1> QED
  BY <1>1 DEF Release, TypeOK

LEMMA RecordWith ==
  ASSUME NEW c \in Compactions, NEW f
  PROVE  [c EXCEPT !.phase = "summarising", !.first = f]
           = [phase |-> "summarising", reason |-> c.reason, first |-> f, aborted |-> c.aborted]
<1>1. PICK a, b, d, e : c = [phase |-> a, reason |-> b, first |-> d, aborted |-> e]
  BY DEF Compactions
<1>2. [[phase |-> a, reason |-> b, first |-> d, aborted |-> e] EXCEPT !.phase = "summarising"]
        = [phase |-> "summarising", reason |-> b, first |-> d, aborted |-> e]
  OBVIOUS
<1>3. [[phase |-> "summarising", reason |-> b, first |-> d, aborted |-> e] EXCEPT !.first = f]
        = [phase |-> "summarising", reason |-> b, first |-> f, aborted |-> e]
  OBVIOUS
<1>4. [c EXCEPT !.phase = "summarising", !.first = f]
        = [[c EXCEPT !.phase = "summarising"] EXCEPT !.first = f]
  OBVIOUS
<1> QED
  BY <1>1, <1>2, <1>3, <1>4, Zenon

LEMMA CompactionType ==
  ASSUME TypeOK, NEW w \in Workers, Compacts(w), Time
  PROVE  TypeOK'
<1> USE DEF agentVars, retryVars, compactVars, viewVars, fileVars, handlerVars
<1>0. entries \in Seq(Items) /\ DOMAIN entries = 1..Len(entries)
  BY EntriesType
<1>1. CASE PrepareCompaction(w)
  <2>1. PICK i \in CutPoints(entries) :
          compaction' = [compaction EXCEPT ![w].phase = "summarising", ![w].first = entries[i].n]
    BY <1>1 DEF PrepareCompaction
  <2>2. entries[i] \in Items
    BY <1>0 DEF CutPoints
  <2>3. entries[i].n \in Nat
    BY <2>2 DEF Items, ItemsOf
  <2>4. compaction' \in [Workers -> Compactions]
    <3> DEFINE c == compaction[w]
               new == [phase |-> "summarising", reason |-> c.reason, first |-> entries[i].n,
                       aborted |-> c.aborted]
    <3>1. c \in Compactions /\ compaction \in [Workers -> Compactions]
      BY DEF TypeOK
    <3>2. new \in Compactions
      BY <3>1, <2>3 DEF Compactions
    <3>3. [c EXCEPT !.phase = "summarising", !.first = entries[i].n] = new
      BY <3>1, RecordWith
    <3>4. compaction' = [compaction EXCEPT ![w] = new]
      BY <2>1, <3>1, <3>3
    <3> HIDE DEF c, new
    <3> QED
      BY <3>1, <3>2, <3>4
  <2> QED
    BY <1>1, <2>4 DEF TypeOK, PrepareCompaction, Time
<1>2. CASE StopCompaction(w)
  BY <1>2, ReleaseType DEF StopCompaction, TypeOK, Time
<1>3. CASE \E waiting \in BOOLEAN : FinishCompactionWith(w, waiting)
  <2>1. PICK waiting \in BOOLEAN : FinishCompactionWith(w, waiting)
    BY <1>3
  <2> DEFINE c == compaction[w]
             summary == Summary(c)
  <2>2. c \in Compactions
    BY DEF TypeOK
  <2>3. summary \in Items
    BY SummaryIs
  <2>4. files' = AppendEntry(summary) /\ current' = current /\ messages' = Rebuilt(c, files'[current])
    BY <2>1 DEF FinishCompactionWith
  <2>5. files' \in Seq(Seq(Items)) /\ current \in DOMAIN files' /\ files'[current] \in Seq(Items)
    BY <2>3, <2>4, EntryAppended, FileReplaced
  <2>6. messages' \in Seq(Items)
    <3> DEFINE es == files'[current]
               context == BuildContext(es)
    <3>1. context \in Seq(Items)
      BY <2>5, BuildContextIs
    <3>2. messages' = IF c.reason = "overflow" /\ IsFailed(Last(context)) THEN Front(context)
                      ELSE context
      BY <2>4 DEF Rebuilt
    <3> HIDE DEF context
    <3>3. context = <<>> => Front(context) = <<>>
      BY DEF Front
    <3> QED
      BY <3>1, <3>2, <3>3, DropReplyIs
  <2>7. timers' \in Nat
    BY <2>1 DEF FinishCompactionWith, TypeOK
  <2>8. Release(w) /\ UNCHANGED <<streaming, ending, owner, queued, aborting, events, lastAssistant,
                     overflowTried, retryVars, viewVars, current, left, disturbed>>
    BY <2>1 DEF FinishCompactionWith
  <2> QED
    BY <2>4, <2>5, <2>6, <2>7, <2>8, ReleaseType DEF TypeOK, Time
<1> QED
  BY <1>1, <1>2, <1>3 DEF Compacts

\* What a run begins, ends and adds.
EventTypes == {"agent_start", "message", "agent_end"}

LEMMA EventIs ==
  ASSUME NEW item \in Items
  PROVE  \A type \in EventTypes : Event(type, item) \in [type : EventTypes, item : Items]
BY DEF Event

LEMMA NoItemIs == NoItem \in Items
BY DEF NoItem, Items, ItemsOf, Kinds

LEMMA BeginCompactionType ==
  ASSUME TypeOK, NEW w \in Workers, NEW reason \in {"overflow", "threshold"},
         BeginCompaction(w, reason)
  PROVE  /\ compaction' \in [Workers -> Compactions]
         /\ controller' \in Workers \cup {"nobody"}
         /\ overflowTried' \in BOOLEAN
         /\ messages' \in Seq(Items)
<1>1. [NoCompaction EXCEPT !.phase = "key", !.reason = reason] \in Compactions
  BY DEF NoCompaction, Compactions
<1>2. messages' \in Seq(Items)
  <2>1. messages \in Seq(Items)
    BY DEF TypeOK
  <2> QED
    BY <2>1, DropReplyIs DEF BeginCompaction
<1> QED
  BY <1>1, <1>2 DEF BeginCompaction, TypeOK

LEMMA AbortRetryType ==
  ASSUME TypeOK, AbortRetryEffects
  PROVE  /\ handler' \in {"free", "sleeping", "compacting"} /\ retryAttempt' \in 0..MaxRetries
         /\ retryPromise' \in BOOLEAN
         /\ pc' \in [Callers -> {"idle", "checking", "compacting", "starting", "running",
                                "retryWait"}]
<1>1. pc' \in [Callers -> {"idle", "checking", "compacting", "starting", "running",
                          "retryWait"}]
  BY DEF AbortRetryEffects, ResolveRetry, Woken, TypeOK
<1>2. retryPromise' \in BOOLEAN /\ handler' \in {"free", "sleeping", "compacting"}
  BY DEF AbortRetryEffects, ResolveRetry, TypeOK
<1>3. retryAttempt' \in 0..MaxRetries
  BY ASAssumption DEF AbortRetryEffects, TypeOK
<1> QED
  BY <1>1, <1>2, <1>3

LEMMA UserItemsAre ==
  ASSUME NEW s, UserItems(s)
  PROVE  s \in Seq(Items)
<1>1. ItemsOf({"user"}) \subseteq Items
  BY DEF Items, ItemsOf, Kinds
<1> QED
  BY <1>1, SeqMonotonic DEF UserItems

LEMMA UserType ==
  ASSUME TypeOK, Time,
         \/ AbortCompactions \/ QueueMessage(Item("user")) \/ Steers \/ Replaces \/ Clears
         \/ Stops \/ Idles
  PROVE  TypeOK'
<1> USE DEF agentVars, retryVars, compactVars, viewVars, fileVars, handlerVars, RestVars
<1>1. CASE AbortCompactions
  <2>1. ASSUME NEW w \in Workers, NEW b \in BOOLEAN
        PROVE  [compaction[w] EXCEPT !.aborted = b] \in Compactions
    <3>1. compaction[w] \in Compactions
      BY DEF TypeOK
    <3> QED
      BY <3>1 DEF Compactions
  <2>2. \A w \in Workers : compaction[w].aborted \in BOOLEAN
    BY DEF TypeOK, Compactions
  <2>3. compaction' \in [Workers -> Compactions]
    <3> DEFINE b(w) == compaction[w].aborted
                         \/ (w \in {controller, "manual"} /\ compaction[w].phase # "none")
    <3>1. compaction' = [w \in Workers |-> [compaction[w] EXCEPT !.aborted = b(w)]]
      BY <1>1 DEF AbortCompactions
    <3>2. \A w \in Workers : b(w) \in BOOLEAN
      BY <2>2
    <3> HIDE DEF b
    <3> QED
      BY <2>1, <3>1, <3>2
  <2> QED
    BY <1>1, <2>3 DEF AbortCompactions, TypeOK, Time
<1>2. CASE QueueMessage(Item("user"))
  <2>1. Item("user") \in Items
    BY ItemIs DEF Kinds
  <2> QED
    BY <1>2, <2>1 DEF QueueMessage, TypeOK, Time
<1>3. CASE Steers
  <2>1. PICK more : UserItems(more) /\ queued' = queued \o more /\ shown' = shown \o more
    BY <1>3 DEF Steers
  <2>2. more \in Seq(Items)
    BY <2>1, UserItemsAre
  <2>3. queued' \in Seq(Items) /\ shown' \in Seq(Items)
    BY <2>1, <2>2 DEF TypeOK
  <2>4. UNCHANGED <<RestVars, aborting, retryVars, pc>>
    BY <1>3 DEF Steers
  <2> QED
    BY <2>3, <2>4 DEF TypeOK, Time
<1>4. CASE Replaces
  BY <1>4, UserItemsAre DEF Replaces, TypeOK, Time
<1>5. CASE Clears
  BY <1>5 DEF Clears, TypeOK, Time
<1>6. CASE Stops
  BY <1>6, AbortRetryType, SMTT(20), ZenonT(20) DEF Stops, TypeOK, Time
<1>7. CASE Idles
  BY <1>7 DEF Idles, TypeOK, Time
<1> QED
  BY <1>1, <1>2, <1>3, <1>4, <1>5, <1>6, <1>7

LEMMA CallerType ==
  ASSUME TypeOK, Time, NEW c \in Callers,
         BeginsPrompt(c) \/ PromptCheck(c) \/ StartsPrompt(c) \/ GivesUpPrompt(c)
  PROVE  TypeOK'
<1> USE DEF agentVars, retryVars, compactVars, viewVars, fileVars, handlerVars
<1>1. CASE BeginsPrompt(c)
  <2>1. PICK more : UserItems(more) /\ PromptBeginWith(c, more)
    BY <1>1 DEF BeginsPrompt
  <2>2. more \in Seq(Items)
    BY <2>1, UserItemsAre
  <2>3. files' \in Seq(Seq(Items)) /\ current \in DOMAIN files'
    <3> DEFINE es == entries \o pendingBash
    <3>1. es \in Seq(Items)
      BY EntriesType DEF TypeOK
    <3>2. files' = [files EXCEPT ![current] = es]
      BY <2>1 DEF PromptBeginWith, entries
    <3> HIDE DEF es
    <3> QED
      BY <3>1, <3>2, FileReplaced, EntriesType
  <2>4. messages' \in Seq(Items) /\ queued' \in Seq(Items) /\ shown' \in Seq(Items)
    BY <2>1, <2>2 DEF PromptBeginWith, TypeOK
  <2> QED
    BY SMTT(40), <2>1, <2>3, <2>4 DEF PromptBeginWith, TypeOK, Time, Disturb
<1>2. CASE PromptCheck(c)
  <2> DEFINE reason == CompactionReason(LastAssistantIn(messages), FALSE)
  <2>1. reason \in {"none", "overflow", "threshold"}
    BY DEF CompactionReason
  <2> HIDE DEF reason
  <2>2. reason # "none" => BeginCompaction(c, reason) /\ c \in Workers
    BY <1>2 DEF PromptCheck, reason, Workers
  <2>3. reason = "none" => UNCHANGED <<compaction, controller, overflowTried, messages>>
    BY <1>2 DEF PromptCheck, reason
  <2>4. compaction' \in [Workers -> Compactions] /\ controller' \in Workers \cup {"nobody"}
        /\ overflowTried' \in BOOLEAN /\ messages' \in Seq(Items)
    BY <2>1, <2>2, <2>3, BeginCompactionType DEF TypeOK
  <2> QED
    <3>1. pc' \in [Callers -> {"idle", "checking", "compacting", "starting", "running",
                            "retryWait"}]
      BY <1>2 DEF PromptCheck, TypeOK
    <3>2. UNCHANGED <<streaming, ending, owner, queued, aborting, connected, events, handler,
                      lastAssistant, retryVars, timers, viewVars, fileVars, admin,
                      clock, left, disturbed>>
      BY <1>2 DEF PromptCheck
    <3> QED
      BY <2>4, <3>1, <3>2 DEF TypeOK, Time
<1>3. CASE StartsPrompt(c)
  <2>1. PICK user : UserItem(user) /\ PromptStartWith(c, user)
    BY <1>3 DEF StartsPrompt
  <2>2. user \in Items
    BY <2>1 DEF UserItem, Items, ItemsOf, Kinds
  <2> DEFINE new == <<Event("agent_start", NoItem), Event("message", user)>>
  <2>3. new \in Seq([type : EventTypes, item : Items])
    BY <2>2, EventIs, NoItemIs DEF EventTypes
  <2>4. events' = Emitted(new)
    BY <2>1 DEF PromptStartWith
  <2>5. events' \in Seq([type : EventTypes, item : Items])
    BY <2>3, <2>4, EmittedIs DEF EventTypes
  <2>6. messages' \in Seq(Items)
    BY <2>1, <2>2 DEF PromptStartWith, TypeOK
  <2>7. /\ queued' \in Seq(Items) /\ shown' \in Seq(Items) /\ pendingBash' \in Seq(Items)
        /\ files' \in Seq(Seq(Items)) /\ current' \in DOMAIN files' /\ lastAssistant' \in Items
        /\ compaction' \in [Workers -> Compactions] /\ left' \in [Inputs -> Nat]
    BY <2>1 DEF PromptStartWith, TypeOK, Time
  <2>8. pc' \in [Callers -> {"idle", "checking", "compacting", "starting", "running", "retryWait"}]
    BY <2>1 DEF PromptStartWith, TypeOK
  <2> QED
    BY <2>1, <2>5, <2>6, <2>7, <2>8, SMTT(20), ZenonT(20) DEF PromptStartWith, TypeOK, Time, EventTypes
<1>4. CASE GivesUpPrompt(c)
  <2>1. PromptThrows(c) /\ ((queued' = queued /\ shown' = shown) \/ (queued' = <<>> /\ shown' = <<>>))
    BY <1>4 DEF GivesUpPrompt
  <2>2. queued' \in Seq(Items) /\ shown' \in Seq(Items)
    <3>1. <<>> \in Seq(Items) /\ queued \in Seq(Items) /\ shown \in Seq(Items)
      BY DEF TypeOK
    <3> QED
      BY <2>1, <3>1
  <2> QED
    BY <2>1, <2>2 DEF PromptThrows, TypeOK, Time
<1> QED
  BY <1>1, <1>2, <1>3, <1>4

LEMMA RunType ==
  ASSUME TypeOK, Time,
         \/ ReplyAndGoOn \/ ReplyAndDeliver \/ EndRun \/ \E kind \in AssistantKinds : LastReply(kind)
         \/ ContinueSwallowed \/ Continue
  PROVE  TypeOK'
<1> USE DEF agentVars, retryVars, compactVars, viewVars, fileVars, handlerVars, RunVars, ReplyVars
<1> DEFINE EventSeqs == Seq([type : EventTypes, item : Items])
<1>0. /\ \A new \in EventSeqs : Emitted(new) \in EventSeqs
      /\ \A x \in [type : EventTypes, item : Items] : <<x>> \in EventSeqs
      /\ \A x, y \in [type : EventTypes, item : Items] : <<x, y>> \in EventSeqs
  <2> DEFINE A == [type : EventTypes, item : Items]
  <2>1. \A new \in EventSeqs : Emitted(new) \in EventSeqs
    BY EmittedIs DEF EventTypes
  <2>2. (\A x \in A : <<x>> \in Seq(A)) /\ (\A x, y \in A : <<x, y>> \in Seq(A))
    <3> HIDE DEF A
    <3> QED
      OBVIOUS
  <2> QED
    BY <2>1, <2>2
<1>a. \A x \in Items : Append(messages, x) \in Seq(Items)
  BY DEF TypeOK
<1>b. \A x, y \in Items : messages \o <<x, y>> \in Seq(Items)
  BY DEF TypeOK
<1>c. queued # <<>> => Head(queued) \in Items /\ Tail(queued) \in Seq(Items)
  BY DEF TypeOK
<1>d. Item("ok") \in Items /\ \A kind \in AssistantKinds : Item(kind) \in Items
  BY ItemIs DEF Kinds, AssistantKinds
<1>e. NoItem \in Items /\ \A x \in Items : \A type \in EventTypes :
        Event(type, x) \in [type : EventTypes, item : Items]
  BY EventIs, NoItemIs
<1>1. CASE ReplyAndGoOn
  <2> DEFINE reply == Item("ok")
             result == [Item("result") EXCEPT !.n = clock + 2]
  <2>1. reply \in Items /\ result \in Items
    <3>1. Item("result") \in Items /\ clock + 2 \in Nat
      <4>1. Item("result") \in Items
        BY ItemIs DEF Kinds
      <4>2. clock + 2 \in Nat
        BY DEF TypeOK
      <4> QED
        BY <4>1, <4>2
    <3>2. result \in Items
      <4> DEFINE r == Item("result")
      <4>1. r \in Items /\ clock + 2 \in Nat
        BY <3>1
      <4> HIDE DEF r
      <4>2. [r EXCEPT !.n = clock + 2] \in Items
        BY <4>1 DEF Items, ItemsOf
      <4> QED
        BY <4>2 DEF r
    <3> QED
      BY <1>d, <3>2
  <2>2. /\ messages' = messages \o <<reply, result>>
        /\ events' = Emitted(<<Event("message", reply), Event("message", result)>>)
    BY <1>1 DEF ReplyAndGoOn
  <2> HIDE DEF reply, result
  <2>3. messages' \in Seq(Items)
    BY <1>b, <2>1, <2>2
  <2>4. events' \in EventSeqs
    <3>1. Event("message", reply) \in [type : EventTypes, item : Items]
          /\ Event("message", result) \in [type : EventTypes, item : Items]
      BY <1>e, <2>1 DEF EventTypes
    <3> HIDE DEF EventSeqs
    <3> QED
      BY <1>0, <2>2, <3>1
  <2> QED
    BY SMTT(40), <1>1, <2>3, <2>4 DEF ReplyAndGoOn, TypeOK, Time, EventTypes
<1>2. CASE ReplyAndDeliver
  <2> DEFINE reply == Item("ok")
             item == Head(queued)
  <2>1. reply \in Items /\ item \in Items /\ queued' \in Seq(Items)
    BY <1>2, <1>c, <1>d DEF ReplyAndDeliver
  <2>2. /\ messages' = messages \o <<reply, item>>
        /\ events' = Emitted(<<Event("message", reply), Event("message", item)>>)
    BY <1>2 DEF ReplyAndDeliver
  <2> HIDE DEF reply, item
  <2>3. messages' \in Seq(Items)
    BY <1>b, <2>1, <2>2
  <2>4. events' \in EventSeqs
    <3>1. Event("message", reply) \in [type : EventTypes, item : Items]
          /\ Event("message", item) \in [type : EventTypes, item : Items]
      BY <1>e, <2>1 DEF EventTypes
    <3> HIDE DEF EventSeqs
    <3> QED
      BY <1>0, <2>2, <3>1
  <2> QED
    BY SMTT(40), <1>2, <2>1, <2>3, <2>4 DEF ReplyAndDeliver, TypeOK, Time, EventTypes
<1>3. CASE EndRun
  <2>1. Event("agent_end", NoItem) \in [type : EventTypes, item : Items]
    BY <1>e DEF EventTypes
  <2>2. events' \in EventSeqs
    BY <1>3, <1>0, <2>1 DEF EndRun
  <2>3. pc' \in [Callers -> {"idle", "checking", "compacting", "starting", "running",
                          "retryWait"}]
    BY <1>3 DEF EndRun, TypeOK
  <2> QED
    BY <1>3, <2>2, <2>3 DEF EndRun, TypeOK, Time, EventTypes, Disturb
<1>4. CASE \E kind \in AssistantKinds : LastReply(kind)
  <2>1. PICK kind \in AssistantKinds : LastReply(kind)
    BY <1>4
  <2> DEFINE reply == Item(kind)
  <2>2. reply \in Items
    BY <1>d
  <2>3. messages' = Append(messages, reply) /\ events' = Emitted(<<Event("message", reply)>>)
    BY <2>1 DEF LastReply
  <2> HIDE DEF reply
  <2>4. messages' \in Seq(Items)
    BY <1>a, <2>2, <2>3
  <2>5. events' \in EventSeqs
    <3>1. Event("message", reply) \in [type : EventTypes, item : Items]
      BY <1>e, <2>2 DEF EventTypes
    <3> HIDE DEF EventSeqs
    <3> QED
      BY <1>0, <2>3, <3>1
  <2> QED
    BY <2>1, <2>4, <2>5 DEF LastReply, TypeOK, Time, EventTypes
<1>5. CASE ContinueSwallowed
  BY <1>5 DEF ContinueSwallowed, TypeOK, Time
<1>6. CASE Continue
  <2>1. queued \in Seq(Items) /\ messages \in Seq(Items)
    BY DEF TypeOK
  <2>2. EndsWithAssistant(messages) => queued # <<>>
    BY <1>6 DEF Continue, MayContinue
  <2> DEFINE start == Event("agent_start", NoItem)
             message == Event("message", Head(queued))
  <2>3. start \in [type : EventTypes, item : Items]
        /\ (queued # <<>> => message \in [type : EventTypes, item : Items])
    BY <1>c, <1>e DEF EventTypes
  <2>4. IF EndsWithAssistant(messages)
        THEN messages' = Append(messages, Head(queued)) /\ queued' = Tail(queued)
             /\ events' = Emitted(<<start, message>>)
        ELSE events' = Emitted(<<start>>) /\ messages' = messages /\ queued' = queued
    BY <1>6 DEF Continue
  <2> HIDE DEF start, message
  <2>5. messages' \in Seq(Items) /\ queued' \in Seq(Items)
    BY <1>a, <1>c, <2>1, <2>2, <2>4
  <2>6. events' \in EventSeqs
    <3> HIDE DEF EventSeqs
    <3> QED
      BY <1>0, <2>2, <2>3, <2>4
  <2> QED
    <3>1. timers' \in Nat /\ disturbed' \in BOOLEAN
      BY <1>6 DEF Continue, Disturb, TypeOK
    <3> QED
      BY <1>6, <2>5, <2>6, <3>1 DEF Continue, TypeOK, Time, EventTypes
<1> QED
  BY <1>1, <1>2, <1>3, <1>4, <1>5, <1>6

LEMMA EventsLeft ==
  ASSUME TypeOK, HandleNext
  PROVE  /\ events' \in Seq([type : EventTypes, item : Items])
         /\ Head(events) \in [type : EventTypes, item : Items] /\ Head(events).item \in Items
<1>1. Head(events) \in [type : EventTypes, item : Items]
      /\ events' \in Seq([type : EventTypes, item : Items])
  <2>1. events \in Seq([type : EventTypes, item : Items]) /\ events # <<>> /\ events' = Tail(events)
    BY DEF TypeOK, HandleNext, EventTypes
  <2> DEFINE A == [type : EventTypes, item : Items]
  <2>2. events \in Seq(A)
    BY <2>1
  <2> HIDE DEF A
  <2>3. Head(events) \in A /\ Tail(events) \in Seq(A)
    BY <2>1, <2>2, HeadTailProperties
  <2> QED
    BY <2>1, <2>3 DEF A
<1> QED
  BY <1>1

LEMMA HandlerType ==
  ASSUME TypeOK, Time,
         \/ HandleStart \/ HandleUser \/ HandleResult \/ HandleAssistant \/ HandleEndRetry
         \/ HandleEnd \/ SleepEnds
  PROVE  TypeOK'
<1> USE DEF agentVars, retryVars, compactVars, viewVars, fileVars, handlerVars
<1> DEFINE item == Head(events).item
<1>0. HandleNext => /\ events' \in Seq([type : {"agent_start", "message", "agent_end"}, item : Items])
                    /\ item \in Items
                    /\ AppendEntry(item) \in Seq(Seq(Items)) /\ current \in DOMAIN AppendEntry(item)
  BY EventsLeft, EntryAppended DEF EventTypes
<1>a. NoItem \in Items
  BY NoItemIs
<1>b. ResolveRetry => retryPromise' \in BOOLEAN
          /\ pc' \in [Callers -> {"idle", "checking", "compacting", "starting", "running",
                                "retryWait"}]
  BY DEF ResolveRetry, Woken, TypeOK
<1>1. CASE HandleStart
  BY SMTT(20), <1>1, <1>0 DEF HandleStart, TypeOK, Time
<1>2. CASE HandleUser
  <2>1. shown' \in Seq(Items)
    BY <1>2, RemoveFirstIs DEF HandleUser, TypeOK
  <2>2. /\ HandleNext /\ files' = AppendEntry(item) /\ overflowTried' = FALSE
        /\ UNCHANGED <<agentVars, connected, handler, lastAssistant, retryVars,
                     compactVars, timers, pendingBash, current, pc, admin,
                     clock, left, disturbed>>
    BY <1>2 DEF HandleUser
  <2>3. /\ events' \in Seq([type : {"agent_start", "message", "agent_end"}, item : Items])
        /\ files' \in Seq(Seq(Items)) /\ current \in DOMAIN files' /\ current' = current
    BY <1>0, <2>2
  <2>4. overflowTried' \in BOOLEAN
    BY <2>2
  <2> QED
    BY SMTT(40), <2>1, <2>2, <2>3, <2>4 DEF TypeOK, Time
<1>3. CASE HandleResult
  BY SMTT(40), <1>3, <1>0 DEF HandleResult, TypeOK, Time
<1>4. CASE HandleAssistant
  <2>1. /\ HandleNext /\ files' = AppendEntry(item) /\ lastAssistant' = item
        /\ overflowTried' = (overflowTried /\ item.kind \in FailureKinds)
        /\ \/ retryAttempt' = 0 /\ ResolveRetry
           \/ UNCHANGED <<retryVars, pc>>
        /\ UNCHANGED <<agentVars, connected, handler, compactVars, timers, viewVars,
                     current, admin, clock, left, disturbed>>
    BY <1>4 DEF HandleAssistant
  <2> HIDE DEF item
  <2>2. retryAttempt' \in 0..MaxRetries /\ retryPromise' \in BOOLEAN
        /\ pc' \in [Callers -> {"idle", "checking", "compacting", "starting", "running",
                              "retryWait"}]
    BY <1>b, <2>1, ASAssumption DEF TypeOK
  <2> QED
    BY SMTT(40), <1>0, <2>1, <2>2 DEF TypeOK, Time
<1>5. CASE HandleEndRetry
  <2>1. messages' \in Seq(Items)
    <3>1. messages \in Seq(Items)
      BY DEF TypeOK
    <3> QED
      BY <1>5, <3>1, DropReplyIs DEF HandleEndRetry, StopRetrying
  <2>2. retryAttempt' \in 0..MaxRetries
    BY <1>5, ASAssumption DEF HandleEndRetry, MayRetry, StopRetrying, TypeOK
  <2>3. retryPromise' \in BOOLEAN /\ handler' \in {"free", "sleeping", "compacting"}
        /\ pc' \in [Callers -> {"idle", "checking", "compacting", "starting", "running",
                              "retryWait"}]
    BY <1>5, <1>b DEF HandleEndRetry, StopRetrying, TypeOK
  <2> HIDE DEF item
  <2> QED
    BY SMTT(40), <1>0, <1>5, <1>a, <2>1, <2>2, <2>3 DEF HandleEndRetry, TypeOK, Time
<1>6. CASE HandleEnd
  <2> DEFINE reason == CompactionReason(lastAssistant, TRUE)
  <2>1. reason \in {"none", "overflow", "threshold"}
    BY DEF CompactionReason
  <2>2. /\ reason # "none" => BeginCompaction("handler", reason) /\ handler' = "compacting"
        /\ reason = "none" => UNCHANGED <<handler, compactVars, overflowTried, messages>>
    BY <1>6 DEF HandleEnd
  <2> HIDE DEF reason
  <2>3. "handler" \in Workers
    BY DEF Workers
  <2>4. compaction' \in [Workers -> Compactions] /\ controller' \in Workers \cup {"nobody"}
        /\ overflowTried' \in BOOLEAN /\ messages' \in Seq(Items)
        /\ handler' \in {"free", "sleeping", "compacting"}
    BY <2>1, <2>2, <2>3, BeginCompactionType DEF TypeOK
  <2> HIDE DEF item
  <2> QED
    BY SMTT(40), <1>0, <1>6, <1>a, <2>4 DEF HandleEnd, TypeOK, Time
<1>7. CASE SleepEnds
  BY <1>7 DEF SleepEnds, TypeOK, Time
<1> QED
  BY <1>1, <1>2, <1>3, <1>4, <1>5, <1>6, <1>7

LEMMA AdminType ==
  ASSUME TypeOK, Time,
         \/ RecordBash \/ \E operation \in {"new", "switch", "compact"} : AdminBegin(operation)
         \/ NewSession \/ SwitchSession \/ ManualCompact
  PROVE  TypeOK'
<1> USE DEF agentVars, retryVars, compactVars, viewVars, fileVars, handlerVars
<1>1. CASE RecordBash
  <2> DEFINE bash == Item("bash")
  <2>1. bash \in Items
    BY ItemIs DEF Kinds
  <2>2. IF streaming
        THEN pendingBash' = Append(pendingBash, bash) /\ messages' = messages /\ files' = files
        ELSE /\ messages' = Append(messages, bash)
             /\ files' = AppendEntry(bash)
             /\ pendingBash' = pendingBash
    BY <1>1 DEF RecordBash
  <2> HIDE DEF bash
  <2>3. messages' \in Seq(Items) /\ pendingBash' \in Seq(Items)
    <3>1. \A s \in Seq(Items) : Append(s, bash) \in Seq(Items)
      BY <2>1
    <3>2. messages \in Seq(Items) /\ pendingBash \in Seq(Items)
      BY DEF TypeOK
    <3> QED
      BY <2>2, <3>1, <3>2
  <2>4. files' \in Seq(Seq(Items)) /\ current \in DOMAIN files'
    BY <2>1, <2>2, EntryAppended DEF TypeOK
  <2> QED
    BY SMTT(40), <1>1, <2>3, <2>4 DEF RecordBash, Disturb, TypeOK, Time
<1>2. CASE \E operation \in {"new", "switch", "compact"} : AdminBegin(operation)
  <2>1. PICK operation \in {"new", "switch", "compact"} : AdminBegin(operation)
    BY <1>2
  <2>2. aborting' \in BOOLEAN /\ AbortRetryEffects /\ disturbed' \in BOOLEAN
    BY <2>1 DEF AdminBegin, AbortEffects, Disturb, TypeOK
  <2>3. admin' \in {"none", "new", "switch", "compact", "compacting"} /\ connected' \in BOOLEAN
    BY <2>1 DEF AdminBegin
  <2> QED
    BY <2>1, <2>2, <2>3, AbortRetryType DEF AdminBegin, TypeOK, Time
<1>3. CASE NewSession
  <2> DEFINE A == Seq(Items)
             none == <<>>
  <2>1. files \in Seq(A) /\ none \in A /\ files' = Append(files, none) /\ current' = Len(files) + 1
    BY <1>3 DEF NewSession, TypeOK
  <2> HIDE DEF A, none
  <2>2. files' \in Seq(A) /\ Len(files') = Len(files) + 1 /\ Len(files) \in Nat
    BY <2>1
  <2>3. files' \in Seq(Seq(Items)) /\ current' \in DOMAIN files'
    BY <2>1, <2>2 DEF A
  <2> QED
    BY <1>3, <2>3 DEF NewSession, TypeOK, Time
<1>4. CASE SwitchSession
  <2>1. PICK s \in DOMAIN files : current' = s /\ messages' = BuildContext(files[s])
    BY <1>4 DEF SwitchSession
  <2>2. files[s] \in Seq(Items)
    BY DEF TypeOK
  <2>3. messages' \in Seq(Items)
    BY <2>1, <2>2, BuildContextIs
  <2>4. disturbed' \in BOOLEAN
    BY <1>4 DEF SwitchSession, Disturb, TypeOK
  <2> QED
    BY <1>4, <2>1, <2>3, <2>4 DEF SwitchSession, TypeOK, Time
<1>5. CASE ManualCompact
  <2>1. [NoCompaction EXCEPT !.phase = "key", !.reason = "manual"] \in Compactions
    BY DEF NoCompaction, Compactions
  <2>2. compaction' \in [Workers -> Compactions]
    BY <1>5, <2>1 DEF ManualCompact, TypeOK
  <2> QED
    BY <1>5, <2>2 DEF ManualCompact, TypeOK, Time
<1> QED
  BY <1>1, <1>2, <1>3, <1>4, <1>5

LEMMA StepType ==
  ASSUME TypeOK, SessionStep
  PROVE  TypeOK'
<1>1. Time /\ SessionAction
  BY DEF SessionStep
<1> QED
  BY <1>1, CompactionType, UserType, CallerType, RunType, HandlerType, AdminType
  DEF SessionAction

-----------------------------------------------------------------------------
(* The phases of the actors: who compacts, who runs, who listens *)

PCs == {"idle", "checking", "compacting", "starting", "running", "retryWait"}
Busy(c) == pc[c] \in {"checking", "compacting", "starting"}

\* The worker is in a compaction.
InProgress(w) ==
  \/ w = "handler" /\ handler = "compacting"
  \/ w = "manual" /\ admin = "compacting"
  \/ w \in Callers /\ pc[w] = "compacting"
ReasonsOf(w) == IF w = "manual" THEN {"manual"} ELSE {"overflow", "threshold"}

\* A compaction has its phases while its worker waits for it.
Underway ==
  \A w \in Workers : /\ compaction[w].phase # "none" <=> InProgress(w)
                     /\ InProgress(w) => compaction[w].reason \in ReasonsOf(w)
\* The caller whose run streams waits for it.
Runs ==
  /\ \A c \in Callers : pc[c] = "running" <=> (streaming /\ owner = c)
  /\ ending # "none" => streaming
\* The session listens to the agent unless its file is replaced or compacted.
Listens == connected <=> admin = "none"
Phases == Underway /\ Runs /\ Listens

LEMMA PhaseTypes ==
  ASSUME TypeOK
  PROVE  /\ compaction \in [Workers -> Compactions] /\ pc \in [Callers -> PCs]
         /\ streaming \in BOOLEAN /\ connected \in BOOLEAN
         /\ handler \in {"free", "sleeping", "compacting"}
BY DEF TypeOK, PCs

\* Nobody is two actors at once.
LEMMA WorkersAre ==
  /\ "handler" \in Workers /\ "manual" \in Workers /\ "handler" # "manual"
  /\ "handler" \notin Callers /\ "manual" \notin Callers /\ "nobody" \notin Callers
  /\ \A c \in Callers : c \in Workers
  /\ \A w \in Workers : w \in Callers \/ w = "handler" \/ w = "manual"
BY ASAssumption DEF Workers

\* A backoff that ends changes nobody's phase but that of those who wait.
LEMMA RetryPhases ==
  ASSUME TypeOK, Phases, \/ ResolveRetry /\ UNCHANGED handler
                         \/ AbortRetryEffects,
         UNCHANGED <<compaction, admin, streaming, owner, ending, connected>>
  PROVE  Phases'
<1> USE PhaseTypes, WorkersAre
<1>1. \A c \in Callers : pc'[c] # pc[c] => pc[c] = "retryWait" /\ pc'[c] = "idle"
  BY DEF AbortRetryEffects, ResolveRetry, Woken
<1>2. handler' # handler => handler = "sleeping" /\ handler' = "free"
  BY DEF AbortRetryEffects
<1>3. \A w \in Workers : InProgress(w)' <=> InProgress(w)
  BY <1>1, <1>2 DEF InProgress
<1>4. Underway'
  BY <1>3 DEF Phases, Underway
<1>5. Runs'
  BY <1>1 DEF Phases, Runs
<1>6. Listens'
  BY DEF Phases, Listens
<1> QED
  BY <1>4, <1>5, <1>6 DEF Phases

LEMMA ReleasePhases ==
  ASSUME TypeOK, Phases, NEW w \in Workers, compaction[w].phase # "none", Release(w),
         UNCHANGED <<streaming, owner, ending>>
  PROVE  Phases'
<1> USE PhaseTypes, WorkersAre
<1>1. InProgress(w)
  BY DEF Phases, Underway
<1>2. compaction'[w] = NoCompaction /\ \A v \in Workers \ {w} : compaction'[v] = compaction[v]
  BY DEF Release
<1>3. \A v \in Workers \ {w} : InProgress(v)' <=> InProgress(v)
  BY DEF Release, InProgress
<1>4. ~InProgress(w)'
  BY DEF Release, InProgress
<1>5. Underway'
  BY <1>1, <1>2, <1>3, <1>4 DEF Phases, Underway, NoCompaction
<1>6. Runs'
  BY <1>1 DEF Phases, Runs, Release, InProgress
<1>7. Listens'
  <2>1. w = "manual" => admin' = "none" /\ connected' = TRUE
    BY DEF Release
  <2>2. w # "manual" => UNCHANGED <<admin, connected>>
    BY DEF Release
  <2> QED
    BY <2>1, <2>2 DEF Phases, Listens
<1> QED
  BY <1>5, <1>6, <1>7 DEF Phases

LEMMA BeginPhases ==
  ASSUME TypeOK, Phases, NEW w \in Workers, NEW reason \in {"overflow", "threshold"},
         BeginCompaction(w, reason), UNCHANGED <<streaming, owner, ending, connected, admin>>,
         \/ w = "handler" /\ handler' = "compacting" /\ UNCHANGED pc
         \/ w \in Callers /\ pc[w] = "checking" /\ pc' = [pc EXCEPT ![w] = "compacting"]
              /\ UNCHANGED handler
  PROVE  Phases'
<1> USE PhaseTypes, WorkersAre
<1> DEFINE new == [NoCompaction EXCEPT !.phase = "key", !.reason = reason]
<1>1. new.phase = "key" /\ new.reason = reason
  BY DEF NoCompaction
<1>2. compaction' = [compaction EXCEPT ![w] = new]
  BY DEF BeginCompaction
<1> HIDE DEF new
<1>3. compaction'[w] = new /\ \A v \in Workers \ {w} : compaction'[v] = compaction[v]
  BY <1>2
<1>4. InProgress(w)' /\ w # "manual"
  BY DEF InProgress
<1>5. \A v \in Workers \ {w} : InProgress(v)' <=> InProgress(v)
  BY DEF InProgress
<1>6. Underway'
  <2>1. ReasonsOf(w) = {"overflow", "threshold"}
    BY <1>4 DEF ReasonsOf
  <2> QED
    BY <1>1, <1>3, <1>4, <1>5, <2>1 DEF Phases, Underway
<1>7. Runs'
  BY DEF Phases, Runs
<1>8. Listens'
  BY DEF Phases, Listens
<1> QED
  BY <1>6, <1>7, <1>8 DEF Phases

\* A call of prompt() goes on, and nobody begins or ends a run or a compaction.
LEMMA PromptPhases ==
  ASSUME TypeOK, Phases, UNCHANGED <<compaction, handler, admin, streaming, owner, ending, connected>>,
         \/ UNCHANGED pc
         \/ \E c \in Callers, p \in PCs \ {"compacting", "running"} :
              pc[c] \notin {"compacting", "running"} /\ pc' = [pc EXCEPT ![c] = p]
  PROVE  Phases'
<1> USE PhaseTypes, WorkersAre
<1>1. \A c \in Callers : /\ pc'[c] = "compacting" <=> pc[c] = "compacting"
                         /\ pc'[c] = "running" <=> pc[c] = "running"
  OBVIOUS
<1>2. \A w \in Workers : InProgress(w)' <=> InProgress(w)
  BY <1>1 DEF InProgress
<1>3. Underway'
  BY <1>2 DEF Phases, Underway
<1>4. Runs'
  BY <1>1 DEF Phases, Runs
<1>5. Listens'
  BY DEF Phases, Listens
<1> QED
  BY <1>3, <1>4, <1>5 DEF Phases

LEMMA RunPhases ==
  ASSUME TypeOK, Phases,
         \/ ReplyAndGoOn \/ ReplyAndDeliver \/ EndRun \/ \E kind \in AssistantKinds : LastReply(kind)
         \/ ContinueSwallowed \/ Continue \/ \E c \in Callers : StartsPrompt(c)
  PROVE  Phases'
<1> USE DEF agentVars, retryVars, compactVars, viewVars, fileVars, handlerVars, RunVars, ReplyVars
<1> USE PhaseTypes, WorkersAre
<1>1. CASE ReplyAndGoOn \/ ReplyAndDeliver \/ ContinueSwallowed
  BY <1>1, PromptPhases DEF ReplyAndGoOn, ReplyAndDeliver, ContinueSwallowed
<1>2. CASE EndRun
  <2>1. /\ UNCHANGED <<compaction, handler, admin, connected>>
        /\ streaming' = FALSE /\ ending' = "none" /\ owner' = "nobody" /\ streaming
    BY <1>2 DEF EndRun
  <2>2. \A c \in Callers : /\ pc'[c] # "running"
                           /\ pc'[c] = "compacting" <=> pc[c] = "compacting"
    <3>1. TAKE c \in Callers
    <3>2. CASE owner = c
      <4>1. pc'[c] \in {"retryWait", "idle"} /\ pc[c] = "running"
        BY <1>2, <3>2 DEF EndRun, Phases, Runs
      <4> QED
        BY <4>1
    <3>3. CASE owner # c
      <4>1. pc'[c] = pc[c]
        BY <1>2, <3>3 DEF EndRun
      <4>2. pc[c] # "running"
        BY <3>3 DEF Phases, Runs
      <4> QED
        BY <4>1, <4>2
    <3> QED
      BY <3>2, <3>3
  <2>3. \A w \in Workers : InProgress(w)' <=> InProgress(w)
    BY <2>1, <2>2 DEF InProgress
  <2>4. Underway'
    BY <2>1, <2>3 DEF Phases, Underway
  <2>5. Runs'
    BY <2>1, <2>2 DEF Runs
  <2>6. Listens'
    BY <2>1 DEF Phases, Listens
  <2> QED
    BY <2>4, <2>5, <2>6 DEF Phases
<1>3. CASE \E kind \in AssistantKinds : LastReply(kind)
  <2>1. streaming /\ UNCHANGED <<compaction, handler, admin, connected, pc, streaming, owner>>
    BY <1>3 DEF LastReply
  <2>2. \A w \in Workers : InProgress(w)' <=> InProgress(w)
    BY <2>1 DEF InProgress
  <2>3. Underway'
    BY <2>1, <2>2 DEF Phases, Underway
  <2>4. Runs' /\ Listens'
    BY <2>1 DEF Phases, Runs, Listens
  <2> QED
    BY <2>3, <2>4 DEF Phases
<1>4. CASE Continue
  <2>1. ~streaming /\ streaming' = TRUE /\ owner' = "nobody"
        /\ UNCHANGED <<compaction, handler, admin, connected, pc, ending>>
    BY <1>4 DEF Continue, MayContinue
  <2>2. \A w \in Workers : InProgress(w)' <=> InProgress(w)
    BY <2>1 DEF InProgress
  <2>3. Underway'
    BY <2>1, <2>2 DEF Phases, Underway
  <2>4. Runs' /\ Listens'
    BY <2>1 DEF Phases, Runs, Listens
  <2> QED
    BY <2>3, <2>4 DEF Phases
<1>5. CASE \E c \in Callers : StartsPrompt(c)
  <2>1. PICK c \in Callers : StartsPrompt(c)
    BY <1>5
  <2>2. /\ pc[c] = "starting" /\ ~streaming /\ streaming' = TRUE /\ owner' = c
        /\ pc' = [pc EXCEPT ![c] = "running"]
        /\ UNCHANGED <<compaction, handler, admin, connected, ending>>
    BY <2>1 DEF StartsPrompt, PromptStartWith
  <2>3. \A w \in Workers : InProgress(w)' <=> InProgress(w)
    BY <2>2 DEF InProgress
  <2>4. Underway'
    BY <2>2, <2>3 DEF Phases, Underway
  <2>5. Runs'
    BY <2>2 DEF Phases, Runs
  <2>6. Listens'
    BY <2>2 DEF Phases, Listens
  <2> QED
    BY <2>4, <2>5, <2>6 DEF Phases
<1> QED
  BY <1>1, <1>2, <1>3, <1>4, <1>5

LEMMA AdminPhases ==
  ASSUME TypeOK, Phases,
         \/ \E operation \in {"new", "switch", "compact"} : AdminBegin(operation)
         \/ NewSession \/ SwitchSession \/ ManualCompact
  PROVE  Phases'
<1> USE DEF agentVars, retryVars, compactVars, viewVars, fileVars, handlerVars
<1> USE PhaseTypes, WorkersAre
<1>1. CASE \E operation \in {"new", "switch", "compact"} : AdminBegin(operation)
  <2>1. PICK operation \in {"new", "switch", "compact"} : AdminBegin(operation)
    BY <1>1
  <2>2. /\ admin = "none" /\ admin' = operation /\ connected' = FALSE /\ AbortRetryEffects
        /\ UNCHANGED <<compaction, streaming, owner, ending>>
    BY <2>1 DEF AdminBegin, AbortEffects
  <2>3. \A c \in Callers : pc'[c] # pc[c] => pc[c] = "retryWait" /\ pc'[c] = "idle"
    BY <2>2 DEF AbortRetryEffects, ResolveRetry, Woken
  <2>4. handler' # handler => handler = "sleeping" /\ handler' = "free"
    BY <2>2 DEF AbortRetryEffects
  <2>5. \A w \in Workers : InProgress(w)' <=> InProgress(w)
    BY <2>2, <2>3, <2>4 DEF InProgress
  <2>6. Underway'
    BY <2>2, <2>5 DEF Phases, Underway
  <2>7. Runs'
    BY <2>2, <2>3 DEF Phases, Runs
  <2>8. Listens'
    BY <2>2 DEF Listens
  <2> QED
    BY <2>6, <2>7, <2>8 DEF Phases
<1>2. CASE NewSession \/ SwitchSession
  <2>1. /\ admin \in {"new", "switch"} /\ admin' = "none" /\ connected' = TRUE
        /\ UNCHANGED <<compaction, streaming, owner, ending, handler, pc>>
    BY <1>2 DEF NewSession, SwitchSession
  <2>2. \A w \in Workers : InProgress(w)' <=> InProgress(w)
    BY <2>1 DEF InProgress
  <2>3. Underway'
    BY <2>1, <2>2 DEF Phases, Underway
  <2>4. Runs' /\ Listens'
    BY <2>1 DEF Phases, Runs, Listens
  <2> QED
    BY <2>3, <2>4 DEF Phases
<1>3. CASE ManualCompact
  <2> DEFINE new == [NoCompaction EXCEPT !.phase = "key", !.reason = "manual"]
  <2>1. new.phase = "key" /\ new.reason = "manual"
    BY DEF NoCompaction
  <2>2. /\ admin = "compact" /\ admin' = "compacting"
        /\ compaction' = [compaction EXCEPT !["manual"] = new]
        /\ UNCHANGED <<streaming, owner, ending, handler, pc, connected>>
    BY <1>3 DEF ManualCompact
  <2> HIDE DEF new
  <2>3. \A w \in Workers \ {"manual"} : compaction'[w] = compaction[w]
    BY <2>2
  <2>4. \A w \in Workers \ {"manual"} : InProgress(w)' <=> InProgress(w)
    BY <2>2 DEF InProgress
  <2>5. compaction'["manual"] = new /\ InProgress("manual")'
    BY <2>2 DEF InProgress
  <2>6. Underway'
    <3>1. ReasonsOf("manual") = {"manual"}
      BY DEF ReasonsOf
    <3> QED
      BY <2>1, <2>3, <2>4, <2>5, <3>1 DEF Phases, Underway
  <2>7. Runs' /\ Listens'
    BY <2>2 DEF Phases, Runs, Listens
  <2> QED
    BY <2>6, <2>7 DEF Phases
<1> QED
  BY <1>1, <1>2, <1>3

LEMMA StepPhases ==
  ASSUME TypeOK, Phases, SessionStep
  PROVE  Phases'
<1> USE DEF agentVars, retryVars, compactVars, viewVars, fileVars, handlerVars, RestVars
<1>1. ASSUME NEW w \in Workers, Compacts(w) PROVE Phases'
  <2>1. CASE PrepareCompaction(w)
    <3>1. /\ compaction[w].phase = "key"
          /\ UNCHANGED <<admin, streaming, owner, ending, connected, handler, pc>>
          /\ \E f : compaction' = [compaction EXCEPT ![w].phase = "summarising", ![w].first = f]
      BY <2>1 DEF PrepareCompaction
    <3>2. PICK f : compaction' = [compaction EXCEPT ![w].phase = "summarising", ![w].first = f]
      BY <3>1
    <3>3. \A v \in Workers : (compaction'[v].phase # "none" <=> compaction[v].phase # "none")
                              /\ compaction'[v].reason = compaction[v].reason
      <4> DEFINE c == compaction[w]
                 new == [phase |-> "summarising", reason |-> c.reason, first |-> f,
                         aborted |-> c.aborted]
      <4>1. c \in Compactions
        BY PhaseTypes
      <4>2. compaction' = [compaction EXCEPT ![w] = new]
        BY <3>2, <4>1, RecordWith, PhaseTypes
      <4>3. new.phase = "summarising" /\ new.reason = c.reason /\ c.phase = "key"
        BY <3>1
      <4> HIDE DEF new
      <4> QED
        BY <4>2, <4>3, PhaseTypes
    <3>4. \A v \in Workers : InProgress(v)' <=> InProgress(v)
      BY <3>1 DEF InProgress
    <3>5. Underway'
      BY <3>3, <3>4 DEF Phases, Underway
    <3>6. Runs' /\ Listens'
      BY <3>1 DEF Phases, Runs, Listens
    <3> QED
      BY <3>5, <3>6 DEF Phases
  <2>2. CASE StopCompaction(w)
    BY <2>2, ReleasePhases DEF StopCompaction
  <2>3. CASE \E waiting \in BOOLEAN : FinishCompactionWith(w, waiting)
    BY <2>3, ReleasePhases DEF FinishCompactionWith
  <2> QED
    BY <1>1, <2>1, <2>2, <2>3 DEF Compacts
<1>2. CASE AbortCompactions
  <2>1. \A v \in Workers : compaction'[v].phase = compaction[v].phase
                            /\ compaction'[v].reason = compaction[v].reason
    <3>1. ASSUME NEW c \in Compactions, NEW b
          PROVE  [c EXCEPT !.aborted = b].phase = c.phase /\ [c EXCEPT !.aborted = b].reason = c.reason
      BY DEF Compactions
    <3> QED
      BY <1>2, <3>1, PhaseTypes DEF AbortCompactions
  <2>2. UNCHANGED <<admin, streaming, owner, ending, connected, handler, pc>>
    BY <1>2 DEF AbortCompactions
  <2>3. \A v \in Workers : InProgress(v)' <=> InProgress(v)
    BY <2>2 DEF InProgress
  <2>4. Underway'
    BY <2>1, <2>3 DEF Phases, Underway
  <2>5. Runs' /\ Listens'
    BY <2>2 DEF Phases, Runs, Listens
  <2> QED
    BY <2>4, <2>5 DEF Phases
<1>3. CASE \/ QueueMessage(Item("user")) \/ Steers \/ Replaces \/ Clears \/ Idles \/ HandleStart
           \/ HandleUser \/ HandleResult \/ RecordBash
  BY <1>3, PromptPhases DEF QueueMessage, Steers, Replaces, Clears, Idles, HandleStart,
     HandleUser, HandleResult, RecordBash
<1>4. CASE Stops
  BY <1>4, RetryPhases DEF Stops
<1>5. ASSUME NEW c \in Callers, BeginsPrompt(c) \/ PromptCheck(c) \/ GivesUpPrompt(c) PROVE Phases'
  <2>1. CASE BeginsPrompt(c)
    <3>1. /\ UNCHANGED <<compaction, handler, admin, streaming, owner, ending, connected>>
          /\ pc[c] = "idle" /\ pc' = [pc EXCEPT ![c] = "checking"]
      BY <2>1 DEF BeginsPrompt, PromptBeginWith
    <3> QED
      BY <3>1, PromptPhases DEF PCs
  <2>2. CASE PromptCheck(c)
    <3> DEFINE reason == CompactionReason(LastAssistantIn(messages), FALSE)
    <3>1. reason \in {"none", "overflow", "threshold"}
      BY DEF CompactionReason
    <3>2. CASE reason = "none"
      <4>1. /\ UNCHANGED <<compaction, handler, admin, streaming, owner, ending, connected>>
            /\ pc[c] = "checking" /\ pc' = [pc EXCEPT ![c] = "starting"]
        BY <2>2, <3>2 DEF PromptCheck
      <4> QED
        BY <4>1, PromptPhases DEF PCs
    <3>3. CASE reason # "none"
      <4>1. /\ BeginCompaction(c, reason) /\ pc[c] = "checking"
            /\ pc' = [pc EXCEPT ![c] = "compacting"]
            /\ UNCHANGED <<streaming, owner, ending, connected, admin, handler>>
        BY <2>2, <3>3 DEF PromptCheck
      <4> HIDE DEF reason
      <4> QED
        BY <3>1, <3>3, <4>1, BeginPhases, WorkersAre
    <3> QED
      BY <3>2, <3>3
  <2>3. CASE GivesUpPrompt(c)
    <3>1. /\ UNCHANGED <<compaction, handler, admin, streaming, owner, ending, connected>>
          /\ pc[c] \in {"checking", "starting"} /\ pc' = [pc EXCEPT ![c] = "idle"]
      BY <2>3 DEF GivesUpPrompt, PromptThrows
    <3> QED
      BY <3>1, PromptPhases DEF PCs
  <2> QED
    BY <1>5, <2>1, <2>2, <2>3
<1>6. CASE HandleAssistant
  <2>1. UNCHANGED <<compaction, admin, streaming, owner, ending, connected, handler>>
        /\ (ResolveRetry \/ UNCHANGED pc)
    BY <1>6 DEF HandleAssistant
  <2> QED
    BY <2>1, RetryPhases, PromptPhases
<1>7. CASE HandleEndRetry
  <2>1. /\ UNCHANGED <<compaction, admin, streaming, owner, ending, connected>>
        /\ handler = "free"
        /\ \/ handler' = "sleeping" /\ UNCHANGED pc
           \/ ResolveRetry /\ UNCHANGED handler
    BY <1>7 DEF HandleEndRetry, HandleNext, StopRetrying
  <2>2. CASE handler' = "sleeping" /\ UNCHANGED pc
    <3>1. \A v \in Workers : InProgress(v)' <=> InProgress(v)
      BY <2>1, <2>2 DEF InProgress
    <3>2. Underway'
      BY <2>1, <3>1 DEF Phases, Underway
    <3>3. Runs' /\ Listens'
      BY <2>1, <2>2 DEF Phases, Runs, Listens
    <3> QED
      BY <3>2, <3>3 DEF Phases
  <2> QED
    BY <2>1, <2>2, RetryPhases
<1>8. CASE HandleEnd
  <2> DEFINE reason == CompactionReason(lastAssistant, TRUE)
  <2>1. reason \in {"none", "overflow", "threshold"}
    BY DEF CompactionReason
  <2>2. CASE reason = "none"
    <3>1. UNCHANGED <<compaction, handler, admin, streaming, owner, ending, connected, pc>>
      BY <1>8, <2>2 DEF HandleEnd
    <3> QED
      BY <3>1, PromptPhases
  <2>3. CASE reason # "none"
    <3>1. /\ BeginCompaction("handler", reason) /\ handler' = "compacting"
          /\ UNCHANGED <<streaming, owner, ending, connected, admin, pc>>
      BY <1>8, <2>3 DEF HandleEnd
    <3> HIDE DEF reason
    <3> QED
      BY <2>1, <2>3, <3>1, BeginPhases, WorkersAre
  <2> QED
    BY <2>2, <2>3
<1>9. CASE SleepEnds
  <2>1. /\ UNCHANGED <<compaction, admin, streaming, owner, ending, connected, pc>>
        /\ handler = "sleeping" /\ handler' = "free"
    BY <1>9 DEF SleepEnds
  <2>2. \A v \in Workers : InProgress(v)' <=> InProgress(v)
    BY <2>1 DEF InProgress
  <2>3. Underway'
    BY <2>1, <2>2 DEF Phases, Underway
  <2>4. Runs' /\ Listens'
    BY <2>1 DEF Phases, Runs, Listens
  <2> QED
    BY <2>3, <2>4 DEF Phases
<1> QED
  BY <1>1, <1>2, <1>3, <1>4, <1>5, <1>6, <1>7, <1>8, <1>9, RunPhases, AdminPhases
  DEF SessionStep, SessionAction

-----------------------------------------------------------------------------
(* The events that wait for the handler, and the messages in them *)

Events == [type : EventTypes, item : Items]
MessageEvents == [type : {"message"}, item : Items]
ItemsIn(es) == [i \in 1..Len(es) |-> es[i].item]
Pend(es) == ItemsIn(Only(es, MessageEvents))

LEMMA ItemsInIs ==
  ASSUME NEW es \in Seq(MessageEvents)
  PROVE  /\ ItemsIn(es) \in Seq(Items) /\ Len(ItemsIn(es)) = Len(es)
         /\ \A i \in 1..Len(es) : ItemsIn(es)[i] = es[i].item /\ es[i] \in MessageEvents
<1>1. Len(es) \in Nat /\ \A i \in 1..Len(es) : es[i] \in MessageEvents
  OBVIOUS
<1>2. \A i \in 1..Len(es) : es[i].item \in Items
  BY <1>1 DEF MessageEvents
<1> DEFINE q == ItemsIn(es)
<1>3. q = [i \in 1..Len(es) |-> es[i].item]
  BY DEF ItemsIn
<1> HIDE DEF q
<1>4. q \in [1..Len(es) -> Items]
  BY <1>2, <1>3
<1>5. q \in Seq(Items) /\ Len(q) = Len(es)
  BY <1>1, <1>4
<1> QED
  BY <1>1, <1>3, <1>5 DEF q

LEMMA ItemsInJoin ==
  ASSUME NEW a \in Seq(MessageEvents), NEW b \in Seq(MessageEvents)
  PROVE  ItemsIn(a \o b) = ItemsIn(a) \o ItemsIn(b)
<1> DEFINE ab == a \o b
           p == ItemsIn(a)
           q == ItemsIn(b)
           r == ItemsIn(ab)
<1>1. /\ ab \in Seq(MessageEvents) /\ Len(ab) = Len(a) + Len(b)
      /\ \A i \in 1..Len(a) + Len(b) : ab[i] = IF i <= Len(a) THEN a[i] ELSE b[i - Len(a)]
  BY ConcatProperties
<1>2. /\ p \in Seq(Items) /\ Len(p) = Len(a) /\ \A i \in 1..Len(a) : p[i] = a[i].item
      /\ q \in Seq(Items) /\ Len(q) = Len(b) /\ \A i \in 1..Len(b) : q[i] = b[i].item
  BY ItemsInIs
<1> HIDE DEF ab
<1>3. r \in Seq(Items) /\ Len(r) = Len(ab) /\ \A i \in 1..Len(ab) : r[i] = ab[i].item
  BY <1>1, ItemsInIs
<1>4. Len(a) \in Nat /\ Len(b) \in Nat
  OBVIOUS
<1> HIDE DEF p, q, r
<1> DEFINE pq == p \o q
<1>5. /\ pq \in Seq(Items) /\ Len(pq) = Len(p) + Len(q)
      /\ \A i \in 1..Len(p) + Len(q) : pq[i] = IF i <= Len(p) THEN p[i] ELSE q[i - Len(p)]
  <2>1. p \in Seq(Items) /\ q \in Seq(Items)
    BY <1>2
  <2>2. pq \in Seq(Items) /\ Len(pq) = Len(p) + Len(q)
    BY <2>1
  <2>3. \A i \in 1..Len(p) + Len(q) : pq[i] = IF i <= Len(p) THEN p[i] ELSE q[i - Len(p)]
    BY <2>1
  <2> QED
    BY <2>2, <2>3
<1> HIDE DEF pq
<1>6. ASSUME NEW i \in 1..Len(r) PROVE r[i] = pq[i]
  <2>1. i \in 1..Len(a) + Len(b) /\ r[i] = ab[i].item
    BY <1>1, <1>3
  <2>2. CASE i <= Len(a)
    <3>1. i \in 1..Len(a) /\ ab[i] = a[i] /\ pq[i] = p[i]
      BY <1>1, <1>2, <1>4, <1>5, <2>1, <2>2
    <3> QED
      BY <1>2, <2>1, <3>1
  <2>3. CASE ~(i <= Len(a))
    <3>1. i - Len(a) \in 1..Len(b) /\ ab[i] = b[i - Len(a)] /\ pq[i] = q[i - Len(a)]
      BY <1>1, <1>2, <1>4, <1>5, <2>1, <2>3
    <3> QED
      BY <1>2, <2>1, <3>1
  <2> QED
    BY <2>2, <2>3
<1>7. r = pq
  <2>1. Len(r) = Len(pq)
    BY <1>1, <1>2, <1>3, <1>5
  <2> QED
    BY <1>3, <1>5, <1>6, <2>1, SeqEqual
<1> QED
  BY <1>7 DEF r, pq, p, q, ab

\* What waits is what waited and what is new.
Joins(a, b) == Pend(a \o b) = Pend(a) \o Pend(b)
LEMMA PendJoin ==
  ASSUME NEW a \in Seq(Events), NEW b \in Seq(Events)
  PROVE  Joins(a, b) /\ Pend(a) \in Seq(Items)
<1> DEFINE p == Only(a, MessageEvents)
           q == Only(b, MessageEvents)
<1>1. p \in Seq(MessageEvents) /\ q \in Seq(MessageEvents)
  BY OnlyIn
<1>2. Only(a \o b, MessageEvents) = p \o q
  BY OnlyJoin
<1> HIDE DEF p, q
<1>3. ItemsIn(p \o q) = ItemsIn(p) \o ItemsIn(q) /\ ItemsIn(p) \in Seq(Items)
  BY <1>1, ItemsInJoin, ItemsInIs
<1> QED
  BY <1>2, <1>3 DEF Joins, Pend, p, q

LEMMA PendOne ==
  ASSUME NEW e \in Events
  PROVE  Pend(<<e>>) = IF e.type = "message" THEN <<e.item>> ELSE <<>>
<1>1. e \in MessageEvents <=> e.type = "message"
  BY DEF Events, MessageEvents
<1>2. Only(<<e>>, MessageEvents) = IF e \in MessageEvents THEN <<e>> ELSE <<>>
  BY OnlyOne
<1>3. ItemsIn(<<e>>) = <<e.item>> /\ ItemsIn(<<>>) = <<>>
  BY DEF ItemsIn
<1> QED
  BY <1>1, <1>2, <1>3 DEF Pend

LEMMA PendEmpty == Pend(<<>>) = <<>>
<1>1. Only(<<>>, MessageEvents) = <<>>
  BY OnlyEmpty
<1> QED
  BY <1>1 DEF Pend, ItemsIn

\* Every message that waits is in an event.
LEMMA PendFrom ==
  ASSUME NEW es \in Seq(Events)
  PROVE  \A i \in 1..Len(Pend(es)) : \E j \in 1..Len(es) :
           es[j].type = "message" /\ es[j].item = Pend(es)[i]
<1> DEFINE q == Only(es, MessageEvents)
<1>1. q \in Seq(MessageEvents)
  BY OnlyIn
<1>2. \A i \in 1..Len(q) : q[i] \in MessageEvents /\ \E k \in 1..Len(es) : q[i] = es[k]
  BY OnlyFrom
<1> HIDE DEF q
<1>3. Len(ItemsIn(q)) = Len(q) /\ \A i \in 1..Len(q) : ItemsIn(q)[i] = q[i].item
  BY <1>1, ItemsInIs
<1>4. \A i \in 1..Len(q) : q[i].type = "message"
  BY <1>2 DEF MessageEvents
<1>5. Pend(es) = ItemsIn(q)
  BY DEF Pend, q
<1> QED
  BY <1>2, <1>3, <1>4, <1>5

\* What a step adds to the agent's messages, and the events that tell of it.
NewEvents(new, items) ==
  /\ new \in Seq(Events) /\ items \in Seq(Items)
  /\ \A i \in 1..Len(new) :
       /\ new[i].type # "agent_end"
       /\ new[i].item = NoItem \/ \E j \in 1..Len(items) : new[i].item = items[j]
  /\ Pend(new) = items
Emits(items) ==
  /\ messages' = messages \o items
  /\ \E new : NewEvents(new, items) /\ events' = events \o new

LEMMA NewMessage ==
  ASSUME NEW x \in Items
  PROVE  NewEvents(<<Event("message", x)>>, <<x>>)
<1> DEFINE e == Event("message", x)
<1>1. e \in Events /\ e.type = "message" /\ e.item = x
  BY EventIs DEF Event, Events, EventTypes
<1> HIDE DEF e
<1>2. Pend(<<e>>) = <<x>>
  BY <1>1, PendOne
<1>3. /\ <<e>> \in Seq(Events) /\ <<x>> \in Seq(Items) /\ Len(<<x>>) = 1 /\ <<x>>[1] = x
      /\ Len(<<e>>) = 1 /\ <<e>>[1] = e
  BY <1>1
<1>4. NewEvents(<<e>>, <<x>>)
  BY <1>1, <1>2, <1>3 DEF NewEvents
<1> QED
  BY <1>4 DEF e

LEMMA NewStart == NewEvents(<<Event("agent_start", NoItem)>>, <<>>)
<1> DEFINE e == Event("agent_start", NoItem)
<1>1. e \in Events /\ e.type = "agent_start" /\ e.item = NoItem
  BY EventIs, NoItemIs DEF Event, Events, EventTypes
<1> HIDE DEF e
<1>2. Pend(<<e>>) = <<>>
  BY <1>1, PendOne
<1>3. <<e>> \in Seq(Events) /\ <<>> \in Seq(Items) /\ Len(<<e>>) = 1 /\ <<e>>[1] = e
  BY <1>1
<1>4. NewEvents(<<e>>, <<>>)
  BY <1>1, <1>2, <1>3 DEF NewEvents
<1> QED
  BY <1>4 DEF e

LEMMA NewBoth ==
  ASSUME NEW a, NEW b, NEW x, NEW y, NewEvents(a, x), NewEvents(b, y)
  PROVE  NewEvents(a \o b, x \o y)
<1>1. /\ a \in Seq(Events) /\ b \in Seq(Events) /\ x \in Seq(Items) /\ y \in Seq(Items)
      /\ Pend(a) = x /\ Pend(b) = y
  BY DEF NewEvents
<1>2. Pend(a \o b) = x \o y
  BY <1>1, PendJoin DEF Joins
<1> DEFINE ab == a \o b
           xy == x \o y
<1>3. /\ ab \in Seq(Events) /\ xy \in Seq(Items)
      /\ Len(ab) = Len(a) + Len(b) /\ Len(xy) = Len(x) + Len(y)
      /\ \A i \in 1..Len(ab) : ab[i] = IF i <= Len(a) THEN a[i] ELSE b[i - Len(a)]
  BY <1>1
<1>4. /\ \A i \in 1..Len(x) : i \in 1..Len(xy) /\ xy[i] = x[i]
      /\ \A i \in 1..Len(y) : i + Len(x) \in 1..Len(xy) /\ xy[i + Len(x)] = y[i]
  BY <1>1
<1>5. Len(a) \in Nat /\ Len(b) \in Nat
  BY <1>1
<1> HIDE DEF ab, xy
<1>6. ASSUME NEW i \in 1..Len(ab)
      PROVE  /\ ab[i].type # "agent_end"
             /\ ab[i].item = NoItem \/ \E j \in 1..Len(xy) : ab[i].item = xy[j]
  <2>1. CASE i <= Len(a)
    <3>1. i \in 1..Len(a) /\ ab[i] = a[i]
      BY <1>3, <1>5, <2>1
    <3>2. a[i].type # "agent_end" /\ (a[i].item = NoItem \/ \E j \in 1..Len(x) : a[i].item = x[j])
      BY <3>1 DEF NewEvents
    <3> QED
      BY <1>4, <3>1, <3>2
  <2>2. CASE ~(i <= Len(a))
    <3> DEFINE k == i - Len(a)
    <3>1. k \in 1..Len(b) /\ ab[i] = b[k]
      BY <1>3, <1>5, <2>2
    <3> HIDE DEF k
    <3>2. b[k].type # "agent_end" /\ (b[k].item = NoItem \/ \E j \in 1..Len(y) : b[k].item = y[j])
      BY <3>1 DEF NewEvents
    <3> QED
      BY <1>4, <3>1, <3>2
  <2> QED
    BY <2>1, <2>2
<1>7. Pend(ab) = xy
  BY <1>2 DEF ab, xy
<1>8. NewEvents(ab, xy)
  BY <1>3, <1>6, <1>7 DEF NewEvents
<1> QED
  BY <1>8 DEF ab, xy

LEMMA PairIs ==
  ASSUME NEW a, NEW b
  PROVE  <<a, b>> = <<a>> \o <<b>> /\ <<a>> = <<>> \o <<a>>
<1>1. <<a, b>> = <<a>> \o <<b>>
  <2> DEFINE s == <<a, b>>
             p == <<a>>
             q == <<b>>
             t == p \o q
             A == {a, b}
  <2>1. s \in Seq(A) /\ Len(s) = 2 /\ s[1] = a /\ s[2] = b
    OBVIOUS
  <2>2. p \in Seq(A) /\ q \in Seq(A) /\ Len(p) = 1 /\ Len(q) = 1 /\ p[1] = a /\ q[1] = b
    OBVIOUS
  <2> HIDE DEF s, p, q, A
  <2>3. t \in Seq(A) /\ Len(t) = 2 /\ t[1] = a /\ t[2] = b
    <3>1. p \in Seq(A) /\ q \in Seq(A)
      BY <2>2
    <3>2. t \in Seq(A) /\ Len(t) = Len(p) + Len(q)
      BY <3>1
    <3>3. \A i \in 1..Len(p) + Len(q) : t[i] = IF i <= Len(p) THEN p[i] ELSE q[i - Len(p)]
      BY <3>1
    <3> HIDE DEF t
    <3>4. 1 \in 1..2 /\ 2 \in 1..2 /\ 2 - 1 = 1
      OBVIOUS
    <3> QED
      BY <2>2, <3>2, <3>3, <3>4
  <2> HIDE DEF t
  <2>4. \A i \in 1..Len(s) : s[i] = t[i]
    BY <2>1, <2>3
  <2>5. s = t
    BY <2>1, <2>3, <2>4, SeqEqual
  <2> QED
    BY <2>5 DEF s, t, p, q
<1>2. <<a>> \in Seq({a})
  OBVIOUS
<1>3. <<a>> = <<>> \o <<a>>
  BY <1>2, ConcatEmptySeq, Zenon
<1> QED
  BY <1>1, <1>3

\* Two messages; the start of a run and a message.
LEMMA NewTwo ==
  ASSUME NEW x \in Items, NEW y \in Items
  PROVE  /\ NewEvents(<<Event("message", x), Event("message", y)>>, <<x, y>>)
         /\ NewEvents(<<Event("agent_start", NoItem), Event("message", x)>>, <<x>>)
<1> DEFINE a == Event("message", x)
           b == Event("message", y)
           s == Event("agent_start", NoItem)
<1>1. NewEvents(<<a>>, <<x>>) /\ NewEvents(<<b>>, <<y>>) /\ NewEvents(<<s>>, <<>>)
  BY NewMessage, NewStart
<1> HIDE DEF a, b, s
<1>2. <<a, b>> = <<a>> \o <<b>> /\ <<x, y>> = <<x>> \o <<y>> /\ <<s, a>> = <<s>> \o <<a>>
      /\ <<x>> = <<>> \o <<x>>
  BY PairIs, Zenon
<1>3. NewEvents(<<a>> \o <<b>>, <<x>> \o <<y>>) /\ NewEvents(<<s>> \o <<a>>, <<>> \o <<x>>)
  BY <1>1, NewBoth
<1>4. NewEvents(<<a, b>>, <<x, y>>) /\ NewEvents(<<s, a>>, <<x>>)
  BY <1>2, <1>3, Zenon
<1> QED
  BY <1>4 DEF a, b, s

\* What a run says.
LEMMA RunEmits ==
  ASSUME TypeOK, connected
  PROVE  /\ ReplyAndGoOn =>
              \E result \in Items : /\ result.kind = "result" /\ result.n = clock + 2
                                    /\ Emits(<<Item("ok"), result>>)
         /\ ReplyAndDeliver => Emits(<<Item("ok"), Head(queued)>>)
         /\ \A kind \in AssistantKinds : LastReply(kind) => Emits(<<Item(kind)>>)
         /\ Continue => /\ EndsWithAssistant(messages) => queued # <<>> /\ Emits(<<Head(queued)>>)
                        /\ ~EndsWithAssistant(messages) => Emits(<<>>)
         /\ \A c \in Callers, user \in Items : PromptStartWith(c, user) => Emits(<<user>>)
<1>1. \A kind \in Kinds : Item(kind) \in Items
  BY ItemIs
<1>2. "ok" \in Kinds /\ "result" \in Kinds /\ AssistantKinds \subseteq Kinds
  BY DEF Kinds, AssistantKinds
<1>3. messages \in Seq(Items) /\ queued \in Seq(Items) /\ clock \in Nat
  BY DEF TypeOK
<1>4. \A new : Emitted(new) = events \o new
  BY DEF Emitted
<1>5. ASSUME ReplyAndGoOn
      PROVE  \E result \in Items : /\ result.kind = "result" /\ result.n = clock + 2
                                    /\ Emits(<<Item("ok"), result>>)
  <2> DEFINE r == [Item("result") EXCEPT !.n = clock + 2]
             i == Item("ok")
  <2>1. r \in Items /\ r.kind = "result" /\ r.n = clock + 2
    <3>1. r = [kind |-> "result", n |-> clock + 2, first |-> 0]
      BY DEF Item
    <3>2. current \in Nat
      BY EntriesType
    <3> QED
      BY <1>2, <1>3, <3>1, <3>2 DEF Items, ItemsOf
  <2>2. i \in Items
    BY <1>1, <1>2
  <2>3. messages' = messages \o <<i, r>> /\ events' = events \o <<Event("message", i), Event("message", r)>>
    BY <1>4, <1>5 DEF ReplyAndGoOn
  <2> HIDE DEF r, i
  <2>4. NewEvents(<<Event("message", i), Event("message", r)>>, <<i, r>>)
    BY <2>1, <2>2, NewTwo
  <2>5. Emits(<<i, r>>)
    BY <2>3, <2>4, Zenon DEF Emits
  <2> QED
    BY <2>1, <2>5 DEF i
<1>6. ASSUME ReplyAndDeliver PROVE Emits(<<Item("ok"), Head(queued)>>)
  <2> DEFINE r == Head(queued)
             i == Item("ok")
  <2>1. r \in Items
    BY <1>3, <1>6 DEF ReplyAndDeliver
  <2>2. i \in Items
    BY <1>1, <1>2
  <2>3. messages' = messages \o <<i, r>> /\ events' = events \o <<Event("message", i), Event("message", r)>>
    BY <1>4, <1>6 DEF ReplyAndDeliver
  <2> HIDE DEF r, i
  <2>4. NewEvents(<<Event("message", i), Event("message", r)>>, <<i, r>>)
    BY <2>1, <2>2, NewTwo
  <2>5. Emits(<<i, r>>)
    BY <2>3, <2>4, Zenon DEF Emits
  <2> QED
    BY <2>5 DEF i, r
<1>7. ASSUME NEW kind \in AssistantKinds, LastReply(kind) PROVE Emits(<<Item(kind)>>)
  <2> DEFINE i == Item(kind)
  <2>1. i \in Items
    BY <1>1, <1>2
  <2>2. messages' = Append(messages, i) /\ events' = events \o <<Event("message", i)>>
    BY <1>4, <1>7 DEF LastReply
  <2> HIDE DEF i
  <2>3. NewEvents(<<Event("message", i)>>, <<i>>)
    BY <2>1, NewMessage
  <2>4. messages' = messages \o <<i>>
    BY <1>3, <2>1, <2>2
  <2>5. Emits(<<i>>)
    BY <2>2, <2>3, <2>4, Zenon DEF Emits
  <2> QED
    BY <2>5 DEF i
<1>8. ASSUME Continue
      PROVE  /\ EndsWithAssistant(messages) => queued # <<>> /\ Emits(<<Head(queued)>>)
             /\ ~EndsWithAssistant(messages) => Emits(<<>>)
  <2>1. ASSUME EndsWithAssistant(messages) PROVE queued # <<>> /\ Emits(<<Head(queued)>>)
    <3> DEFINE r == Head(queued)
    <3>1. queued # <<>>
      BY <1>8, <2>1 DEF Continue, MayContinue
    <3>2. r \in Items
      BY <1>3, <3>1
    <3>3. /\ messages' = Append(messages, r)
          /\ events' = events \o <<Event("agent_start", NoItem), Event("message", r)>>
      BY <1>4, <1>8, <2>1 DEF Continue
    <3> HIDE DEF r
    <3>4. NewEvents(<<Event("agent_start", NoItem), Event("message", r)>>, <<r>>)
      BY <3>2, NewTwo
    <3>5. messages' = messages \o <<r>>
      BY <1>3, <3>2, <3>3
    <3>6. Emits(<<r>>)
      BY <3>3, <3>4, <3>5, Zenon DEF Emits
    <3> QED
      BY <3>1, <3>6 DEF r
  <2>2. ASSUME ~EndsWithAssistant(messages) PROVE Emits(<<>>)
    <3>1. messages' = messages /\ events' = events \o <<Event("agent_start", NoItem)>>
      BY <1>4, <1>8, <2>2 DEF Continue
    <3>2. messages' = messages \o <<>>
      BY <1>3, <3>1
    <3> QED
      BY <3>1, <3>2, NewStart, Zenon DEF Emits
  <2> QED
    BY <2>1, <2>2
<1>9. ASSUME NEW c \in Callers, NEW r \in Items, PromptStartWith(c, r) PROVE Emits(<<r>>)
  <2>1. /\ messages' = Append(messages, r)
        /\ events' = events \o <<Event("agent_start", NoItem), Event("message", r)>>
    BY <1>4, <1>9 DEF PromptStartWith
  <2>2. NewEvents(<<Event("agent_start", NoItem), Event("message", r)>>, <<r>>)
    BY NewTwo
  <2>3. messages' = messages \o <<r>>
    BY <1>3, <2>1
  <2> QED
    BY <2>1, <2>2, <2>3, Zenon DEF Emits
<1> QED
  BY <1>5, <1>6, <1>7, <1>8, <1>9

-----------------------------------------------------------------------------
(* A session that nothing disturbed *)

\* At most one actor goes on with the session at a time: a call of prompt(), a
\* run, the handler of its events, a scheduled continuation or a session
\* operation. Only a run and the queue of its events overlap.
Calm ==
  /\ timers \in {0, 1}
  /\ \A c, d \in Callers : Busy(c) /\ d # c => pc[d] = "idle"
  /\ \A c \in Callers :
       Busy(c) => /\ ~streaming /\ events = <<>> /\ handler = "free" /\ admin = "none"
                  /\ timers = 1 => pc[c] = "starting"
  /\ streaming => handler = "free" /\ admin = "none"
  /\ events # <<>> => admin = "none" /\ handler = "free" /\ (~streaming => timers = 0)
  /\ handler # "free" => admin = "none" /\ timers = 0
  /\ admin # "none" => timers = 0 /\ \A c \in Callers : pc[c] = "idle"

\* A disturbance is not forgotten.
LEMMA StaysDisturbed ==
  ASSUME SessionStep, ~disturbed'
  PROVE  ~disturbed
<1> USE DEF agentVars, retryVars, compactVars, viewVars, fileVars, handlerVars, RestVars, ReplyVars,
            RunVars, Disturb
<1>1. Time /\ SessionAction
  BY DEF SessionStep
<1>2. ASSUME NEW w \in Workers, Compacts(w) PROVE ~disturbed
  BY <1>2 DEF Compacts, PrepareCompaction, StopCompaction, FinishCompactionWith
<1>3. CASE AbortCompactions \/ QueueMessage(Item("user")) \/ Steers \/ Replaces \/ Clears \/ Stops
        \/ Idles
  BY <1>3 DEF AbortCompactions, QueueMessage, Steers, Replaces, Clears, Stops, Idles
<1>4. ASSUME NEW c \in Callers, BeginsPrompt(c) \/ PromptCheck(c) \/ StartsPrompt(c) \/ GivesUpPrompt(c)
      PROVE  ~disturbed
  BY <1>4 DEF BeginsPrompt, PromptBeginWith, PromptCheck, StartsPrompt, PromptStartWith,
     GivesUpPrompt, PromptThrows
<1>5. CASE \/ ReplyAndGoOn \/ ReplyAndDeliver \/ EndRun \/ \E kind \in AssistantKinds : LastReply(kind)
           \/ ContinueSwallowed \/ Continue
  BY <1>5 DEF ReplyAndGoOn, ReplyAndDeliver, EndRun, LastReply, ContinueSwallowed, Continue
<1>6. CASE \/ HandleStart \/ HandleUser \/ HandleResult \/ HandleAssistant \/ HandleEndRetry
           \/ HandleEnd \/ SleepEnds
  BY <1>6 DEF HandleStart, HandleUser, HandleResult, HandleAssistant, HandleEndRetry, HandleEnd,
     SleepEnds
<1>7. CASE \/ RecordBash \/ \E operation \in {"new", "switch", "compact"} : AdminBegin(operation)
           \/ NewSession \/ SwitchSession \/ ManualCompact
  BY <1>7 DEF RecordBash, AdminBegin, NewSession, SwitchSession, ManualCompact
<1> QED
  BY <1>1, <1>2, <1>3, <1>4, <1>5, <1>6, <1>7 DEF SessionAction

\* A step that leaves alone what Calm speaks of.
CalmVars == <<timers, pc, streaming, events, handler, admin>>
LEMMA SameCalm ==
  ASSUME Calm, UNCHANGED CalmVars
  PROVE  Calm'
BY DEF Calm, CalmVars, Busy

\* The event of the end of a run is the last one of an idle agent.
EventsInOrder ==
  /\ \A i \in 1..Len(events) : events[i].type = "agent_end" => ~streaming /\ i = Len(events)
  /\ ~streaming /\ events # <<>> => events[Len(events)].type = "agent_end"

\* What a step has to leave alone for both.
LEMMA SameOrder ==
  ASSUME EventsInOrder, UNCHANGED <<events, streaming>>
  PROVE  EventsInOrder'
BY DEF EventsInOrder

LEMMA CompactsCalm ==
  ASSUME TypeOK, Phases, Calm, EventsInOrder, NEW w \in Workers, Compacts(w)
  PROVE  Calm' /\ EventsInOrder'
<1> USE DEF agentVars, retryVars, compactVars, viewVars, fileVars, handlerVars
<1> USE PhaseTypes, WorkersAre
<1>1. CASE PrepareCompaction(w)
  <2>1. UNCHANGED <<timers, pc, streaming, events, handler, admin>>
    BY <1>1 DEF PrepareCompaction
  <2> QED
    BY <2>1, SameCalm, SameOrder DEF CalmVars
<1>2. CASE ~PrepareCompaction(w)
  <2>1. /\ compaction[w].phase # "none" /\ Release(w) /\ UNCHANGED <<streaming, events>>
        /\ timers' \in {timers, timers + 1}
    <3>1. StopCompaction(w) \/ \E waiting \in BOOLEAN : FinishCompactionWith(w, waiting)
      BY <1>2 DEF Compacts
    <3>2. timers \in Nat
      BY DEF TypeOK
    <3> QED
      BY <3>1, <3>2 DEF StopCompaction, FinishCompactionWith
  <2>2. InProgress(w)
    BY <2>1 DEF Phases, Underway
  <2>3. ~streaming /\ events = <<>> /\ timers = 0
    BY <2>2 DEF InProgress, Calm, Busy
  <2>4. CASE w = "handler"
    <3>1. handler' = "free" /\ UNCHANGED <<pc, admin>> /\ handler = "compacting"
      BY <2>1, <2>2, <2>4 DEF Release, InProgress
    <3> QED
      BY <2>1, <2>3, <3>1 DEF Calm, Busy, EventsInOrder
  <2>5. CASE w = "manual"
    <3>1. admin' = "none" /\ UNCHANGED <<pc, handler>> /\ admin = "compacting"
      BY <2>1, <2>2, <2>5 DEF Release, InProgress
    <3> QED
      BY <2>1, <2>3, <3>1 DEF Calm, Busy, EventsInOrder
  <2>6. CASE w \in Callers
    <3>1. pc' = [pc EXCEPT ![w] = "starting"] /\ UNCHANGED <<admin, handler>>
          /\ pc[w] = "compacting"
      BY <2>1, <2>2, <2>6 DEF Release, InProgress
    <3> QED
      BY <2>1, <2>3, <2>6, <3>1 DEF Calm, Busy, EventsInOrder
  <2> QED
    BY <2>4, <2>5, <2>6
<1> QED
  BY <1>1, <1>2

LEMMA CallerCalm ==
  ASSUME TypeOK, Phases, Calm, EventsInOrder, ~disturbed', NEW c \in Callers,
         BeginsPrompt(c) \/ PromptCheck(c) \/ StartsPrompt(c) \/ GivesUpPrompt(c)
  PROVE  Calm' /\ EventsInOrder'
<1> USE DEF agentVars, retryVars, compactVars, viewVars, fileVars, handlerVars
<1> USE PhaseTypes, WorkersAre
<1>1. CASE BeginsPrompt(c)
  <2>1. Quiet /\ pc' = [pc EXCEPT ![c] = "checking"]
        /\ UNCHANGED <<timers, streaming, events, handler, admin>>
    BY <1>1 DEF BeginsPrompt, PromptBeginWith, Disturb
  <2> QED
    BY <2>1 DEF Quiet, Calm, Busy, EventsInOrder
<1>2. CASE PromptCheck(c)
  <2>1. pc[c] = "checking" /\ (pc' = [pc EXCEPT ![c] = "starting"] \/ pc' = [pc EXCEPT ![c] = "compacting"])
        /\ UNCHANGED <<timers, streaming, events, handler, admin>>
    BY <1>2 DEF PromptCheck
  <2> QED
    BY <2>1 DEF Calm, Busy, EventsInOrder
<1>3. CASE StartsPrompt(c)
  <2>1. PICK user : UserItem(user) /\ PromptStartWith(c, user)
    BY <1>3 DEF StartsPrompt
  <2>2. /\ pc[c] = "starting" /\ pc' = [pc EXCEPT ![c] = "running"] /\ ~streaming /\ streaming' = TRUE
        /\ events' = Emitted(<<Event("agent_start", NoItem), Event("message", user)>>)
        /\ UNCHANGED <<timers, handler, admin>>
    BY <2>1 DEF PromptStartWith
  <2>3. events = <<>> /\ handler = "free" /\ admin = "none"
    BY <2>2 DEF Calm, Busy
  <2>4. EventsInOrder'
    <3>1. connected
      BY <2>3 DEF Phases, Listens
    <3> DEFINE a == Event("agent_start", NoItem)
               b == Event("message", user)
    <3>2. a.type # "agent_end" /\ b.type # "agent_end" /\ events' = events \o <<a, b>>
      BY <2>2, <3>1 DEF Emitted, Event
    <3> HIDE DEF a, b
    <3>3. events' = <<a, b>>
      BY <2>3, <3>2
    <3>4. Len(events') = 2 /\ \A i \in 1..2 : events'[i] = a \/ events'[i] = b
      BY <3>3
    <3> QED
      BY <2>2, <3>2, <3>4 DEF EventsInOrder
  <2>5. Calm'
    BY <2>2, <2>3 DEF Calm, Busy
  <2> QED
    BY <2>4, <2>5
<1>4. CASE GivesUpPrompt(c)
  <2>1. /\ pc[c] \in {"checking", "starting"} /\ pc' = [pc EXCEPT ![c] = "idle"]
        /\ UNCHANGED <<timers, streaming, events, handler, admin>>
    BY <1>4 DEF GivesUpPrompt, PromptThrows
  <2> QED
    BY <2>1 DEF Calm, Busy, EventsInOrder
<1> QED
  BY <1>1, <1>2, <1>3, <1>4

\* A step of a run that does not end it, and one that begins it.
RunGoesOn ==
  ReplyAndGoOn \/ ReplyAndDeliver \/ \E kind \in AssistantKinds : LastReply(kind)
RunBegins == Continue \/ \E c \in Callers : StartsPrompt(c)

LEMMA RunSays ==
  ASSUME TypeOK, connected, RunGoesOn \/ RunBegins
  PROVE  \E items : Emits(items)
<1>1. CASE ReplyAndGoOn
  BY <1>1, RunEmits
<1>2. CASE ReplyAndDeliver
  BY <1>2, RunEmits
<1>3. CASE \E kind \in AssistantKinds : LastReply(kind)
  BY <1>3, RunEmits
<1>4. CASE Continue
  BY <1>4, RunEmits
<1>5. CASE \E c \in Callers : StartsPrompt(c)
  <2>1. PICK c \in Callers : StartsPrompt(c)
    BY <1>5
  <2>2. PICK user : UserItem(user) /\ PromptStartWith(c, user)
    BY <2>1 DEF StartsPrompt
  <2>3. user \in Items
    BY <2>2 DEF UserItem, Items, ItemsOf, Kinds
  <2> QED
    BY <2>2, <2>3, RunEmits
<1> QED
  BY <1>1, <1>2, <1>3, <1>4, <1>5 DEF RunGoesOn, RunBegins

\* No end of a run is among what is said.
LEMMA SaysNoEnd ==
  ASSUME TypeOK, NEW items, Emits(items), \A i \in 1..Len(events) : events[i].type # "agent_end"
  PROVE  \A i \in 1..Len(events') : events'[i].type # "agent_end"
<1>1. PICK new : NewEvents(new, items) /\ events' = events \o new
  BY DEF Emits
<1>2. new \in Seq(Events) /\ \A i \in 1..Len(new) : new[i].type # "agent_end"
  BY <1>1 DEF NewEvents
<1>3. events \in Seq(Events)
  BY DEF TypeOK, Events, EventTypes
<1> QED
  BY <1>1, <1>2, <1>3

LEMMA RunOrder ==
  ASSUME TypeOK, Phases, Calm, EventsInOrder, RunGoesOn \/ RunBegins
  PROVE  streaming' /\ EventsInOrder'
<1>1. streaming' = TRUE
  BY DEF RunGoesOn, RunBegins, ReplyAndGoOn, ReplyAndDeliver, LastReply, Continue, StartsPrompt,
     PromptStartWith, TypeOK
<1>2. connected /\ \A i \in 1..Len(events) : events[i].type # "agent_end"
  <2>1. CASE RunGoesOn
    <3>1. streaming
      BY <2>1 DEF RunGoesOn, ReplyAndGoOn, ReplyAndDeliver, LastReply
    <3> QED
      BY <3>1 DEF Calm, Phases, Listens, EventsInOrder
  <2>2. CASE Continue
    <3>1. ~streaming /\ timers > 0 /\ timers \in Nat
      BY <2>2 DEF Continue, MayContinue, TypeOK
    <3>2. events = <<>> /\ admin = "none"
      BY <3>1 DEF Calm
    <3> QED
      BY <3>2 DEF Phases, Listens
  <2>3. CASE \E c \in Callers : StartsPrompt(c)
    <3>1. PICK c \in Callers : pc[c] = "starting"
      BY <2>3 DEF StartsPrompt, PromptStartWith
    <3>2. events = <<>> /\ admin = "none"
      BY <3>1 DEF Calm, Busy
    <3> QED
      BY <3>2 DEF Phases, Listens
  <2> QED
    BY <2>1, <2>2, <2>3 DEF RunBegins
<1>3. PICK items : Emits(items)
  BY <1>2, RunSays
<1>4. \A i \in 1..Len(events') : events'[i].type # "agent_end"
  BY <1>2, <1>3, SaysNoEnd
<1> QED
  BY <1>1, <1>4 DEF EventsInOrder

LEMMA RunCalm ==
  ASSUME TypeOK, Phases, Calm, EventsInOrder, ~disturbed',
         RunGoesOn \/ EndRun \/ ContinueSwallowed \/ Continue
  PROVE  Calm' /\ EventsInOrder'
<1> USE DEF agentVars, retryVars, compactVars, viewVars, fileVars, handlerVars, RunVars, ReplyVars
<1> USE PhaseTypes, WorkersAre
<1>1. CASE RunGoesOn
  <2>1. streaming /\ UNCHANGED <<timers, streaming, handler, admin, pc>>
    BY <1>1 DEF RunGoesOn, ReplyAndGoOn, ReplyAndDeliver, LastReply
  <2> QED
    BY <1>1, <2>1, RunOrder DEF Calm, Busy
<1>2. CASE EndRun
  <2>1. /\ streaming /\ streaming' = FALSE /\ events' = Emitted(<<Event("agent_end", NoItem)>>)
        /\ timers = 0 /\ UNCHANGED <<timers, handler, admin>>
        /\ \A c \in Callers : pc'[c] = pc[c] \/ pc'[c] \in {"retryWait", "idle"}
    <3>1. ~(timers > 0) /\ timers \in {0, 1}
      BY <1>2 DEF EndRun, Disturb, Calm
    <3>2. \A c \in Callers : pc'[c] = pc[c] \/ pc'[c] \in {"retryWait", "idle"}
      BY <1>2 DEF EndRun
    <3> QED
      BY <1>2, <3>1, <3>2 DEF EndRun
  <2>2. connected /\ handler = "free" /\ admin = "none" /\ \A c \in Callers : ~Busy(c)
    BY <2>1 DEF Calm, Phases, Listens
  <2>3. \A c \in Callers : ~Busy(c)'
    BY <2>1, <2>2 DEF Busy
  <2> DEFINE e == Event("agent_end", NoItem)
  <2>4. events' = events \o <<e>> /\ e.type = "agent_end" /\ events \in Seq(Events) /\ e \in Events
    BY <2>1, <2>2, EventIs, NoItemIs DEF Emitted, Event, TypeOK, Events, EventTypes
  <2>5. \A i \in 1..Len(events) : events[i].type # "agent_end"
    BY <2>1 DEF EventsInOrder
  <2> HIDE DEF e
  <2>6. events' \in Seq(Events) /\ Len(events') = Len(events) + 1 /\ Len(events) \in Nat
        /\ events'[Len(events) + 1] = e /\ \A i \in 1..Len(events) : events'[i] = events[i]
    BY <2>4
  <2>7. EventsInOrder'
    <3> DEFINE n == Len(events)
    <3>1. \A i \in 1..Len(events') : i \in 1..n \/ i = n + 1
      BY <2>6
    <3>2. \A i \in 1..Len(events') : events'[i].type = "agent_end" => i = Len(events')
      BY <2>5, <2>6, <3>1
    <3>3. events'[Len(events')].type = "agent_end"
      BY <2>4, <2>6
    <3> QED
      BY <2>1, <3>2, <3>3 DEF EventsInOrder
  <2>8. Calm'
    BY <2>1, <2>2, <2>3 DEF Calm
  <2> QED
    BY <2>7, <2>8
<1>3. CASE ContinueSwallowed
  <2>1. timers \in Nat /\ timers > 0 /\ timers' = timers - 1
        /\ UNCHANGED <<pc, streaming, events, handler, admin>>
    BY <1>3 DEF ContinueSwallowed, TypeOK
  <2> QED
    BY <2>1, SameOrder DEF Calm, Busy
<1>4. CASE Continue
  <2>1. /\ timers \in Nat /\ timers > 0 /\ timers' = timers - 1
        /\ UNCHANGED <<handler, admin, pc>> /\ \A c \in Callers : pc[c] \in {"idle", "retryWait"}
    BY <1>4 DEF Continue, TypeOK, Disturb
  <2>2. streaming' /\ EventsInOrder'
    BY <1>4, RunOrder DEF RunBegins
  <2>3. handler = "free" /\ admin = "none"
    BY <2>1 DEF Calm
  <2>4. \A c \in Callers : ~Busy(c)'
    BY <2>1 DEF Busy
  <2>5. timers' = 0
    BY <2>1 DEF Calm
  <2> QED
    BY <2>1, <2>2, <2>3, <2>4, <2>5 DEF Calm
<1> QED
  BY <1>1, <1>2, <1>3, <1>4

LEMMA HandlerCalm ==
  ASSUME TypeOK, Phases, Calm, EventsInOrder,
         \/ HandleStart \/ HandleUser \/ HandleResult \/ HandleAssistant \/ HandleEndRetry
         \/ HandleEnd \/ SleepEnds
  PROVE  Calm' /\ EventsInOrder'
<1> USE DEF agentVars, retryVars, compactVars, viewVars, fileVars, handlerVars
<1> USE PhaseTypes, WorkersAre
<1>1. CASE SleepEnds
  <2>1. /\ handler = "sleeping" /\ handler' = "free" /\ timers' = timers + 1
        /\ UNCHANGED <<pc, streaming, events, admin>>
    BY <1>1 DEF SleepEnds
  <2> QED
    BY <2>1, SameOrder DEF Calm, Busy
<1>2. CASE HandleStart \/ HandleUser \/ HandleResult \/ HandleAssistant \/ HandleEndRetry \/ HandleEnd
  <2>1. HandleNext /\ UNCHANGED <<timers, streaming, admin>>
    BY <1>2 DEF HandleStart, HandleUser, HandleResult, HandleAssistant, HandleEndRetry, HandleEnd
  <2>2. /\ events # <<>> /\ events' = Tail(events) /\ events \in Seq(Events) /\ handler = "free"
        /\ admin = "none" /\ (~streaming => timers = 0) /\ \A c \in Callers : ~Busy(c)
    BY <2>1 DEF HandleNext, TypeOK, Events, EventTypes, Calm
  <2>3. Len(events) \in Nat \ {0} /\ Len(events') = Len(events) - 1 /\ Head(events) = events[1]
        /\ \A i \in 1..Len(events') : events'[i] = events[i + 1] /\ i + 1 \in 1..Len(events)
    BY <2>2
  <2>4. EventsInOrder'
    <3>1. ASSUME NEW i \in 1..Len(events'), events'[i].type = "agent_end"
          PROVE  ~streaming /\ i = Len(events')
      <4>1. i + 1 \in 1..Len(events) /\ events[i + 1].type = "agent_end"
        BY <2>3, <3>1
      <4>2. ~streaming /\ i + 1 = Len(events)
        BY <4>1 DEF EventsInOrder
      <4> QED
        BY <2>3, <4>2
    <3>2. ASSUME ~streaming, events' # <<>> PROVE events'[Len(events')].type = "agent_end"
      <4>1. Len(events') \in 1..Len(events') /\ Len(events') + 1 = Len(events)
        BY <2>2, <2>3, <3>2
      <4>2. events'[Len(events')] = events[Len(events)]
        BY <2>3, <4>1
      <4> QED
        BY <2>2, <3>2, <4>2 DEF EventsInOrder
    <3> QED
      BY <2>1, <3>1, <3>2 DEF EventsInOrder
  <2>5. CASE HandleEndRetry \/ HandleEnd
    <3>1. Head(events).type = "agent_end"
      BY <2>5 DEF HandleEndRetry, HandleEnd
    <3>2. ~streaming /\ events' = <<>>
      <4>1. events[1].type = "agent_end" /\ 1 \in 1..Len(events)
        BY <2>3, <3>1
      <4>2. ~streaming /\ 1 = Len(events)
        BY <4>1 DEF EventsInOrder
      <4> QED
        BY <2>2, <2>3, <4>2
    <3>3. \A c \in Callers : ~Busy(c)'
      <4>1. \A c \in Callers : pc'[c] = pc[c] \/ pc'[c] = "idle"
        BY <2>5 DEF HandleEndRetry, HandleEnd, StopRetrying, ResolveRetry, Woken
      <4> QED
        BY <2>2, <4>1 DEF Busy
    <3> QED
      BY <2>1, <2>2, <2>4, <3>2, <3>3 DEF Calm
  <2>6. CASE HandleStart \/ HandleUser \/ HandleResult \/ HandleAssistant
    <3>1. UNCHANGED handler
      BY <2>6 DEF HandleStart, HandleUser, HandleResult, HandleAssistant
    <3>2. \A c \in Callers : ~Busy(c)'
      <4>1. \A c \in Callers : pc'[c] = pc[c] \/ pc'[c] = "idle"
        BY <2>6 DEF HandleStart, HandleUser, HandleResult, HandleAssistant, ResolveRetry, Woken
      <4> QED
        BY <2>2, <4>1 DEF Busy
    <3> QED
      BY <2>1, <2>2, <2>4, <3>1, <3>2 DEF Calm
  <2> QED
    BY <1>2, <2>5, <2>6
<1> QED
  BY <1>1, <1>2

LEMMA StepCalm ==
  ASSUME TypeOK, Phases, Calm, EventsInOrder, ~disturbed', SessionStep
  PROVE  Calm' /\ EventsInOrder'
<1> USE DEF agentVars, retryVars, compactVars, viewVars, fileVars, handlerVars, RestVars
<1> USE PhaseTypes, WorkersAre
<1>1. CASE \/ AbortCompactions \/ QueueMessage(Item("user")) \/ Steers \/ Replaces \/ Clears
           \/ Idles \/ RecordBash
  <2>1. UNCHANGED <<timers, pc, streaming, events, handler, admin>>
    BY <1>1 DEF AbortCompactions, QueueMessage, Steers, Replaces, Clears, Idles, RecordBash
  <2> QED
    BY <2>1, SameCalm, SameOrder DEF CalmVars
<1>2. CASE Stops
  <2>1. /\ UNCHANGED <<timers, streaming, events, admin>>
        /\ \A c \in Callers : pc'[c] # pc[c] => pc[c] = "retryWait" /\ pc'[c] = "idle"
        /\ handler' = handler \/ (handler' = "free" /\ handler = "sleeping")
    BY <1>2 DEF Stops, AbortRetryEffects, ResolveRetry, Woken
  <2> QED
    BY <2>1, SameOrder DEF Calm, Busy
<1>3. CASE \E operation \in {"new", "switch", "compact"} : AdminBegin(operation)
  <2>1. /\ Quiet /\ UNCHANGED <<timers, streaming, events>> /\ AbortRetryEffects
    BY <1>3 DEF AdminBegin, Disturb, AbortEffects
  <2>2. handler' = "free" /\ \A c \in Callers : pc'[c] = "idle"
    BY <2>1 DEF Quiet, AbortRetryEffects, ResolveRetry, Woken
  <2> QED
    BY <2>1, <2>2, SameOrder DEF Quiet, Calm, Busy
<1>4. CASE NewSession \/ SwitchSession \/ ManualCompact
  <2>1. admin # "none" /\ UNCHANGED <<timers, pc, streaming, events, handler>>
    BY <1>4 DEF NewSession, SwitchSession, ManualCompact
  <2>2. events = <<>> /\ handler = "free" /\ ~streaming /\ timers = 0 /\ \A c \in Callers : pc[c] = "idle"
    BY <2>1 DEF Calm
  <2> QED
    BY <2>1, <2>2, SameOrder DEF Calm, Busy
<1> QED
  BY <1>1, <1>2, <1>3, <1>4, CompactsCalm, CallerCalm, RunCalm, HandlerCalm
  DEF SessionStep, SessionAction, RunGoesOn

-----------------------------------------------------------------------------
(* Where the items of a list come from *)

LEMMA InSet ==
  ASSUME NEW A, NEW s \in Seq(A)
  PROVE  /\ ToSet(s) \subseteq A
         /\ \A i \in 1..Len(s) : s[i] \in ToSet(s)
         /\ \A x \in ToSet(s) : \E i \in 1..Len(s) : x = s[i]
         /\ s # <<>> => Head(s) \in ToSet(s) /\ s[Len(s)] \in ToSet(s) /\ ToSet(Tail(s)) \subseteq ToSet(s)
<1>1. DOMAIN s = 1..Len(s) /\ Len(s) \in Nat /\ \A i \in 1..Len(s) : s[i] \in A
  OBVIOUS
<1>2. /\ ToSet(s) \subseteq A
      /\ \A i \in 1..Len(s) : s[i] \in ToSet(s)
      /\ \A x \in ToSet(s) : \E i \in 1..Len(s) : x = s[i]
  BY <1>1 DEF ToSet
<1>3. ASSUME s # <<>>
      PROVE  Head(s) \in ToSet(s) /\ s[Len(s)] \in ToSet(s) /\ ToSet(Tail(s)) \subseteq ToSet(s)
  <2>1. Len(s) \in 1..Len(s) /\ 1 \in 1..Len(s) /\ Head(s) = s[1]
    BY <1>1, <1>3
  <2>2. /\ DOMAIN Tail(s) = 1..Len(s) - 1
        /\ \A i \in 1..Len(s) - 1 : Tail(s)[i] = s[i + 1] /\ i + 1 \in 1..Len(s)
    BY <1>1, <1>3
  <2>3. ASSUME NEW x \in ToSet(Tail(s)) PROVE x \in ToSet(s)
    <3>1. PICK i \in 1..Len(s) - 1 : x = Tail(s)[i]
      BY <2>2 DEF ToSet
    <3> QED
      BY <1>2, <2>2, <3>1
  <2> QED
    BY <1>2, <2>1, <2>3
<1> QED
  BY <1>2, <1>3

LEMMA SetOfJoin ==
  ASSUME NEW A, NEW s \in Seq(A), NEW t \in Seq(A)
  PROVE  ToSet(s \o t) = ToSet(s) \cup ToSet(t)
<1> DEFINE st == s \o t
<1>1. /\ st \in Seq(A) /\ Len(st) = Len(s) + Len(t)
      /\ \A i \in 1..Len(s) + Len(t) : st[i] = IF i <= Len(s) THEN s[i] ELSE t[i - Len(s)]
  OBVIOUS
<1>2. Len(s) \in Nat /\ Len(t) \in Nat
  OBVIOUS
<1> HIDE DEF st
<1>3. /\ \A x \in ToSet(s) : \E i \in 1..Len(s) : x = s[i]
      /\ \A x \in ToSet(t) : \E i \in 1..Len(t) : x = t[i]
      /\ \A x \in ToSet(st) : \E i \in 1..Len(st) : x = st[i]
      /\ \A i \in 1..Len(s) : s[i] \in ToSet(s)
      /\ \A i \in 1..Len(t) : t[i] \in ToSet(t)
      /\ \A i \in 1..Len(st) : st[i] \in ToSet(st)
  BY <1>1, InSet
<1>4. ASSUME NEW x \in ToSet(s) PROVE x \in ToSet(st)
  <2>1. PICK i \in 1..Len(s) : x = s[i]
    BY <1>3
  <2>2. i \in 1..Len(st) /\ st[i] = s[i]
    BY <1>1, <1>2
  <2> QED
    BY <1>3, <2>1, <2>2
<1>5. ASSUME NEW x \in ToSet(t) PROVE x \in ToSet(st)
  <2>1. PICK i \in 1..Len(t) : x = t[i]
    BY <1>3
  <2> DEFINE k == i + Len(s)
  <2>2. k \in 1..Len(st) /\ k \in 1..Len(s) + Len(t) /\ ~(k <= Len(s)) /\ k - Len(s) = i
    BY <1>1, <1>2
  <2> HIDE DEF k
  <2>3. st[k] = t[i]
    BY <1>1, <2>2
  <2> QED
    BY <1>3, <2>1, <2>2, <2>3
<1>6. ASSUME NEW x \in ToSet(st) PROVE x \in ToSet(s) \cup ToSet(t)
  <2>1. PICK i \in 1..Len(st) : x = st[i]
    BY <1>3
  <2>2. CASE i <= Len(s)
    <3>1. i \in 1..Len(s) /\ st[i] = s[i]
      BY <1>1, <1>2, <2>2
    <3> QED
      BY <1>3, <2>1, <3>1
  <2>3. CASE ~(i <= Len(s))
    <3>1. i - Len(s) \in 1..Len(t) /\ st[i] = t[i - Len(s)]
      BY <1>1, <1>2, <2>3
    <3> QED
      BY <1>3, <2>1, <3>1
  <2> QED
    BY <2>2, <2>3
<1> QED
  BY <1>4, <1>5, <1>6 DEF st

LEMMA SetOfOne ==
  ASSUME NEW x, NEW y
  PROVE  /\ ToSet(<<>>) = {} /\ ToSet(<<x>>) = {x} /\ ToSet(<<x, y>>) = {x, y}
<1>1. DOMAIN <<x>> = {1} /\ <<x>>[1] = x
  OBVIOUS
<1>2. DOMAIN <<x, y>> = {1, 2} /\ <<x, y>>[1] = x /\ <<x, y>>[2] = y
  OBVIOUS
<1>3. DOMAIN <<>> = {}
  OBVIOUS
<1> QED
  BY <1>1, <1>2, <1>3 DEF ToSet

\* Adds(t, s, x): t has the items of s and x.
LEMMA SetOfAppend ==
  ASSUME NEW A, NEW s \in Seq(A), NEW x \in A
  PROVE  ToSet(Append(s, x)) = ToSet(s) \cup {x}
<1> DEFINE one == <<x>>
<1>1. one \in Seq(A) /\ Append(s, x) = s \o one /\ ToSet(one) = {x}
  <2>1. ToSet(one) = {x}
    BY SetOfOne
  <2>2. one \in Seq(A)
    OBVIOUS
  <2>3. Append(s, x) = s \o one
    BY AppendIsConcat
  <2> QED
    BY <2>1, <2>2, <2>3, Zenon
<1> HIDE DEF one
<1>2. ToSet(s \o one) = ToSet(s) \cup ToSet(one)
  BY <1>1, SetOfJoin
<1> QED
  BY <1>1, <1>2, Zenon

LEMMA SetOfRest ==
  ASSUME NEW ms \in Seq(Items)
  PROVE  /\ ToSet(DropReply(ms)) \subseteq ToSet(ms)
         /\ ms # <<>> => ToSet(Front(ms)) \subseteq ToSet(ms)
         /\ \A x : ToSet(RemoveFirst(ms, x)) \subseteq ToSet(ms)
<1>1. ASSUME ms # <<>> PROVE ToSet(Front(ms)) \subseteq ToSet(ms)
  <2>1. Front(ms) \in Seq(Items) /\ Len(Front(ms)) = Len(ms) - 1 /\ Len(ms) \in Nat
        /\ \A i \in 1..Len(ms) - 1 : Front(ms)[i] = ms[i]
    BY <1>1, DropReplyIs
  <2>2. ASSUME NEW x \in ToSet(Front(ms)) PROVE x \in ToSet(ms)
    <3>1. PICK i \in 1..Len(Front(ms)) : x = Front(ms)[i]
      BY <2>1, InSet
    <3>2. i \in 1..Len(ms) /\ x = ms[i]
      BY <2>1, <3>1
    <3> QED
      BY <3>2, InSet
  <2> QED
    BY <2>2
<1>2. ToSet(DropReply(ms)) \subseteq ToSet(ms)
  BY <1>1 DEF DropReply, EndsWithAssistant
<1>3. ASSUME NEW x PROVE ToSet(RemoveFirst(ms, x)) \subseteq ToSet(ms)
  <2> DEFINE q == RemoveFirst(ms, x)
  <2>1. q \in Seq(Items) /\ \A i \in 1..Len(q) : \E j \in 1..Len(ms) : q[i] = ms[j]
    BY RemoveFirstIs
  <2> HIDE DEF q
  <2>2. ASSUME NEW y \in ToSet(q) PROVE y \in ToSet(ms)
    <3>1. PICK i \in 1..Len(q) : y = q[i]
      BY <2>1, InSet
    <3>2. PICK j \in 1..Len(ms) : q[i] = ms[j]
      BY <2>1
    <3> QED
      BY <3>1, <3>2, InSet
  <2> QED
    BY <2>2 DEF q
<1> QED
  BY <1>1, <1>2, <1>3

LEMMA SetOfSub ==
  ASSUME NEW A, NEW s \in Seq(A), NEW m \in 1..Len(s) + 1, NEW n \in 0..Len(s)
  PROVE  SubSeq(s, m, n) \in Seq(A) /\ ToSet(SubSeq(s, m, n)) \subseteq ToSet(s)
<1> DEFINE q == SubSeq(s, m, n)
<1>1. q \in Seq(A) /\ \A i \in 1..Len(q) : q[i] = s[m + i - 1] /\ m + i - 1 \in 1..Len(s)
  OBVIOUS
<1> HIDE DEF q
<1>2. ASSUME NEW x \in ToSet(q) PROVE x \in ToSet(s)
  <2>1. PICK i \in 1..Len(q) : x = q[i]
    BY <1>1, InSet
  <2>2. m + i - 1 \in 1..Len(s) /\ x = s[m + i - 1]
    BY <1>1, <2>1
  <2> QED
    BY <2>2, InSet
<1> QED
  BY <1>1, <1>2 DEF q

\* What is kept before the summary are messages of the file.
LEMMA KeptBeforeFrom ==
  ASSUME NEW es \in Seq(Items)
  PROVE  \/ KeptBefore(es) = <<>>
         \/ \E from \in Seq(Items) : /\ ToSet(from) \subseteq ToSet(es)
                                     /\ KeptBefore(es) = Only(from, ItemsOf(Kinds \ SummaryKinds))
<1> DEFINE i == LatestSummary(es)
           before == SubSeq(es, 1, i - 1)
           kept == {k \in DOMAIN before : before[k].n = es[i].first}
           from == SubSeq(before, CHOOSE k \in kept : TRUE, i - 1)
<1>1. i \in 0..Len(es) /\ Len(es) \in Nat
  BY LatestSummaryIs
<1>2. CASE kept = {}
  BY <1>2 DEF KeptBefore
<1>3. CASE kept # {}
  <2>1. i # 0
    <3>1. ASSUME i = 0 PROVE kept = {}
      <4>1. SubSeq(es, 1, 0 - 1) = <<>>
        BY <1>1
      <4> QED
        BY <3>1, <4>1
    <3> QED
      BY <1>3, <3>1
  <2>2. before \in Seq(Items) /\ Len(before) = i - 1 /\ ToSet(before) \subseteq ToSet(es)
    <3>1. 1 \in 1..Len(es) + 1 /\ i - 1 \in 0..Len(es)
      BY <1>1, <2>1
    <3>2. before \in Seq(Items) /\ ToSet(before) \subseteq ToSet(es)
      BY <3>1, SetOfSub
    <3>3. Len(before) = i - 1
      BY <1>1, <2>1
    <3> QED
      BY <3>2, <3>3
  <2>3. (CHOOSE k \in kept : TRUE) \in 1..i - 1
    BY <1>3, <2>2
  <2>4. KeptBefore(es) = Only(from, ItemsOf(Kinds \ SummaryKinds))
    BY <1>3 DEF KeptBefore
  <2> DEFINE m == CHOOSE k \in kept : TRUE
             l == i - 1
  <2>a. from = SubSeq(before, m, l)
    OBVIOUS
  <2>b. m \in 1..i - 1 /\ l = i - 1
    BY <2>3
  <2>5. m \in 1..Len(before) + 1 /\ l \in 0..Len(before)
    <3> HIDE DEF m, l, before, i
    <3> QED
      BY <1>1, <2>1, <2>2, <2>b
  <2> HIDE DEF m, l, before, from
  <2>6. from \in Seq(Items) /\ ToSet(from) \subseteq ToSet(before)
    BY <2>2, <2>5, <2>a, SetOfSub
  <2> QED
    BY <2>2, <2>4, <2>6
<1> QED
  BY <1>2, <1>3

LEMMA SetOfOnly ==
  ASSUME NEW A, NEW s \in Seq(A), NEW S
  PROVE  ToSet(Only(s, S)) \subseteq ToSet(s) \cap S
<1> DEFINE q == Only(s, S)
<1>1. q \in Seq(A) /\ \A j \in 1..Len(q) : q[j] \in S /\ \E k \in 1..Len(s) : q[j] = s[k]
  BY OnlyType, OnlyFrom
<1> HIDE DEF q
<1>2. ASSUME NEW x \in ToSet(q) PROVE x \in ToSet(s) \cap S
  <2>1. PICK j \in 1..Len(q) : x = q[j]
    BY <1>1, InSet
  <2>2. PICK k \in 1..Len(s) : q[j] = s[k]
    BY <1>1
  <2> QED
    BY <1>1, <2>1, <2>2, InSet
<1> QED
  BY <1>2 DEF q

\* The context of a file has nothing that is not in the file.
LEMMA SetOfContext ==
  ASSUME NEW es \in Seq(Items)
  PROVE  ToSet(BuildContext(es)) \subseteq ToSet(es)
<1> DEFINE i == LatestSummary(es)
           after == SubSeq(es, i + 1, Len(es))
           keep == KeptBefore(es)
           one == <<es[i]>>
<1>1. i \in 0..Len(es) /\ Len(es) \in Nat
  BY LatestSummaryIs
<1>2. CASE i = 0
  BY <1>2, BuildContextIs
<1>3. CASE i # 0
  <2>1. i + 1 \in 1..Len(es) + 1 /\ Len(es) \in 0..Len(es) /\ i \in 1..Len(es)
    BY <1>1, <1>3
  <2>2. after \in Seq(Items) /\ ToSet(after) \subseteq ToSet(es)
    BY <2>1, SetOfSub
  <2>3. one \in Seq(Items) /\ ToSet(one) \subseteq ToSet(es)
    <3>1. es[i] \in Items /\ es[i] \in ToSet(es)
      BY <2>1, InSet
    <3>2. ToSet(one) = {es[i]}
      BY SetOfOne
    <3> QED
      BY <3>1, <3>2
  <2>4. keep \in Seq(Items) /\ ToSet(keep) \subseteq ToSet(es)
    <3>1. ASSUME keep = <<>> PROVE ToSet(keep) \subseteq ToSet(es)
      BY <3>1, SetOfOne
    <3>2. ASSUME NEW from \in Seq(Items), ToSet(from) \subseteq ToSet(es),
                 keep = Only(from, ItemsOf(Kinds \ SummaryKinds))
          PROVE  ToSet(keep) \subseteq ToSet(es)
      BY <3>2, SetOfOnly
    <3>3. ToSet(keep) \subseteq ToSet(es)
      <4> HIDE DEF keep
      <4>1. keep = <<>> \/ \E from \in Seq(Items) : ToSet(from) \subseteq ToSet(es)
              /\ keep = Only(from, ItemsOf(Kinds \ SummaryKinds))
        BY KeptBeforeFrom DEF keep
      <4> QED
        BY <3>1, <3>2, <4>1
    <3>4. keep \in Seq(Items)
      BY BuildContextIs
    <3> HIDE DEF keep
    <3> QED
      BY <3>3, <3>4
  <2>5. BuildContext(es) = one \o keep \o after
    BY <1>3, BuildContextIs
  <2> HIDE DEF one, keep, after
  <2> DEFINE two == one \o keep
  <2>6. two \in Seq(Items) /\ ToSet(two) = ToSet(one) \cup ToSet(keep)
    BY <2>3, <2>4, SetOfJoin
  <2>7. BuildContext(es) = two \o after
    BY <2>5
  <2> HIDE DEF two
  <2>8. ToSet(two \o after) = ToSet(two) \cup ToSet(after)
    BY <2>2, <2>6, SetOfJoin
  <2> QED
    BY <2>2, <2>3, <2>4, <2>6, <2>7, <2>8
<1> QED
  BY <1>2, <1>3

-----------------------------------------------------------------------------
(* Where the items of a step come from *)

\* Items that are made in a step, or were made before and are now sent.
Recent(kinds) == {x \in ItemsOf(kinds) : x.n <= clock'}

QueuedFrom == ToSet(queued') \subseteq ToSet(queued) \cup Recent({"user"})
ShownFrom == ToSet(shown') \subseteq ToSet(shown) \cup Recent({"user"})
BashFrom == ToSet(pendingBash') \subseteq ToSet(pendingBash) \cup Recent({"bash"})
EventsFrom ==
  ToSet(Pend(events')) \subseteq ToSet(Pend(events)) \cup ToSet(queued)
                                   \cup Recent(Kinds \ SummaryKinds)
MessagesFrom ==
  ToSet(messages') \subseteq ToSet(messages) \cup ToSet(queued) \cup ToSet(pendingBash)
                               \cup ToSet(files'[current']) \cup Recent(Kinds)
Written(more) ==
  /\ more \in Seq(Items)
  /\ ToSet(more) \subseteq ToSet(Pend(events)) \cup ToSet(pendingBash) \cup Recent(Kinds)
  /\ \/ \A x \in ToSet(more) : x.kind \notin SummaryKinds
     \/ \E x \in Items : x.n = clock + 1 /\ more = <<x>>
FilesFrom ==
  \/ files' = files /\ (current' = current \/ SwitchSession)
  \/ NewSession
  \/ \E more : /\ Written(more) /\ current' = current
               /\ files' = [files EXCEPT ![current] = entries \o more]
\* Messages of the user and bash results wait, and no summary is an event.
Sorts ==
  /\ \A x \in ToSet(queued) : x.kind = "user"
  /\ \A x \in ToSet(pendingBash) : x.kind = "bash"
  /\ \A x \in ToSet(Pend(events)) : x.kind \notin SummaryKinds

Sources == QueuedFrom /\ ShownFrom /\ BashFrom /\ EventsFrom /\ MessagesFrom /\ FilesFrom

LEMMA RecentIs ==
  ASSUME TypeOK, Time
  PROVE  /\ clock' >= clock + 1 => \A kind \in Kinds : Item(kind) \in Recent({kind})
         /\ \A more : UserItems(more) => ToSet(more) \subseteq Recent({"user"}) /\ more \in Seq(Items)
         /\ \A user : UserItem(user) => user \in Recent({"user"})
<1>1. current \in Nat /\ clock \in Nat /\ clock' \in Nat
  BY EntriesType DEF TypeOK, Time
<1>2. ASSUME NEW user, UserItem(user) PROVE user \in Recent({"user"})
  BY <1>2 DEF UserItem, Recent
<1>3. ASSUME NEW more, UserItems(more) PROVE ToSet(more) \subseteq Recent({"user"}) /\ more \in Seq(Items)
  <2>1. more \in Seq(Items)
    BY <1>3, UserItemsAre
  <2>2. ASSUME NEW x \in ToSet(more) PROVE x \in Recent({"user"})
    <3>1. PICK i \in 1..Len(more) : x = more[i]
      BY <2>1, InSet
    <3> QED
      BY <1>2, <1>3, <3>1 DEF UserItems
  <2> QED
    BY <2>1, <2>2
<1>4. ASSUME clock' >= clock + 1, NEW kind \in Kinds PROVE Item(kind) \in Recent({kind})
  <2>1. Item(kind) \in ItemsOf({kind})
    BY ItemIs
  <2>2. Item(kind).n = clock + 1
    BY DEF Item
  <2> QED
    BY <1>1, <1>4, <2>1, <2>2 DEF Recent
<1> QED
  BY <1>2, <1>3, <1>4

LEMMA RecentOf ==
  ASSUME NEW a \in SUBSET Kinds, NEW b \in SUBSET Kinds, a \subseteq b
  PROVE  /\ Recent(a) \subseteq Recent(b) /\ Recent(a) \subseteq Items
         /\ \A x \in Recent(a) : x.kind \in a /\ x.n <= clock'
  BY DEF Recent, Items, ItemsOf

\* A step that leaves alone the lists.
LEMMA SameSources ==
  /\ queued' = queued => QueuedFrom
  /\ shown' = shown => ShownFrom
  /\ pendingBash' = pendingBash => BashFrom
  /\ events' = events => EventsFrom
  /\ messages' = messages => MessagesFrom
  /\ UNCHANGED <<files, current>> => FilesFrom
  BY DEF QueuedFrom, ShownFrom, BashFrom, EventsFrom, MessagesFrom, FilesFrom

\* The file gets another entry, and the context is what the file gives back.
LEMMA EntriesGrow ==
  ASSUME TypeOK, NEW item \in Items, files' = AppendEntry(item), current' = current,
         \/ item \in ToSet(Pend(events)) /\ item.kind \notin SummaryKinds
         \/ item \in Recent(Kinds) /\ (item.kind \notin SummaryKinds \/ item.n = clock + 1)
  PROVE  FilesFrom /\ files'[current'] \in Seq(Items)
<1> DEFINE more == <<item>>
           es == entries
<1>1. es \in Seq(Items) /\ more \in Seq(Items)
  BY EntriesType
<1>2. ToSet(more) = {item}
  BY SetOfOne
<1>3. Append(es, item) = es \o more
  <2> HIDE DEF es
  <2> QED
    BY <1>1
<1>4. files' = [files EXCEPT ![current] = es \o more]
  BY <1>3, EntryAppended
<1>5. Written(more)
  BY <1>1, <1>2 DEF Written
<1>6. es \o more \in Seq(Items)
  <2> HIDE DEF es, more
  <2> QED
    BY <1>1
<1>7. files'[current'] = es \o more
  BY <1>4, <1>6, FileReplaced
<1> HIDE DEF more
<1> QED
  BY <1>4, <1>5, <1>6, <1>7 DEF FilesFrom

LEMMA SetOfRebuilt ==
  ASSUME NEW es \in Seq(Items), NEW c
  PROVE  ToSet(Rebuilt(c, es)) \subseteq ToSet(es)
<1> DEFINE context == BuildContext(es)
<1>1. context \in Seq(Items) /\ ToSet(context) \subseteq ToSet(es)
  BY BuildContextIs, SetOfContext
<1>2. Rebuilt(c, es) = context \/ Rebuilt(c, es) = Front(context)
  BY DEF Rebuilt
<1> HIDE DEF context
<1>3. ToSet(Front(context)) \subseteq ToSet(context)
  <2>1. CASE context = <<>>
    <3>1. Front(context) = <<>>
      BY <2>1 DEF Front
    <3> QED
      BY <2>1, <3>1
  <2>2. CASE context # <<>>
    BY <1>1, <2>2, SetOfRest
  <2> QED
    BY <2>1, <2>2
<1> QED
  BY <1>1, <1>2, <1>3

LEMMA CompactsSources ==
  ASSUME TypeOK, Time, NEW w \in Workers, Compacts(w)
  PROVE  Sources
<1> USE DEF agentVars, retryVars, compactVars, viewVars, fileVars, handlerVars
<1>1. CASE PrepareCompaction(w) \/ StopCompaction(w)
  <2>1. UNCHANGED <<queued, shown, pendingBash, events, messages, files, current>>
    BY <1>1 DEF PrepareCompaction, StopCompaction
  <2> QED
    BY <2>1, SameSources DEF Sources
<1>2. ASSUME NEW waiting \in BOOLEAN, FinishCompactionWith(w, waiting) PROVE Sources
  <2> DEFINE item == Summary(compaction[w])
             es == files'[current']
  <2>1. UNCHANGED <<queued, shown, pendingBash, events, current>> /\ clock' = clock + 1
        /\ files' = AppendEntry(item) /\ messages' = Rebuilt(compaction[w], files'[current])
    BY <1>2 DEF FinishCompactionWith
  <2>2. item \in Items /\ item.n = clock + 1
    BY SummaryIs
  <2>3. item \in Recent(Kinds)
    <3>1. clock \in Nat
      BY DEF TypeOK
    <3> QED
      BY <2>1, <2>2, <3>1 DEF Recent, Items
  <2> HIDE DEF item
  <2>4. FilesFrom /\ es \in Seq(Items)
    BY <2>1, <2>2, <2>3, EntriesGrow
  <2>5. messages' = Rebuilt(compaction[w], es)
    BY <2>1
  <2> HIDE DEF es
  <2>6. ToSet(messages') \subseteq ToSet(es)
    BY <2>4, <2>5, SetOfRebuilt
  <2>7. MessagesFrom
    BY <2>6 DEF MessagesFrom, es
  <2> QED
    BY <2>1, <2>4, <2>7, SameSources DEF Sources
<1> QED
  BY <1>1, <1>2 DEF Compacts

LEMMA UserSources ==
  ASSUME TypeOK, Time,
         \/ AbortCompactions \/ QueueMessage(Item("user")) \/ Steers \/ Replaces \/ Clears
         \/ Stops \/ Idles
  PROVE  Sources
<1> USE DEF agentVars, retryVars, compactVars, viewVars, fileVars, handlerVars, RestVars
<1>1. CASE AbortCompactions \/ Stops \/ Idles
  <2>1. UNCHANGED <<queued, shown, pendingBash, events, messages, files, current>>
    BY <1>1 DEF AbortCompactions, Stops, Idles
  <2> QED
    BY <2>1, SameSources DEF Sources
<1>2. ASSUME UNCHANGED <<pendingBash, events, messages, files, current>>, QueuedFrom, ShownFrom
      PROVE  Sources
  BY <1>2, SameSources DEF Sources
<1>3. CASE QueueMessage(Item("user"))
  <2> DEFINE item == Item("user")
  <2>1. UNCHANGED <<pendingBash, events, messages, files, current>> /\ clock' = clock + 1
        /\ queued' = Append(queued, item) /\ shown' = Append(shown, item)
    BY <1>3 DEF QueueMessage
  <2>2. item \in Recent({"user"}) /\ item \in Items
    <3>1. clock' >= clock + 1
      BY <2>1 DEF TypeOK
    <3> QED
      BY <3>1, RecentIs, ItemIs DEF Kinds
  <2> HIDE DEF item
  <2>3. ToSet(queued') = ToSet(queued) \cup {item} /\ ToSet(shown') = ToSet(shown) \cup {item}
    <3>1. queued \in Seq(Items) /\ shown \in Seq(Items)
      BY DEF TypeOK
    <3> QED
      BY <2>1, <2>2, <3>1, SetOfAppend
  <2>4. QueuedFrom /\ ShownFrom
    BY <2>2, <2>3 DEF QueuedFrom, ShownFrom
  <2> QED
    BY <1>2, <2>1, <2>4
<1>4. CASE Steers
  <2>1. UNCHANGED <<pendingBash, events, messages, files, current>>
    BY <1>4 DEF Steers
  <2>2. PICK more : UserItems(more) /\ queued' = queued \o more /\ shown' = shown \o more
    BY <1>4 DEF Steers
  <2>3. ToSet(more) \subseteq Recent({"user"}) /\ more \in Seq(Items)
    BY <2>2, RecentIs
  <2>4. ToSet(queued') = ToSet(queued) \cup ToSet(more) /\ ToSet(shown') = ToSet(shown) \cup ToSet(more)
    <3>1. queued \in Seq(Items) /\ shown \in Seq(Items)
      BY DEF TypeOK
    <3> QED
      BY <2>2, <2>3, <3>1, SetOfJoin
  <2>5. QueuedFrom /\ ShownFrom
    BY <2>3, <2>4 DEF QueuedFrom, ShownFrom
  <2> QED
    BY <1>2, <2>1, <2>5
<1>5. CASE Replaces
  <2>1. UNCHANGED <<pendingBash, events, messages, files, current>>
    BY <1>5 DEF Replaces
  <2>2. PICK more : UserItems(more) /\ queued' = more /\ shown' = more
    BY <1>5 DEF Replaces
  <2>3. ToSet(more) \subseteq Recent({"user"})
    BY <2>2, RecentIs
  <2>4. QueuedFrom /\ ShownFrom
    BY <2>2, <2>3 DEF QueuedFrom, ShownFrom
  <2> QED
    BY <1>2, <2>1, <2>4
<1>6. CASE Clears
  <2>1. UNCHANGED <<pendingBash, events, messages, files, current>> /\ queued' = <<>> /\ shown' = <<>>
    BY <1>6 DEF Clears
  <2>2. QueuedFrom /\ ShownFrom
    BY <2>1, SetOfOne DEF QueuedFrom, ShownFrom
  <2> QED
    BY <1>2, <2>1, <2>2
<1> QED
  BY <1>1, <1>3, <1>4, <1>5, <1>6

LEMMA RunConnected ==
  ASSUME TypeOK, Phases, Calm, RunGoesOn \/ RunBegins
  PROVE  connected
<1>1. CASE RunGoesOn
  <2>1. streaming
    BY <1>1 DEF RunGoesOn, ReplyAndGoOn, ReplyAndDeliver, LastReply
  <2> QED
    BY <2>1 DEF Calm, Phases, Listens
<1>2. CASE Continue
  <2>1. timers > 0 /\ timers \in Nat
    BY <1>2 DEF Continue, TypeOK
  <2>2. admin = "none"
    BY <2>1 DEF Calm
  <2> QED
    BY <2>2 DEF Phases, Listens
<1>3. CASE \E c \in Callers : StartsPrompt(c)
  <2>1. PICK c \in Callers : pc[c] = "starting"
    BY <1>3 DEF StartsPrompt, PromptStartWith
  <2>2. admin = "none"
    BY <2>1 DEF Calm, Busy
  <2> QED
    BY <2>2 DEF Phases, Listens
<1> QED
  BY <1>1, <1>2, <1>3 DEF RunBegins

\* What a run says comes from the queue or is new.
LEMMA EmitsSources ==
  ASSUME TypeOK, NEW items, Emits(items),
         ToSet(items) \subseteq ToSet(queued) \cup Recent(Kinds \ SummaryKinds)
  PROVE  /\ items \in Seq(Items) /\ Pend(events') = Pend(events) \o items
         /\ EventsFrom /\ MessagesFrom
<1>1. PICK new : NewEvents(new, items) /\ events' = events \o new
  BY DEF Emits
<1>2. new \in Seq(Events) /\ items \in Seq(Items) /\ Pend(new) = items
  BY <1>1 DEF NewEvents
<1>3. events \in Seq(Events) /\ messages \in Seq(Items)
  BY DEF TypeOK, Events, EventTypes
<1>4. Pend(events \o new) = Pend(events) \o Pend(new) /\ Pend(events) \in Seq(Items)
  BY <1>2, <1>3, PendJoin DEF Joins
<1>5. Pend(events') = Pend(events) \o items
  BY <1>1, <1>2, <1>4, Zenon
<1>6. messages' = messages \o items
  BY DEF Emits
<1>7. ToSet(Pend(events')) = ToSet(Pend(events)) \cup ToSet(items)
  BY <1>2, <1>4, <1>5, SetOfJoin
<1>8. ToSet(messages') = ToSet(messages) \cup ToSet(items)
  BY <1>2, <1>3, <1>6, SetOfJoin
<1>9. Recent(Kinds \ SummaryKinds) \subseteq Recent(Kinds)
  BY RecentOf
<1> QED
  BY <1>2, <1>5, <1>7, <1>8, <1>9 DEF EventsFrom, MessagesFrom

LEMMA CallerSources ==
  ASSUME TypeOK, Sorts, Time, Phases, Calm, NEW c \in Callers,
         BeginsPrompt(c) \/ PromptCheck(c) \/ StartsPrompt(c) \/ GivesUpPrompt(c)
  PROVE  Sources
<1> USE DEF agentVars, retryVars, compactVars, viewVars, fileVars, handlerVars
<1>a. messages \in Seq(Items) /\ queued \in Seq(Items) /\ shown \in Seq(Items)
      /\ pendingBash \in Seq(Items) /\ events \in Seq(Events)
  BY DEF TypeOK, Events, EventTypes
<1>1. CASE BeginsPrompt(c)
  <2>1. PICK more : UserItems(more) /\ PromptBeginWith(c, more)
    BY <1>1 DEF BeginsPrompt
  <2>2. /\ messages' = messages \o pendingBash /\ pendingBash' = <<>>
        /\ queued' = queued \o more /\ shown' = shown \o more
        /\ files' = [files EXCEPT ![current] = entries \o pendingBash]
        /\ UNCHANGED <<events, current>>
    BY <2>1 DEF PromptBeginWith, entries
  <2>3. ToSet(more) \subseteq Recent({"user"}) /\ more \in Seq(Items)
    BY <2>1, RecentIs
  <2>4. ToSet(queued') = ToSet(queued) \cup ToSet(more) /\ ToSet(shown') = ToSet(shown) \cup ToSet(more)
        /\ ToSet(messages') = ToSet(messages) \cup ToSet(pendingBash)
    BY <1>a, <2>2, <2>3, SetOfJoin
  <2>5. Written(pendingBash)
    BY <1>a DEF Written, Sorts, SummaryKinds
  <2>6. QueuedFrom /\ ShownFrom /\ MessagesFrom
    BY <2>3, <2>4 DEF QueuedFrom, ShownFrom, MessagesFrom
  <2>7. BashFrom
    BY <2>2, SetOfOne DEF BashFrom
  <2>8. FilesFrom
    BY <2>2, <2>5 DEF FilesFrom
  <2> QED
    BY <2>2, <2>6, <2>7, <2>8, SameSources DEF Sources
<1>2. CASE PromptCheck(c)
  <2>1. UNCHANGED <<queued, shown, pendingBash, events, files, current>>
        /\ (messages' = messages \/ messages' = DropReply(messages))
    BY <1>2 DEF PromptCheck, BeginCompaction
  <2>2. MessagesFrom
    BY <1>a, <2>1, SetOfRest DEF MessagesFrom
  <2> QED
    BY <2>1, <2>2, SameSources DEF Sources
<1>3. CASE StartsPrompt(c)
  <2>1. PICK user : UserItem(user) /\ PromptStartWith(c, user)
    BY <1>3 DEF StartsPrompt
  <2>2. user \in Recent({"user"}) /\ user \in Items
    BY <2>1, RecentIs, RecentOf DEF Kinds
  <2>3. UNCHANGED <<queued, shown, pendingBash, files, current>>
    BY <2>1 DEF PromptStartWith
  <2>4. user \in Recent(Kinds \ SummaryKinds)
    BY <2>2, RecentOf DEF Kinds, SummaryKinds
  <2>5. Emits(<<user>>)
    BY <1>3, <2>1, <2>2, RunConnected, RunEmits DEF RunBegins
  <2>6. EventsFrom /\ MessagesFrom
    <3>1. ToSet(<<user>>) = {user}
      BY SetOfOne
    <3> QED
      BY <2>4, <2>5, <3>1, EmitsSources
  <2> QED
    BY <2>3, <2>6, SameSources DEF Sources
<1>4. CASE GivesUpPrompt(c)
  <2>1. UNCHANGED <<pendingBash, events, messages, files, current>>
        /\ ((queued' = queued /\ shown' = shown) \/ (queued' = <<>> /\ shown' = <<>>))
    BY <1>4 DEF GivesUpPrompt, PromptThrows
  <2>2. QueuedFrom /\ ShownFrom
    BY <2>1, SetOfOne DEF QueuedFrom, ShownFrom
  <2> QED
    BY <2>1, <2>2, SameSources DEF Sources
<1> QED
  BY <1>1, <1>2, <1>3, <1>4

LEMMA RunSources ==
  ASSUME TypeOK, Time, Sorts, Phases, Calm,
         \/ ReplyAndGoOn \/ ReplyAndDeliver \/ EndRun \/ \E kind \in AssistantKinds : LastReply(kind)
         \/ ContinueSwallowed \/ Continue
  PROVE  Sources
<1> USE DEF agentVars, retryVars, compactVars, viewVars, fileVars, handlerVars, RunVars, ReplyVars
<1>a. messages \in Seq(Items) /\ queued \in Seq(Items) /\ clock \in Nat /\ events \in Seq(Events)
  BY DEF TypeOK, Events, EventTypes
<1>b. RunGoesOn \/ RunBegins => connected
  BY RunConnected
<1>c. ASSUME clock' >= clock + 1
      PROVE  \A kind \in AssistantKinds : Item(kind) \in Recent(Kinds \ SummaryKinds)
  <2>1. \A kind \in AssistantKinds : kind \in Kinds \ SummaryKinds
    BY DEF Kinds, SummaryKinds, AssistantKinds, FailureKinds
  <2>2. \A kind \in AssistantKinds : Recent({kind}) \subseteq Recent(Kinds \ SummaryKinds)
    BY <2>1, RecentOf
  <2> QED
    BY <1>c, <2>1, <2>2, RecentIs
<1>d. "ok" \in AssistantKinds
  BY DEF AssistantKinds
<1>1. CASE ReplyAndGoOn
  <2>1. UNCHANGED <<queued, shown, pendingBash, files, current>> /\ clock' = clock + 2
    BY <1>1 DEF ReplyAndGoOn
  <2>2. PICK result \in Items : /\ result.kind = "result" /\ result.n = clock + 2
                                /\ Emits(<<Item("ok"), result>>)
    BY <1>1, <1>b, RunEmits DEF RunGoesOn
  <2>3. result \in Recent(Kinds \ SummaryKinds)
    <3>1. result.kind \in Kinds \ SummaryKinds
      BY <2>2 DEF Kinds, SummaryKinds
    <3> QED
      BY <1>a, <2>1, <2>2, <3>1 DEF Recent, Items, ItemsOf
  <2>a. clock' >= clock + 1
    BY <1>a, <2>1
  <2>4. Item("ok") \in Recent(Kinds \ SummaryKinds)
    BY <1>c, <1>d, <2>a
  <2> DEFINE items == <<Item("ok"), result>>
  <2>5. ToSet(items) \subseteq Recent(Kinds \ SummaryKinds)
    <3>1. ToSet(items) = {Item("ok"), result}
      BY SetOfOne
    <3> QED
      BY <2>3, <2>4, <3>1
  <2> HIDE DEF items
  <2>6. EventsFrom /\ MessagesFrom
    <3>1. Emits(items)
      BY <2>2 DEF items
    <3> QED
      BY <2>5, <3>1, EmitsSources
  <2> QED
    BY <2>1, <2>6, SameSources DEF Sources
<1>2. CASE ReplyAndDeliver
  <2>1. UNCHANGED <<shown, pendingBash, files, current>> /\ clock' = clock + 1
        /\ queued # <<>> /\ queued' = Tail(queued)
    BY <1>2 DEF ReplyAndDeliver
  <2>2. Emits(<<Item("ok"), Head(queued)>>)
    BY <1>2, <1>b, RunEmits DEF RunGoesOn
  <2>a. clock' >= clock + 1
    BY <1>a, <2>1
  <2>3. Item("ok") \in Recent(Kinds \ SummaryKinds)
    BY <1>c, <1>d, <2>a
  <2>4. Head(queued) \in ToSet(queued) /\ ToSet(queued') \subseteq ToSet(queued)
    BY <1>a, <2>1, InSet
  <2> DEFINE items == <<Item("ok"), Head(queued)>>
  <2>5. ToSet(items) \subseteq ToSet(queued) \cup Recent(Kinds \ SummaryKinds)
    <3>1. ToSet(items) = {Item("ok"), Head(queued)}
      BY SetOfOne
    <3> QED
      BY <2>3, <2>4, <3>1
  <2> HIDE DEF items
  <2>6. EventsFrom /\ MessagesFrom
    <3>1. Emits(items)
      BY <2>2 DEF items
    <3> QED
      BY <2>5, <3>1, EmitsSources
  <2> QED
    BY <2>1, <2>4, <2>6, SameSources DEF Sources, QueuedFrom
<1>3. CASE EndRun
  <2>1. UNCHANGED <<queued, shown, pendingBash, messages, files, current>>
        /\ events' = Emitted(<<Event("agent_end", NoItem)>>)
    BY <1>3 DEF EndRun
  <2>2. Pend(events') = Pend(events)
    <3> DEFINE e == Event("agent_end", NoItem)
    <3>1. e \in Events /\ e.type # "message"
      BY EventIs, NoItemIs DEF Events, EventTypes, Event
    <3>2. events' = events \/ events' = events \o <<e>>
      BY <2>1 DEF Emitted
    <3> HIDE DEF e
    <3>3. Pend(<<e>>) = <<>>
      BY <3>1, PendOne
    <3>4. Pend(events \o <<e>>) = Pend(events) \o <<>> /\ Pend(events) \in Seq(Items)
      <4>1. <<e>> \in Seq(Events)
        BY <3>1
      <4> QED
        BY <1>a, <3>3, <4>1, PendJoin DEF Joins
    <3>5. Pend(events) \o <<>> = Pend(events)
      BY <3>4
    <3> QED
      BY <3>2, <3>4, <3>5
  <2>3. EventsFrom
    BY <2>2 DEF EventsFrom
  <2> QED
    BY <2>1, <2>3, SameSources DEF Sources
<1>4. ASSUME NEW kind \in AssistantKinds, LastReply(kind) PROVE Sources
  <2>1. UNCHANGED <<queued, shown, pendingBash, files, current>> /\ clock' = clock + 1
    BY <1>4 DEF LastReply
  <2>2. Emits(<<Item(kind)>>)
    BY <1>4, <1>b, RunEmits DEF RunGoesOn
  <2>a. clock' >= clock + 1
    BY <1>a, <2>1
  <2>3. Item(kind) \in Recent(Kinds \ SummaryKinds)
    BY <1>c, <2>a
  <2> DEFINE items == <<Item(kind)>>
  <2>5. ToSet(items) \subseteq Recent(Kinds \ SummaryKinds)
    BY <2>3, SetOfOne
  <2> HIDE DEF items
  <2>6. EventsFrom /\ MessagesFrom
    <3>1. Emits(items)
      BY <2>2 DEF items
    <3> QED
      BY <2>5, <3>1, EmitsSources
  <2> QED
    BY <2>1, <2>6, SameSources DEF Sources
<1>5. CASE ContinueSwallowed
  <2>1. UNCHANGED <<queued, shown, pendingBash, events, messages, files, current>>
    BY <1>5 DEF ContinueSwallowed
  <2> QED
    BY <2>1, SameSources DEF Sources
<1>6. CASE Continue
  <2>1. UNCHANGED <<shown, pendingBash, files, current>>
    BY <1>6 DEF Continue
  <2>2. CASE EndsWithAssistant(messages)
    <3>1. queued # <<>> /\ Emits(<<Head(queued)>>)
      BY <1>6, <1>b, <2>2, RunEmits DEF RunBegins
    <3>2. queued' = Tail(queued)
      BY <1>6, <2>2 DEF Continue
    <3>3. Head(queued) \in ToSet(queued) /\ ToSet(queued') \subseteq ToSet(queued)
      BY <1>a, <3>1, <3>2, InSet
    <3>4. ToSet(<<Head(queued)>>) \subseteq ToSet(queued)
      <4>1. ToSet(<<Head(queued)>>) = {Head(queued)}
        BY SetOfOne
      <4> QED
        BY <3>3, <4>1
    <3>5. EventsFrom /\ MessagesFrom
      BY <3>1, <3>4, EmitsSources
    <3> QED
      BY <2>1, <3>3, <3>5, SameSources DEF Sources, QueuedFrom
  <2>3. CASE ~EndsWithAssistant(messages)
    <3>1. Emits(<<>>)
      BY <1>6, <1>b, <2>3, RunEmits DEF RunBegins
    <3>2. queued' = queued
      BY <1>6, <2>3 DEF Continue
    <3>3. ToSet(<<>>) = {}
      BY SetOfOne
    <3>5. EventsFrom /\ MessagesFrom
      BY <3>1, <3>3, EmitsSources
    <3> QED
      BY <2>1, <3>2, <3>5, SameSources DEF Sources
  <2> QED
    BY <2>2, <2>3
<1> QED
  BY <1>1, <1>2, <1>3, <1>4, <1>5, <1>6

\* The handler takes the first event.
LEMMA PendNext ==
  ASSUME TypeOK, HandleNext
  PROVE  /\ Pend(events') \in Seq(Items) /\ Head(events) \in Events
         /\ Head(events).type # "message" => Pend(events') = Pend(events)
         /\ Head(events).type = "message" =>
              /\ Pend(events) = <<Head(events).item>> \o Pend(events')
              /\ Head(events).item \in ToSet(Pend(events)) /\ Head(events).item \in Items
         /\ ToSet(Pend(events')) \subseteq ToSet(Pend(events))
<1>1. events \in Seq(Events) /\ events # <<>> /\ events' = Tail(events)
  BY DEF TypeOK, HandleNext, Events, EventTypes
<1> DEFINE e == Head(events)
           one == <<e>>
           rest == Tail(events)
<1>2. e \in Events /\ rest \in Seq(Events) /\ events = one \o rest
  BY <1>1, HeadFirst
<1>3. e.item \in Items /\ one \in Seq(Events)
  BY <1>2 DEF Events
<1>4. Pend(one) = IF e.type = "message" THEN <<e.item>> ELSE <<>>
  BY <1>2, PendOne
<1> HIDE DEF one, rest, e
<1>5. Pend(events) = Pend(one) \o Pend(rest) /\ Pend(rest) \in Seq(Items) /\ Pend(one) \in Seq(Items)
  BY <1>2, <1>3, PendJoin DEF Joins
<1>6. ToSet(Pend(events)) = ToSet(Pend(one)) \cup ToSet(Pend(rest))
  BY <1>5, SetOfJoin
<1>7. events' = rest
  BY <1>1 DEF rest
<1>8. CASE e.type = "message"
  <2>1. ToSet(Pend(one)) = {e.item}
    BY <1>4, <1>8, SetOfOne
  <2> QED
    BY <1>2, <1>3, <1>4, <1>5, <1>6, <1>7, <1>8, <2>1 DEF e
<1>9. CASE e.type # "message"
  <2>1. Pend(one) = <<>>
    BY <1>4, <1>9
  <2>2. <<>> \o Pend(rest) = Pend(rest)
    BY <1>5
  <2> QED
    BY <1>2, <1>5, <1>6, <1>7, <1>9, <2>1, <2>2 DEF e
<1> QED
  BY <1>8, <1>9

LEMMA HandlerSources ==
  ASSUME TypeOK, Time, Sorts,
         \/ HandleStart \/ HandleUser \/ HandleResult \/ HandleAssistant \/ HandleEndRetry
         \/ HandleEnd \/ SleepEnds
  PROVE  Sources
<1> USE DEF agentVars, retryVars, compactVars, viewVars, fileVars, handlerVars
<1>a. messages \in Seq(Items) /\ shown \in Seq(Items)
  BY DEF TypeOK
<1>b. HandleNext => EventsFrom
  BY PendNext DEF EventsFrom
<1>1. ASSUME HandleNext, Head(events).type = "message", files' = AppendEntry(Head(events).item),
             UNCHANGED <<messages, queued, pendingBash, current>>, ShownFrom
      PROVE  Sources
  <2>1. Head(events).item \in ToSet(Pend(events)) /\ Head(events).item \in Items
    BY <1>1, PendNext
  <2>2. FilesFrom
    BY <1>1, <2>1, EntriesGrow DEF Sorts
  <2> QED
    BY <1>1, <1>b, <2>2, SameSources DEF Sources
<1>2. ASSUME HandleNext, UNCHANGED <<queued, shown, pendingBash, files, current>>,
             messages' = messages \/ messages' = DropReply(messages)
      PROVE  Sources
  <2>1. MessagesFrom
    BY <1>a, <1>2, SetOfRest DEF MessagesFrom
  <2> QED
    BY <1>2, <1>b, <2>1, SameSources DEF Sources
<1>3. CASE HandleStart
  <2>1. HandleNext /\ UNCHANGED <<messages, queued, shown, pendingBash, files, current>>
    BY <1>3 DEF HandleStart
  <2> QED
    BY <1>2, <2>1
<1>4. CASE HandleUser
  <2>1. /\ HandleNext /\ Head(events).type = "message" /\ files' = AppendEntry(Head(events).item)
        /\ UNCHANGED <<messages, queued, pendingBash, current>>
        /\ shown' = RemoveFirst(shown, Head(events).item)
    BY <1>4 DEF HandleUser
  <2>2. ShownFrom
    BY <1>a, <2>1, SetOfRest DEF ShownFrom
  <2> QED
    BY <1>1, <2>1, <2>2
<1>5. CASE HandleResult \/ HandleAssistant
  <2>1. /\ HandleNext /\ Head(events).type = "message" /\ files' = AppendEntry(Head(events).item)
        /\ UNCHANGED <<messages, queued, pendingBash, current, shown>>
    BY <1>5 DEF HandleResult, HandleAssistant
  <2> QED
    BY <1>1, <2>1, SameSources
<1>6. CASE HandleEndRetry
  <2>1. /\ HandleNext /\ UNCHANGED <<queued, shown, pendingBash, files, current>>
        /\ (messages' = messages \/ messages' = DropReply(messages))
    BY <1>6 DEF HandleEndRetry
  <2> QED
    BY <1>2, <2>1
<1>7. CASE HandleEnd
  <2>1. /\ HandleNext /\ UNCHANGED <<queued, shown, pendingBash, files, current>>
        /\ (messages' = messages \/ messages' = DropReply(messages))
    BY <1>7 DEF HandleEnd, BeginCompaction
  <2> QED
    BY <1>2, <2>1
<1>8. CASE SleepEnds
  <2>1. UNCHANGED <<queued, shown, pendingBash, events, messages, files, current>>
    BY <1>8 DEF SleepEnds
  <2> QED
    BY <2>1, SameSources DEF Sources
<1> QED
  BY <1>3, <1>4, <1>5, <1>6, <1>7, <1>8

LEMMA AdminSources ==
  ASSUME TypeOK, Time,
         \/ RecordBash \/ \E operation \in {"new", "switch", "compact"} : AdminBegin(operation)
         \/ NewSession \/ SwitchSession \/ ManualCompact
  PROVE  Sources
<1> USE DEF agentVars, retryVars, compactVars, viewVars, fileVars, handlerVars
<1>a. messages \in Seq(Items) /\ pendingBash \in Seq(Items) /\ files \in Seq(Seq(Items)) /\ clock \in Nat
  BY DEF TypeOK
<1>1. CASE RecordBash
  <2> DEFINE item == Item("bash")
  <2>1. /\ UNCHANGED <<queued, shown, events, current>> /\ clock' = clock + 1
        /\ \/ UNCHANGED <<messages, files>> /\ pendingBash' = Append(pendingBash, item)
           \/ /\ UNCHANGED pendingBash /\ messages' = Append(messages, item)
              /\ files' = AppendEntry(item)
    BY <1>1 DEF RecordBash
  <2>2. clock' >= clock + 1
    BY <1>a, <2>1
  <2>3. item \in Recent({"bash"}) /\ item \in Items /\ item.kind = "bash"
    BY <2>2, RecentIs, ItemIs DEF Kinds, Item
  <2>4. item \in Recent(Kinds) /\ item.kind \notin SummaryKinds
    BY <2>3, RecentOf DEF Kinds, SummaryKinds
  <2> HIDE DEF item
  <2>5. CASE UNCHANGED <<messages, files>> /\ pendingBash' = Append(pendingBash, item)
    <3>1. ToSet(pendingBash') = ToSet(pendingBash) \cup {item}
      BY <1>a, <2>3, <2>5, SetOfAppend
    <3>2. BashFrom
      BY <2>3, <3>1 DEF BashFrom
    <3> QED
      BY <2>1, <2>5, <3>2, SameSources DEF Sources
  <2>6. CASE UNCHANGED pendingBash /\ messages' = Append(messages, item) /\ files' = AppendEntry(item)
    <3>1. ToSet(messages') = ToSet(messages) \cup {item}
      BY <1>a, <2>3, <2>6, SetOfAppend
    <3>2. MessagesFrom
      BY <2>4, <3>1 DEF MessagesFrom
    <3>3. FilesFrom
      BY <2>1, <2>3, <2>4, <2>6, EntriesGrow
    <3> QED
      BY <2>1, <2>6, <3>2, <3>3, SameSources DEF Sources
  <2> QED
    BY <2>1, <2>5, <2>6
<1>2. CASE ManualCompact \/ \E operation \in {"new", "switch", "compact"} : AdminBegin(operation)
  <2>1. UNCHANGED <<queued, shown, pendingBash, events, messages, files, current>>
    BY <1>2 DEF ManualCompact, AdminBegin
  <2> QED
    BY <2>1, SameSources DEF Sources
<1>3. CASE NewSession
  <2>1. /\ messages' = <<>> /\ queued' = <<>> /\ shown' = <<>> /\ UNCHANGED <<pendingBash, events>>
    BY <1>3 DEF NewSession
  <2>2. ToSet(<<>>) = {}
    BY SetOfOne
  <2>3. QueuedFrom /\ ShownFrom /\ MessagesFrom
    BY <2>1, <2>2 DEF QueuedFrom, ShownFrom, MessagesFrom
  <2> QED
    BY <1>3, <2>1, <2>3, SameSources DEF Sources, FilesFrom
<1>4. CASE SwitchSession
  <2>1. PICK s \in DOMAIN files : current' = s /\ messages' = BuildContext(files[s])
    BY <1>4 DEF SwitchSession
  <2>2. shown' = <<>> /\ UNCHANGED <<queued, pendingBash, events, files>>
    BY <1>4 DEF SwitchSession
  <2>3. files[s] \in Seq(Items) /\ files'[current'] = files[s]
    BY <1>a, <2>1, <2>2
  <2>4. ToSet(messages') \subseteq ToSet(files'[current'])
    BY <2>1, <2>3, SetOfContext
  <2>5. MessagesFrom
    BY <2>4 DEF MessagesFrom
  <2>6. ShownFrom
    BY <2>2, SetOfOne DEF ShownFrom
  <2> QED
    BY <1>4, <2>2, <2>5, <2>6, SameSources DEF Sources, FilesFrom
<1> QED
  BY <1>1, <1>2, <1>3, <1>4

LEMMA StepSources ==
  ASSUME TypeOK, Sorts, Phases, Calm, SessionStep
  PROVE  Sources
<1>1. Time /\ SessionAction
  BY DEF SessionStep
<1> QED
  BY <1>1, CompactsSources, UserSources, CallerSources, RunSources, HandlerSources, AdminSources
     DEF SessionAction

-----------------------------------------------------------------------------
(* Every item is of its kind, of its session and of the past *)

LEMMA ListTypes ==
  ASSUME TypeOK
  PROVE  /\ ToSet(queued) \subseteq Items /\ ToSet(pendingBash) \subseteq Items
         /\ ToSet(messages) \subseteq Items /\ ToSet(shown) \subseteq Items
         /\ ToSet(Pend(events)) \subseteq Items /\ Pend(events) \in Seq(Items)
         /\ \A s \in DOMAIN files : ToSet(files[s]) \subseteq Items /\ files[s] \in Seq(Items)
<1>1. events \in Seq(Events)
  BY DEF TypeOK, Events, EventTypes
<1>2. Pend(events) \in Seq(Items)
  BY <1>1, PendJoin
<1>3. \A s \in DOMAIN files : files[s] \in Seq(Items)
  BY DEF TypeOK
<1> QED
  BY <1>2, <1>3, InSet DEF TypeOK

LEMMA SortsKept ==
  ASSUME TypeOK, Sorts, Sources
  PROVE  Sorts'
<1>1. \A x \in Recent({"user"}) : x.kind = "user"
  BY RecentOf DEF Kinds
<1>2. \A x \in Recent({"bash"}) : x.kind = "bash"
  BY RecentOf DEF Kinds
<1>3. \A x \in Recent(Kinds \ SummaryKinds) : x.kind \notin SummaryKinds
  BY RecentOf
<1> QED
  BY <1>1, <1>2, <1>3 DEF Sorts, Sources, QueuedFrom, BashFrom, EventsFrom, SummaryKinds

\* Nothing waits that belongs to the session that is to be changed.
Home ==
  /\ admin \in {"new", "switch"} => pendingBash = <<>>
  /\ admin = "switch" => queued = <<>>

\* While the session is to be changed nothing begins to wait.
LEMMA NothingWaits ==
  ASSUME TypeOK, Phases, Calm, ~disturbed', SessionStep, admin \in {"new", "switch"}
  PROVE  /\ pendingBash = <<>> => pendingBash' = <<>>
         /\ queued = <<>> => queued' = <<>>
<1> USE DEF agentVars, retryVars, compactVars, viewVars, fileVars, handlerVars, RunVars, ReplyVars,
            RestVars
<1>1. /\ ~streaming /\ events = <<>> /\ handler = "free" /\ timers = 0 /\ ~Quiet
      /\ \A c \in Callers : pc[c] = "idle"
  BY DEF Calm, Quiet
<1>2. ~disturbed
  BY StaysDisturbed
<1>3. ASSUME NEW w \in Workers, Compacts(w) PROVE UNCHANGED <<pendingBash, queued>>
  BY <1>3 DEF Compacts, PrepareCompaction, StopCompaction, FinishCompactionWith
<1>4. CASE AbortCompactions \/ QueueMessage(Item("user")) \/ Steers \/ Replaces \/ Stops \/ Idles
  BY <1>1, <1>2, <1>4 DEF AbortCompactions, QueueMessage, Steers, Replaces, Stops, Idles
<1>5. CASE Clears
  BY <1>5 DEF Clears
<1>6. ASSUME NEW c \in Callers, BeginsPrompt(c) \/ PromptCheck(c) \/ StartsPrompt(c) \/ GivesUpPrompt(c)
      PROVE  FALSE
  <2>1. ~BeginsPrompt(c)
    BY <1>1 DEF BeginsPrompt, PromptBeginWith, Disturb
  <2>2. ~PromptCheck(c) /\ ~StartsPrompt(c) /\ ~GivesUpPrompt(c)
    BY <1>1 DEF PromptCheck, StartsPrompt, PromptStartWith, GivesUpPrompt, PromptThrows
  <2> QED
    BY <1>6, <2>1, <2>2
<1>7. CASE \/ ReplyAndGoOn \/ ReplyAndDeliver \/ EndRun \/ \E kind \in AssistantKinds : LastReply(kind)
           \/ ContinueSwallowed \/ Continue
  <2>1. ~ReplyAndGoOn /\ ~ReplyAndDeliver /\ ~EndRun /\ \A kind \in AssistantKinds : ~LastReply(kind)
    BY <1>1 DEF ReplyAndGoOn, ReplyAndDeliver, EndRun, LastReply
  <2>2. ~ContinueSwallowed /\ ~Continue
    BY <1>1 DEF ContinueSwallowed, Continue
  <2> QED
    BY <1>7, <2>1, <2>2
<1>8. CASE \/ HandleStart \/ HandleUser \/ HandleResult \/ HandleAssistant \/ HandleEndRetry
           \/ HandleEnd \/ SleepEnds
  BY <1>1, <1>8 DEF HandleStart, HandleUser, HandleResult, HandleAssistant, HandleEndRetry, HandleEnd,
     SleepEnds, HandleNext
<1>9. CASE \/ RecordBash \/ \E operation \in {"new", "switch", "compact"} : AdminBegin(operation)
           \/ NewSession \/ SwitchSession \/ ManualCompact
  BY <1>1, <1>9 DEF RecordBash, AdminBegin, NewSession, SwitchSession, ManualCompact
<1> QED
  BY <1>3, <1>4, <1>5, <1>6, <1>7, <1>8, <1>9 DEF SessionStep, SessionAction

\* Only AdminBegin says that the session is to be changed.
LEMMA AdminFrom ==
  ASSUME SessionStep, admin' \in {"new", "switch"}
  PROVE  admin' = admin \/ AdminBegin(admin')
<1> USE DEF agentVars, retryVars, compactVars, viewVars, fileVars, handlerVars, RunVars, ReplyVars,
            RestVars
<1>3. ASSUME NEW w \in Workers, Compacts(w) PROVE admin' = admin \/ admin' = "none"
  BY <1>3 DEF Compacts, PrepareCompaction, StopCompaction, FinishCompactionWith, Release
<1>4. CASE AbortCompactions \/ QueueMessage(Item("user")) \/ Steers \/ Replaces \/ Stops \/ Idles \/ Clears
  BY <1>4 DEF AbortCompactions, QueueMessage, Steers, Replaces, Stops, Idles, Clears
<1>6. ASSUME NEW c \in Callers, BeginsPrompt(c) \/ PromptCheck(c) \/ StartsPrompt(c) \/ GivesUpPrompt(c)
      PROVE  admin' = admin
  BY <1>6 DEF BeginsPrompt, PromptBeginWith, PromptCheck, StartsPrompt, PromptStartWith, GivesUpPrompt,
     PromptThrows
<1>7. CASE \/ ReplyAndGoOn \/ ReplyAndDeliver \/ EndRun \/ \E kind \in AssistantKinds : LastReply(kind)
           \/ ContinueSwallowed \/ Continue
  BY <1>7 DEF ReplyAndGoOn, ReplyAndDeliver, EndRun, LastReply, ContinueSwallowed, Continue
<1>8. CASE \/ HandleStart \/ HandleUser \/ HandleResult \/ HandleAssistant \/ HandleEndRetry
           \/ HandleEnd \/ SleepEnds
  BY <1>8 DEF HandleStart, HandleUser, HandleResult, HandleAssistant, HandleEndRetry, HandleEnd, SleepEnds
<1>9. CASE \/ RecordBash \/ NewSession \/ SwitchSession \/ ManualCompact
  BY <1>9 DEF RecordBash, NewSession, SwitchSession, ManualCompact
<1>10. ASSUME NEW operation \in {"new", "switch", "compact"}, AdminBegin(operation)
       PROVE  operation = admin'
  BY <1>10 DEF AdminBegin
<1> QED
  BY <1>3, <1>4, <1>6, <1>7, <1>8, <1>9, <1>10 DEF SessionStep, SessionAction

LEMMA HomeKept ==
  ASSUME TypeOK, Phases, Calm, Home, ~disturbed', SessionStep
  PROVE  Home'
<1>1. CASE admin' = admin
  BY <1>1, NothingWaits DEF Home
<1>2. ASSUME admin' \in {"new", "switch"}, AdminBegin(admin')
      PROVE  pendingBash' = <<>> /\ (admin' = "switch" => queued' = <<>>)
  BY <1>2 DEF AdminBegin, Disturb, viewVars
<1> QED
  BY <1>1, <1>2, AdminFrom DEF Home

\* Nothing is of the future, and a summary is later than what it follows.
Waiting == ToSet(messages) \cup ToSet(queued) \cup ToSet(shown) \cup ToSet(pendingBash)
             \cup ToSet(Pend(events))
SummaryLast(es) ==
  \A j \in 1..Len(es) : es[j].kind \in SummaryKinds => \A i \in 1..j - 1 : es[i].n < es[j].n
Past ==
  /\ \A x \in Waiting : x.n <= clock
  /\ \A s \in DOMAIN files : \A x \in ToSet(files[s]) : x.n <= clock
  /\ \A s \in DOMAIN files : SummaryLast(files[s])

LEMMA WrittenLast ==
  ASSUME NEW es \in Seq(Items), SummaryLast(es), NEW more \in Seq(Items), NEW now \in Nat,
         \A x \in ToSet(es) : x.n <= now,
         \/ \A x \in ToSet(more) : x.kind \notin SummaryKinds
         \/ \E x \in Items : x.n = now + 1 /\ more = <<x>>
  PROVE  SummaryLast(es \o more)
<1> DEFINE l == es \o more
<1>1. /\ Len(l) = Len(es) + Len(more) /\ Len(es) \in Nat /\ Len(more) \in Nat
      /\ \A i \in 1..Len(l) : l[i] = IF i <= Len(es) THEN es[i] ELSE more[i - Len(es)]
  OBVIOUS
<1> HIDE DEF l
<1>2. ASSUME NEW j \in 1..Len(l), l[j].kind \in SummaryKinds, NEW i \in 1..j - 1
      PROVE  l[i].n < l[j].n
  <2>1. CASE j <= Len(es)
    <3>1. l[j] = es[j] /\ l[i] = es[i] /\ j \in 1..Len(es)
      BY <1>1, <2>1
    <3> QED
      BY <1>2, <3>1 DEF SummaryLast
  <2>2. CASE ~(j <= Len(es))
    <3> DEFINE k == j - Len(es)
    <3>1. k \in 1..Len(more) /\ l[j] = more[k]
      BY <1>1, <2>2
    <3>2. more[k] \in ToSet(more)
      BY <3>1, InSet
    <3>3. PICK x \in Items : x.n = now + 1 /\ more = <<x>>
      BY <1>2, <3>1, <3>2
    <3>4. Len(more) = 1 /\ more[1] = x
      BY <3>3
    <3>5. k = 1 /\ l[j] = x
      BY <3>1, <3>4
    <3>6. i \in 1..Len(es) /\ l[i] = es[i]
      BY <1>1, <2>2, <3>5
    <3>7. es[i] \in ToSet(es) /\ es[i] \in Items
      BY <3>6, InSet
    <3>8. es[i].n <= now /\ es[i].n \in Nat
      BY <3>7 DEF Items, ItemsOf
    <3> QED
      BY <3>3, <3>5, <3>6, <3>8
  <2> QED
    BY <2>1, <2>2
<1> QED
  BY <1>2 DEF SummaryLast, l

LEMMA PastKept ==
  ASSUME TypeOK, TypeOK', Time, Past, Sources
  PROVE  Past'
<1>a. files \in Seq(Seq(Items)) /\ current \in DOMAIN files /\ DOMAIN files = 1..Len(files)
      /\ clock \in Nat /\ clock' \in Nat /\ clock <= clock' /\ current' \in DOMAIN files'
      /\ pendingBash \in Seq(Items)
  BY DEF TypeOK, Time
<1>b. /\ \A x \in Recent(Kinds) : x.n <= clock'
      /\ \A x \in Recent({"user"}) : x.n <= clock'
      /\ \A x \in Recent({"bash"}) : x.n <= clock'
      /\ \A x \in Recent(Kinds \ SummaryKinds) : x.n <= clock'
  BY RecentOf DEF Kinds
<1>c. /\ \A x \in Waiting : x.n <= clock'
      /\ \A s \in DOMAIN files : \A x \in ToSet(files[s]) : x.n <= clock'
  <2>1. Waiting \subseteq Items /\ \A s \in DOMAIN files : ToSet(files[s]) \subseteq Items
    BY ListTypes DEF Waiting
  <2>2. \A x \in Items : x.n \in Nat /\ (x.n <= clock => x.n <= clock')
    BY <1>a DEF Items, ItemsOf
  <2> QED
    BY <2>1, <2>2 DEF Past
<1>1. /\ \A s \in DOMAIN files' : \A x \in ToSet(files'[s]) : x.n <= clock'
      /\ \A s \in DOMAIN files' : SummaryLast(files'[s])
  <2>1. CASE files' = files
    BY <1>c, <2>1 DEF Past
  <2>2. CASE NewSession
    <3>1. files' = Append(files, <<>>)
      BY <2>2 DEF NewSession
    <3>2. ASSUME NEW s \in DOMAIN files' PROVE \/ s \in DOMAIN files /\ files'[s] = files[s]
                                               \/ files'[s] = <<>>
      BY <1>a, <3>1
    <3>3. ToSet(<<>>) = {} /\ SummaryLast(<<>>)
      <4>1. Len(<<>>) = 0 /\ 1..0 = {}
        OBVIOUS
      <4>2. SummaryLast(<<>>)
        BY <4>1, Zenon DEF SummaryLast
      <4> QED
        BY <4>2, SetOfOne
    <3> QED
      BY <1>c, <3>2, <3>3 DEF Past
  <2>3. ASSUME NEW more, Written(more), files' = [files EXCEPT ![current] = entries \o more]
        PROVE  /\ \A s \in DOMAIN files' : \A x \in ToSet(files'[s]) : x.n <= clock'
               /\ \A s \in DOMAIN files' : SummaryLast(files'[s])
    <3> DEFINE es == entries \o more
    <3>1. more \in Seq(Items) /\ entries \in Seq(Items)
      BY <2>3, EntriesType DEF Written
    <3>2. es \in Seq(Items)
      BY <3>1
    <3>3. ToSet(es) = ToSet(entries) \cup ToSet(more)
      BY <3>1, SetOfJoin
    <3>4. \A x \in ToSet(es) : x.n <= clock'
      <4>1. \A x \in ToSet(entries) : x.n <= clock'
        BY <1>a, <1>c DEF entries
      <4>2. \A x \in ToSet(more) : x.n <= clock'
        BY <1>b, <1>c, <2>3 DEF Waiting, Written
      <4> HIDE DEF es
      <4> QED
        BY <3>3, <4>1, <4>2
    <3>6. SummaryLast(es)
      <4>1. SummaryLast(entries) /\ \A x \in ToSet(entries) : x.n <= clock
        BY <1>a DEF Past, entries
      <4> QED
        BY <1>a, <2>3, <3>1, <4>1, WrittenLast DEF Written
    <3> HIDE DEF es
    <3>5. DOMAIN files' = DOMAIN files /\ files'[current] = es
          /\ \A s \in DOMAIN files \ {current} : files'[s] = files[s]
      BY <2>3, <3>2, FileReplaced DEF es
    <3> QED
      BY <1>c, <3>4, <3>5, <3>6 DEF Past
  <2> QED
    BY <2>1, <2>2, <2>3 DEF Sources, FilesFrom
<1>2. \A x \in Waiting' : x.n <= clock'
  BY <1>a, <1>b, <1>c, <1>1 DEF Waiting, Sources, QueuedFrom, ShownFrom, BashFrom, EventsFrom, MessagesFrom
<1> QED
  BY <1>1, <1>2 DEF Past

-----------------------------------------------------------------------------
(* The invariant of a session, and the theorems *)

\* What holds as long as nothing disturbed the session.
Settled == Calm /\ EventsInOrder /\ Sorts /\ Home /\ Past
SessionInvariant == TypeOK /\ Phases /\ (~disturbed => Settled)

LEMMA InvariantKept ==
  ASSUME SessionInvariant, SessionStep
  PROVE  SessionInvariant'
<1>1. TypeOK /\ Phases /\ TypeOK' /\ Phases' /\ Time
  BY StepType, StepPhases DEF SessionInvariant, SessionStep
<1>2. ASSUME ~disturbed' PROVE Settled'
  <2>1. Settled
    BY <1>2, StaysDisturbed DEF SessionInvariant
  <2>2. Calm' /\ EventsInOrder'
    BY <1>1, <1>2, <2>1, StepCalm DEF Settled
  <2>3. Sources
    BY <1>1, <2>1, StepSources DEF Settled
  <2>4. Sorts' /\ Past'
    BY <1>1, <2>1, <2>3, SortsKept, PastKept DEF Settled
  <2>5. Home'
    BY <1>1, <1>2, <2>1, HomeKept DEF Settled
  <2> QED
    BY <2>2, <2>4, <2>5 DEF Settled
<1> QED
  BY <1>1, <1>2 DEF SessionInvariant

LEMMA InvariantInit == Init => SessionInvariant
<1> SUFFICES ASSUME Init PROVE SessionInvariant
  OBVIOUS
<1>1. TypeOK
  <2>1. NoItem \in Items /\ NoCompaction \in Compactions
    BY NoItemIs DEF NoCompaction, Compactions
  <2>2. left \in [Inputs -> Nat] /\ 0 \in 0..MaxRetries
    BY ASAssumption DEF Init
  <2>3. files \in Seq(Seq(Items)) /\ current \in DOMAIN files
    BY DEF Init
  <2>4. /\ messages \in Seq(Items) /\ queued \in Seq(Items) /\ shown \in Seq(Items)
        /\ pendingBash \in Seq(Items)
        /\ events \in Seq([type : {"agent_start", "message", "agent_end"}, item : Items])
    BY DEF Init
  <2>5. /\ streaming \in BOOLEAN /\ ending \in AssistantKinds \cup {"none"}
        /\ owner \in Callers \cup {"nobody"} /\ aborting \in BOOLEAN /\ connected \in BOOLEAN
        /\ handler \in {"free", "sleeping", "compacting"} /\ lastAssistant \in Items
    BY <2>1 DEF Init
  <2>6. /\ retryAttempt \in 0..MaxRetries /\ retryPromise \in BOOLEAN /\ overflowTried \in BOOLEAN
        /\ compaction \in [Workers -> Compactions] /\ controller \in Workers \cup {"nobody"}
        /\ timers \in Nat
    BY <2>1, <2>2 DEF Init
  <2>7. /\ pc \in [Callers -> {"idle", "checking", "compacting", "starting", "running",
                               "retryWait"}]
        /\ admin \in {"none", "new", "switch", "compact", "compacting"}
        /\ clock \in Nat /\ disturbed \in BOOLEAN
    BY DEF Init
  <2> QED
    BY <2>2, <2>3, <2>4, <2>5, <2>6, <2>7 DEF TypeOK
<1>2. Phases
  <2>1. \A w \in Workers : ~InProgress(w) /\ compaction[w].phase = "none"
    BY DEF Init, InProgress, NoCompaction
  <2> QED
    BY <2>1 DEF Init, Phases, Underway, Runs, Listens
<1>3. Calm /\ EventsInOrder
  BY DEF Init, Calm, EventsInOrder, Busy
<1>4. ToSet(<<>>) = {} /\ Pend(<<>>) = <<>>
  BY SetOfOne, PendEmpty
<1>5. \A s \in DOMAIN files : files[s] = <<>>
  BY DEF Init
<1>6. Sorts /\ Home
  BY <1>4, <1>5 DEF Init, Sorts, Home
<1>7. Past
  <2>1. SummaryLast(<<>>)
    <3>1. Len(<<>>) = 0 /\ 1..0 = {}
      OBVIOUS
    <3> QED
      BY <3>1, Zenon DEF SummaryLast
  <2> QED
    BY <1>4, <1>5, <2>1 DEF Init, Past, Waiting
<1> QED
  BY <1>1, <1>2, <1>3, <1>6, <1>7 DEF SessionInvariant, Settled

LEMMA SpendType ==
  ASSUME TypeOK, NEW input \in Inputs, Spend(input)
  PROVE  left' \in [Inputs -> Nat]
BY DEF TypeOK, Spend

LEMMA ItemTime ==
  ASSUME TypeOK, clock' = clock + 1
  PROVE  UserItem(Item("user"))
<1>1. Item("user") \in ItemsOf({"user"})
  BY ItemIs DEF Kinds
<1>2. Item("user").n = clock + 1
  BY DEF Item
<1> QED
  BY <1>1, <1>2 DEF UserItem, TypeOK

\* Every step of the session alone is one of the steps above.
LEMMA NextIsStep ==
  ASSUME SessionInvariant, Next
  PROVE  SessionStep
<1> USE DEF agentVars, retryVars, compactVars, viewVars, fileVars, handlerVars, RunVars, ReplyVars,
            RestVars
<1>a. TypeOK /\ clock \in Nat /\ left \in [Inputs -> Nat]
  BY DEF SessionInvariant, TypeOK
<1>1. CASE HandlerStep
  <2>1. SessionAction
    BY <1>1, WorkersAre DEF HandlerStep, SessionAction, CompactionStep, FinishCompaction, Compacts
  <2>2. UNCHANGED left /\ (UNCHANGED clock \/ clock' = clock + 1)
    BY <1>1 DEF HandlerStep, HandleStart, HandleUser, HandleResult, HandleAssistant, HandleEndRetry,
       HandleEnd, SleepEnds, CompactionStep, PrepareCompaction, StopCompaction, FinishCompaction,
       FinishCompactionWith
  <2> QED
    BY <1>a, <2>1, <2>2 DEF SessionStep, Time
<1>2. CASE AdminStep
  <2>1. SessionAction
    BY <1>2, WorkersAre DEF AdminStep, SessionAction, CompactionStep, FinishCompaction, Compacts
  <2>2. UNCHANGED left /\ (UNCHANGED clock \/ clock' = clock + 1)
    BY <1>2 DEF AdminStep, NewSession, SwitchSession, ManualCompact, CompactionStep, PrepareCompaction,
       StopCompaction, FinishCompaction, FinishCompactionWith
  <2> QED
    BY <1>a, <2>1, <2>2 DEF SessionStep, Time
<1>3. CASE AgentStep \/ TimerStep
  <2>1. SessionAction
    BY <1>3 DEF AgentStep, TimerStep, SessionAction
  <2>2. clock' \in Nat /\ clock <= clock'
    <3>1. UNCHANGED clock \/ clock' = clock + 1 \/ clock' = clock + 2
      BY <1>3 DEF AgentStep, TimerStep, ReplyAndGoOn, ReplyAndDeliver, EndRun, LastReply,
         ContinueSwallowed, Continue
    <3> QED
      BY <1>a, <3>1
  <2>3. left' \in [Inputs -> Nat]
    <3>1. CASE ReplyAndGoOn
      BY <1>a, <3>1, SpendType DEF ReplyAndGoOn, Inputs
    <3>2. CASE ReplyAndDeliver \/ EndRun \/ TimerStep
      BY <1>a, <3>2 DEF ReplyAndDeliver, EndRun, TimerStep, ContinueSwallowed, Continue
    <3>3. ASSUME NEW kind \in AssistantKinds, LastReply(kind) PROVE left' \in [Inputs -> Nat]
      <4>1. MayReply(kind)
        BY <3>3 DEF LastReply
      <4>2. UNCHANGED left \/ \E input \in Inputs : Spend(input)
        BY <4>1 DEF MayReply, Inputs, AssistantKinds, FailureKinds
      <4> QED
        BY <1>a, <4>2, SpendType
    <3> QED
      BY <1>3, <3>1, <3>2, <3>3 DEF AgentStep
  <2> QED
    BY <2>1, <2>2, <2>3 DEF SessionStep, Time
<1>4. ASSUME NEW c \in Callers, CallerStep(c) PROVE SessionStep
  <2>1. CASE PromptStart(c)
    <3>1. PromptStartWith(c, Item("user")) /\ clock' = clock + 1
      BY <2>1 DEF PromptStart
    <3>2. UserItem(Item("user"))
      BY <1>a, <3>1, ItemTime
    <3>3. ~disturbed => \A i \in 1..Len(queued) : queued[i] # Item("user")
      <4>1. \A i \in 1..Len(queued) : queued[i] \in ToSet(queued) /\ queued[i] \in Items
        BY <1>a, InSet DEF TypeOK
      <4>2. ~disturbed => \A x \in ToSet(queued) : x.n <= clock
        BY DEF SessionInvariant, Settled, Past, Waiting
      <4>3. Item("user").n = clock + 1
        BY DEF Item
      <4>4. \A x \in Items : x.n \in Nat
        BY DEF Items, ItemsOf
      <4> QED
        BY <1>a, <4>1, <4>2, <4>3, <4>4
    <3>4. StartsPrompt(c)
      BY <3>1, <3>2, <3>3, Zenon DEF StartsPrompt
    <3>5. UNCHANGED left
      BY <3>1 DEF PromptStartWith
    <3> QED
      BY <1>a, <3>1, <3>4, <3>5 DEF SessionStep, SessionAction, Time
  <2>2. CASE PromptCheck(c) \/ PromptRejected(c)
    <3>1. SessionAction
      BY <2>2 DEF SessionAction, PromptRejected, GivesUpPrompt
    <3>2. UNCHANGED <<clock, left>>
      BY <2>2 DEF PromptCheck, PromptRejected, PromptThrows
    <3> QED
      BY <1>a, <3>1, <3>2 DEF SessionStep, Time
  <2>3. CASE CompactionStep(c)
    <3>1. SessionAction
      BY <2>3, WorkersAre DEF SessionAction, CompactionStep, FinishCompaction, Compacts
    <3>2. UNCHANGED left /\ (UNCHANGED clock \/ clock' = clock + 1)
      BY <2>3 DEF CompactionStep, PrepareCompaction, StopCompaction, FinishCompaction,
         FinishCompactionWith
    <3> QED
      BY <1>a, <3>1, <3>2 DEF SessionStep, Time
  <2> QED
    BY <1>4, <2>1, <2>2, <2>3 DEF CallerStep
<1>5. CASE UserStep
  <2>1. left' \in [Inputs -> Nat]
    <3>1. \E input \in Inputs : Spend(input)
      BY <1>5 DEF UserStep, PromptBegin, PromptQueued, Abort, AbortRetry, AbortCompaction, ClearQueue,
         RecordBash, AdminBegin, Inputs
    <3> QED
      BY <1>a, <3>1, SpendType
  <2>2. UNCHANGED clock \/ clock' = clock + 1
    BY <1>5 DEF UserStep, PromptBegin, PromptQueued, Abort, AbortRetry, AbortCompaction, ClearQueue,
       RecordBash, AdminBegin, QueueMessage, AbortCompactions
  <2>3. SessionAction
    <3>1. ASSUME NEW c \in Callers, PromptBegin(c) PROVE BeginsPrompt(c)
      <4>1. UserItems(<<>>)
        BY DEF UserItems
      <4> QED
        BY <3>1, <4>1, Zenon DEF PromptBegin, BeginsPrompt
    <3>2. CASE PromptQueued \/ AbortCompaction \/ RecordBash
                 \/ \E operation \in {"new", "switch", "compact"} : AdminBegin(operation)
      BY <3>2 DEF PromptQueued, AbortCompaction, SessionAction
    <3>3. CASE Abort \/ AbortRetry
      <4>1. AbortRetryEffects /\ (aborting' = aborting \/ aborting' = (aborting \/ streaming))
            /\ UNCHANGED <<messages, streaming, ending, owner, connected, events, lastAssistant,
                 overflowTried, compactVars, timers, pendingBash, fileVars, admin, disturbed,
                 queued, shown>>
        BY <3>3 DEF Abort, AbortRetry, AbortEffects
      <4>2. aborting' \in BOOLEAN
        BY <1>a, <4>1 DEF TypeOK
      <4> QED
        BY <4>1, <4>2 DEF Stops, SessionAction
    <3>4. CASE ClearQueue
      <4>1. queued' = <<>> /\ shown' = <<>> /\ UNCHANGED <<RestVars, retryVars, pc, aborting>>
        BY <3>4 DEF ClearQueue
      <4>2. Clears
        BY <1>a, <4>1 DEF Clears, TypeOK
      <4> QED
        BY <4>2 DEF SessionAction
    <3> QED
      BY <1>5, <3>1, <3>2, <3>3, <3>4 DEF UserStep, SessionAction
  <2> QED
    BY <1>a, <2>1, <2>2, <2>3 DEF SessionStep, Time
<1> QED
  BY <1>1, <1>2, <1>3, <1>4, <1>5 DEF Next

LEMMA StutterIsStep ==
  ASSUME TypeOK, UNCHANGED vars
  PROVE  SessionStep
<1>1. Idles
  BY DEF vars, Idles, RestVars, agentVars, retryVars, compactVars, viewVars, fileVars, handlerVars
<1>2. Time
  BY DEF vars, Time, TypeOK
<1> QED
  BY <1>1, <1>2 DEF SessionStep, SessionAction

\* The session keeps its invariant in every behaviour: the types, what each
\* caller and the handler await, and as long as nothing disturbed the session
\* that its events, entries and messages stay in order
\* (prompt, _processAgentEvent, _handleRetryableError, _runAutoCompaction).
THEOREM SessionSafe == Spec => []SessionInvariant
<1>1. SessionInvariant /\ [Next]_vars => SessionInvariant'
  BY NextIsStep, StutterIsStep, InvariantKept DEF SessionInvariant
<1> QED
  BY InvariantInit, <1>1, PTL DEF Spec

\* Every variable of the session keeps its type, whatever the clients, the
\* handler of events and the agent do.
THEOREM SessionTyped == Spec => []TypeOK
<1>1. SessionInvariant => TypeOK
  BY DEF SessionInvariant
<1> QED
  BY <1>1, SessionSafe, PTL
=============================================================================
