---------------------- MODULE AgentConversation_proofs ----------------------
(***************************************************************************)
(* AgentLoop implements Conversation, for every value of its constants.    *)
(***************************************************************************)
EXTENDS AgentConversation, AgentLoop_proofs

-----------------------------------------------------------------------------
(* What the user and the model said *)

Entries == [kind : MessageKinds, n : Nat, asks : BOOLEAN]

\* A sequence and what is added behind it, either way.
LEMMA EntryThen ==
  ASSUME NEW s \in Seq(Entries), NEW t \in Seq(Entries), NEW e \in Entries
  PROVE  Append(s \o t, e) = s \o Append(t, e)
<1>1. s \o t \in Seq(Entries) /\ Append(t, e) \in Seq(Entries)
  OBVIOUS
<1>2. Append(s \o t, e) \in Seq(Entries) /\ s \o Append(t, e) \in Seq(Entries)
  BY <1>1
<1>3. Len(Append(s \o t, e)) = Len(s \o Append(t, e))
  BY <1>1
<1>4. \A i \in 1..Len(Append(s \o t, e)) : Append(s \o t, e)[i] = (s \o Append(t, e))[i]
  BY <1>1
<1> QED
  BY <1>2, <1>3, <1>4, SeqEqual

\* What stands for a message in the abstract conversation.
LEMMA ItemType ==
  ASSUME NEW m \in Messages, NEW asked
  PROVE  Item(m, asked) \in Entries
<1>1. (m.kind = "assistant" /\ asked[m.n] # <<>>) \in BOOLEAN
  BY Zenon
<1>2. m.kind \in MessageKinds /\ m.n \in Nat
  BY DEF Messages
<1>3. (IF m.kind = "user" THEN m.n ELSE 0) \in Nat
  BY <1>2
<1> QED
  BY <1>1, <1>2, <1>3, Zenon DEF Item, Entries

\* What was said after the first messages, as a function on their number.
SaidSoFar(g, n, ms, asked) ==
  /\ g \in [0..n -> Seq(Entries)]
  /\ g[0] = <<>>
  /\ \A i \in 1..n :
       g[i] = IF IsResult(ms[i]) THEN g[i - 1] ELSE Append(g[i - 1], Item(ms[i], asked))

\* There is such a function, because a shorter one can be extended.
LEMMA SaidExists ==
  ASSUME NEW ms \in Seq(Messages), NEW asked
  PROVE  \E g : SaidSoFar(g, Len(ms), ms, asked)
<1> DEFINE Bad == {n \in Nat : n <= Len(ms) /\ ~\E g : SaidSoFar(g, n, ms, asked)}
<1>1. Bad = {}
  <2> SUFFICES ASSUME Bad # {} PROVE FALSE
    OBVIOUS
  <2>1. Bad \in SUBSET Nat
    OBVIOUS
  <2>2. PICK n \in Bad : \A k \in Bad : n <= k
    BY <2>1, LeastNat
  <2>3. CASE n = 0
    <3>1. SaidSoFar([i \in 0..0 |-> <<>>], 0, ms, asked)
      BY DEF SaidSoFar
    <3> QED
      BY <2>3, <3>1
  <2>4. CASE n # 0
    <3>1. n - 1 \in Nat /\ n - 1 <= Len(ms) /\ n \in 1..Len(ms) /\ n \in Nat
      BY <2>4
    <3>2. n - 1 \notin Bad
      BY <2>2, <3>1
    <3>3. PICK g : SaidSoFar(g, n - 1, ms, asked)
      BY <3>1, <3>2
    <3> DEFINE new == IF IsResult(ms[n]) THEN g[n - 1]
                      ELSE Append(g[n - 1], Item(ms[n], asked))
               h == [i \in 0..n |-> IF i = n THEN new ELSE g[i]]
    <3>4. g \in [0..n - 1 -> Seq(Entries)] /\ g[0] = <<>>
      BY <3>3 DEF SaidSoFar
    <3>5. new \in Seq(Entries)
      <4>1. g[n - 1] \in Seq(Entries)
        BY <3>4, <3>1
      <4>2. ms[n] \in Messages
        BY <3>1
      <4>3. Item(ms[n], asked) \in Entries
        BY <4>2, ItemType
      <4> QED
        BY <4>1, <4>3
    <3>6. h \in [0..n -> Seq(Entries)]
      <4> HIDE DEF new
      <4>1. ASSUME NEW i \in 0..n PROVE h[i] \in Seq(Entries)
        BY <4>1, <3>1, <3>4, <3>5
      <4> QED
        BY <4>1
    <3>7. h[0] = <<>>
      BY <3>1, <3>4
    <3>8. ASSUME NEW i \in 1..n
          PROVE  h[i] = IF IsResult(ms[i]) THEN h[i - 1] ELSE Append(h[i - 1], Item(ms[i], asked))
      <4>1. CASE i = n
        <5>1. h[i] = new /\ h[i - 1] = g[n - 1]
          BY <4>1, <3>1
        <5> QED
          BY <5>1, <4>1
      <4>2. CASE i # n
        <5>1. i \in 1..n - 1 /\ h[i] = g[i] /\ h[i - 1] = g[i - 1]
          BY <4>2, <3>1
        <5>2. g[i] = IF IsResult(ms[i]) THEN g[i - 1] ELSE Append(g[i - 1], Item(ms[i], asked))
          BY <5>1, <3>3 DEF SaidSoFar
        <5> QED
          BY <5>1, <5>2
      <4> QED
        BY <4>1, <4>2
    <3> HIDE DEF h
    <3>9. SaidSoFar(h, n, ms, asked)
      BY <3>6, <3>7, <3>8 DEF SaidSoFar
    <3> QED
      BY <3>9
  <2> QED
    BY <2>3, <2>4
<1>2. Len(ms) \in Nat /\ Len(ms) <= Len(ms)
  OBVIOUS
<1> QED
  BY <1>1, <1>2

\* SaidUpTo is that function.
LEMMA SaidUpToIs ==
  ASSUME NEW ms \in Seq(Messages), NEW asked
  PROVE  SaidSoFar(SaidUpTo(ms, asked), Len(ms), ms, asked)
<1> DEFINE Rec(f) ==
      f = [i \in 0..Len(ms) |-> IF i = 0 THEN <<>>
                                ELSE IF IsResult(ms[i]) THEN f[i - 1]
                                ELSE Append(f[i - 1], Item(ms[i], asked))]
<1>1. SaidUpTo(ms, asked) = CHOOSE f : Rec(f)
  BY DEF SaidUpTo
<1>2. PICK g : SaidSoFar(g, Len(ms), ms, asked)
  BY SaidExists
<1>3. g \in [0..Len(ms) -> Seq(Entries)] /\ Len(ms) \in Nat
  BY <1>2 DEF SaidSoFar
<1>4. \A i \in 0..Len(ms) :
        g[i] = IF i = 0 THEN <<>> ELSE IF IsResult(ms[i]) THEN g[i - 1]
               ELSE Append(g[i - 1], Item(ms[i], asked))
  <2> SUFFICES ASSUME NEW i \in 0..Len(ms)
               PROVE  g[i] = IF i = 0 THEN <<>> ELSE IF IsResult(ms[i]) THEN g[i - 1]
                             ELSE Append(g[i - 1], Item(ms[i], asked))
    OBVIOUS
  <2>1. i = 0 \/ i \in 1..Len(ms)
    BY <1>3
  <2> QED
    BY <2>1, <1>2 DEF SaidSoFar
<1>5. Rec(g)
  BY <1>3, <1>4
<1> HIDE DEF Rec
<1>6. Rec(SaidUpTo(ms, asked))
  BY <1>1, <1>5
<1> DEFINE f == SaidUpTo(ms, asked)
<1>7. f = [i \in 0..Len(ms) |-> IF i = 0 THEN <<>>
                                ELSE IF IsResult(ms[i]) THEN f[i - 1]
                                ELSE Append(f[i - 1], Item(ms[i], asked))]
  BY <1>6 DEF Rec
<1> HIDE DEF f
<1>8. /\ f[0] = <<>>
      /\ \A i \in 1..Len(ms) :
           f[i] = IF IsResult(ms[i]) THEN f[i - 1] ELSE Append(f[i - 1], Item(ms[i], asked))
  <2>1. f[0] = <<>>
    BY <1>7, <1>3
  <2>2. ASSUME NEW i \in 1..Len(ms)
        PROVE  f[i] = IF IsResult(ms[i]) THEN f[i - 1] ELSE Append(f[i - 1], Item(ms[i], asked))
    <3>1. i \in 0..Len(ms) /\ i # 0
      BY <1>3
    <3> QED
      BY <1>7, <3>1
  <2> QED
    BY <2>1, <2>2
<1> DEFINE Odd == {n \in Nat : n <= Len(ms) /\ f[n] \notin Seq(Entries)}
<1>9. Odd = {}
  <2> SUFFICES ASSUME Odd # {} PROVE FALSE
    OBVIOUS
  <2>1. Odd \in SUBSET Nat
    OBVIOUS
  <2>2. PICK n \in Odd : \A k \in Odd : n <= k
    BY <2>1, LeastNat
  <2>3. n # 0
    <3>1. <<>> \in Seq(Entries)
      OBVIOUS
    <3> QED
      BY <2>2, <1>8, <3>1
  <2>4. n - 1 \in Nat /\ n - 1 <= Len(ms) /\ n \in 1..Len(ms)
    BY <2>2, <2>3
  <2>5. f[n - 1] \in Seq(Entries)
    BY <2>2, <2>4
  <2>6. ms[n] \in Messages
    BY <2>4
  <2>7. Item(ms[n], asked) \in Entries
    BY <2>6, ItemType
  <2>8. f[n] \in Seq(Entries)
    <3>1. f[n] = IF IsResult(ms[n]) THEN f[n - 1] ELSE Append(f[n - 1], Item(ms[n], asked))
      BY <1>8, <2>4
    <3>2. Append(f[n - 1], Item(ms[n], asked)) \in Seq(Entries)
      BY <2>5, <2>7
    <3> QED
      BY <2>5, <3>1, <3>2
  <2> QED
    BY <2>2, <2>8
<1>10. f \in [0..Len(ms) -> Seq(Entries)]
  <2>1. \A i \in 0..Len(ms) : f[i] \in Seq(Entries)
    BY <1>9, <1>3
  <2>2. f = [i \in 0..Len(ms) |-> f[i]]
    BY <1>7
  <2> QED
    BY <2>1, <2>2
<1> QED
  BY <1>8, <1>10 DEF SaidSoFar, f

\* It depends on what was said alone.
LEMMA SaidAlike ==
  ASSUME NEW ms \in Seq(Messages), NEW asked, NEW others \in Seq(Messages), NEW known,
         NEW n \in Nat, n <= Len(ms), n <= Len(others),
         \A i \in 1..n : /\ IsResult(ms[i]) <=> IsResult(others[i])
                         /\ ~IsResult(ms[i]) => Item(ms[i], asked) = Item(others[i], known)
  PROVE  SaidUpTo(ms, asked)[n] = SaidUpTo(others, known)[n]
<1> DEFINE f == SaidUpTo(ms, asked)
           g == SaidUpTo(others, known)
           Bad == {k \in Nat : k <= n /\ f[k] # g[k]}
<1>1. SaidSoFar(f, Len(ms), ms, asked) /\ SaidSoFar(g, Len(others), others, known)
  BY SaidUpToIs
<1> HIDE DEF f, g
<1>2. f[0] = g[0]
  BY <1>1 DEF SaidSoFar
<1>3. Bad = {}
  <2> SUFFICES ASSUME Bad # {} PROVE FALSE
    OBVIOUS
  <2>1. Bad \in SUBSET Nat
    OBVIOUS
  <2>2. PICK k \in Bad : \A i \in Bad : k <= i
    BY <2>1, LeastNat
  <2>3. k # 0 /\ k \in Nat /\ k <= n /\ f[k] # g[k]
    BY <2>2, <1>2
  <2>4. k - 1 \in Nat /\ k - 1 <= n /\ k \in 1..n /\ k \in 1..Len(ms) /\ k \in 1..Len(others)
    BY <2>3
  <2>5. f[k - 1] = g[k - 1]
    BY <2>2, <2>4
  <2>6. f[k] = IF IsResult(ms[k]) THEN f[k - 1] ELSE Append(f[k - 1], Item(ms[k], asked))
    BY <1>1, <2>4 DEF SaidSoFar
  <2>7. g[k] = IF IsResult(others[k]) THEN g[k - 1] ELSE Append(g[k - 1], Item(others[k], known))
    BY <1>1, <2>4 DEF SaidSoFar
  <2> QED
    BY <2>3, <2>4, <2>5, <2>6, <2>7
<1> QED
  BY <1>3 DEF f, g

\* What was said is a sequence.
LEMMA ItemsType ==
  ASSUME NEW ms \in Seq(Messages), NEW asked
  PROVE  Items(ms, asked) \in Seq(Entries)
<1>1. SaidUpTo(ms, asked) \in [0..Len(ms) -> Seq(Entries)] /\ Len(ms) \in Nat
  BY SaidUpToIs DEF SaidSoFar
<1> QED
  BY <1>1 DEF Items

\* Nothing was said in an empty conversation.
LEMMA ItemsNothing == ASSUME NEW asked PROVE Items(<<>>, asked) = <<>>
<1>1. <<>> \in Seq(Messages) /\ Len(<<>>) = 0
  OBVIOUS
<1>2. SaidSoFar(SaidUpTo(<<>>, asked), Len(<<>>), <<>>, asked)
  BY <1>1, SaidUpToIs
<1> QED
  BY <1>1, <1>2 DEF Items, SaidSoFar

\* Two conversations in which the same was said.
LEMMA ItemsAlike ==
  ASSUME NEW ms \in Seq(Messages), NEW asked, NEW others \in Seq(Messages), NEW known,
         Len(ms) = Len(others),
         \A i \in 1..Len(ms) :
           /\ IsResult(ms[i]) <=> IsResult(others[i])
           /\ ~IsResult(ms[i]) => Item(ms[i], asked) = Item(others[i], known)
  PROVE  Items(ms, asked) = Items(others, known)
<1>1. Len(ms) \in Nat /\ Len(ms) <= Len(ms) /\ Len(ms) <= Len(others)
  OBVIOUS
<1>2. SaidUpTo(ms, asked)[Len(ms)] = SaidUpTo(others, known)[Len(ms)]
  BY <1>1, SaidAlike
<1> QED
  BY <1>2 DEF Items

\* What was said in the beginning of a conversation.
LEMMA SaidBefore ==
  ASSUME NEW a \in Seq(Messages), NEW b \in Seq(Messages), NEW asked
  PROVE  SaidUpTo(a \o b, asked)[Len(a)] = Items(a, asked)
<1>1. a \o b \in Seq(Messages) /\ Len(a \o b) = Len(a) + Len(b) /\ Len(a) \in Nat /\ Len(b) \in Nat
  BY ConcatProperties
<1>2. \A i \in 1..Len(a) : (a \o b)[i] = a[i]
  BY ConcatProperties
<1>3. Len(a) <= Len(a \o b) /\ Len(a) <= Len(a)
  BY <1>1
<1>4. \A i \in 1..Len(a) :
        /\ IsResult((a \o b)[i]) <=> IsResult(a[i])
        /\ ~IsResult((a \o b)[i]) => Item((a \o b)[i], asked) = Item(a[i], asked)
  BY <1>2
<1>5. SaidUpTo(a \o b, asked)[Len(a)] = SaidUpTo(a, asked)[Len(a)]
  <2> DEFINE ms == a \o b
  <2>1. ms \in Seq(Messages) /\ Len(a) <= Len(ms) /\ Len(a) <= Len(a) /\ Len(a) \in Nat
    BY <1>1
  <2>2. \A i \in 1..Len(a) :
          /\ IsResult(ms[i]) <=> IsResult(a[i])
          /\ ~IsResult(ms[i]) => Item(ms[i], asked) = Item(a[i], asked)
    BY <1>4
  <2> HIDE DEF ms
  <2>3. SaidUpTo(ms, asked)[Len(a)] = SaidUpTo(a, asked)[Len(a)]
    BY <2>1, <2>2, SaidAlike
  <2> QED
    BY <2>3 DEF ms
<1> QED
  BY <1>5 DEF Items

\* Results add nothing to what was said.
LEMMA ItemsResults ==
  ASSUME NEW a \in Seq(Messages), NEW b \in Seq(Messages), NEW asked,
         \A i \in 1..Len(b) : IsResult(b[i])
  PROVE  Items(a \o b, asked) = Items(a, asked)
<1> DEFINE ms == a \o b
           f == SaidUpTo(ms, asked)
           Bad == {n \in Nat : n <= Len(b) /\ f[Len(a) + n] # f[Len(a)]}
<1>1. /\ ms \in Seq(Messages) /\ Len(ms) = Len(a) + Len(b) /\ Len(a) \in Nat /\ Len(b) \in Nat
      /\ \A i \in 1..Len(b) : ms[Len(a) + i] = b[i]
  BY ConcatProperties
<1>2. f[Len(a)] = Items(a, asked)
  BY SaidBefore
<1>3. SaidSoFar(f, Len(ms), ms, asked)
  BY <1>1, SaidUpToIs
<1>4. Items(a \o b, asked) = f[Len(ms)]
  BY DEF Items
<1> HIDE DEF ms, f
<1>5. Bad = {}
  <2> SUFFICES ASSUME Bad # {} PROVE FALSE
    OBVIOUS
  <2>1. Bad \in SUBSET Nat
    OBVIOUS
  <2>2. PICK n \in Bad : \A k \in Bad : n <= k
    BY <2>1, LeastNat
  <2>3. n # 0 /\ n \in Nat /\ n <= Len(b) /\ f[Len(a) + n] # f[Len(a)]
    BY <2>2, <1>1
  <2>4. /\ n - 1 \in Nat /\ n - 1 <= Len(b) /\ n \in 1..Len(b) /\ Len(a) + n \in 1..Len(ms)
        /\ Len(a) + n - 1 = Len(a) + (n - 1)
    BY <2>3, <1>1
  <2>5. f[Len(a) + (n - 1)] = f[Len(a)]
    <3>1. n - 1 \notin Bad
      <4>1. ~(n <= n - 1)
        BY <2>3
      <4> QED
        BY <2>2, <4>1
    <3> QED
      BY <3>1, <2>4
  <2>6. f[Len(a) + n] = IF IsResult(ms[Len(a) + n]) THEN f[Len(a) + n - 1]
                        ELSE Append(f[Len(a) + n - 1], Item(ms[Len(a) + n], asked))
    BY <1>3, <2>4 DEF SaidSoFar
  <2>7. IsResult(ms[Len(a) + n])
    BY <1>1, <2>4
  <2> QED
    BY <2>3, <2>4, <2>5, <2>6, <2>7
<1>6. Len(b) \in Nat /\ Len(b) <= Len(b)
  BY <1>1
<1>7. f[Len(a) + Len(b)] = f[Len(a)]
  BY <1>5, <1>6
<1> QED
  BY <1>1, <1>2, <1>4, <1>7

\* Messages that are no results add what they say.
LEMMA ItemsSpoken ==
  ASSUME NEW a \in Seq(Messages), NEW b \in Seq(Messages), NEW asked,
         \A i \in 1..Len(b) : ~IsResult(b[i])
  PROVE  Items(a \o b, asked) = Items(a, asked) \o [i \in 1..Len(b) |-> Item(b[i], asked)]
<1> DEFINE ms == a \o b
           f == SaidUpTo(ms, asked)
           said(n) == [i \in 1..n |-> Item(b[i], asked)]
           Bad == {n \in Nat : n <= Len(b) /\ f[Len(a) + n] # Items(a, asked) \o said(n)}
<1>1. /\ ms \in Seq(Messages) /\ Len(ms) = Len(a) + Len(b) /\ Len(a) \in Nat /\ Len(b) \in Nat
      /\ \A i \in 1..Len(b) : ms[Len(a) + i] = b[i]
  BY ConcatProperties
<1>2. f[Len(a)] = Items(a, asked)
  BY SaidBefore
<1>3. SaidSoFar(f, Len(ms), ms, asked)
  BY <1>1, SaidUpToIs
<1>4. Items(a \o b, asked) = f[Len(ms)]
  BY DEF Items
<1>5. Items(a, asked) \in Seq(Entries)
  BY ItemsType
<1>6. ASSUME NEW n \in Nat, n <= Len(b)
      PROVE  said(n) \in Seq(Entries) /\ Len(said(n)) = n
  <2>1. \A i \in 1..n : Item(b[i], asked) \in Entries
    <3> SUFFICES ASSUME NEW i \in 1..n PROVE Item(b[i], asked) \in Entries
      OBVIOUS
    <3>1. b[i] \in Messages
      BY <1>6, <1>1
    <3> QED
      BY <3>1, ItemType
  <2> QED
    BY <2>1, <1>6
<1> HIDE DEF ms, f
<1>7. Bad = {}
  <2> SUFFICES ASSUME Bad # {} PROVE FALSE
    OBVIOUS
  <2>1. Bad \in SUBSET Nat
    OBVIOUS
  <2>2. PICK n \in Bad : \A k \in Bad : n <= k
    BY <2>1, LeastNat
  <2>3. n # 0
    <3>1. said(0) = <<>>
      OBVIOUS
    <3>2. Items(a, asked) \o <<>> = Items(a, asked)
      BY <1>5
    <3>3. Len(a) + 0 = Len(a)
      BY <1>1
    <3> QED
      BY <2>2, <1>2, <3>1, <3>2, <3>3
  <2>a. n \in Nat /\ n <= Len(b) /\ f[Len(a) + n] # Items(a, asked) \o said(n)
    BY <2>2
  <2>4. /\ n \in Nat /\ n <= Len(b)
        /\ n - 1 \in Nat /\ n - 1 <= Len(b) /\ n \in 1..Len(b) /\ Len(a) + n \in 1..Len(ms)
        /\ Len(a) + n - 1 = Len(a) + (n - 1)
    BY <2>a, <2>3, <1>1
  <2>5. f[Len(a) + (n - 1)] = Items(a, asked) \o said(n - 1)
    <3>1. n - 1 \notin Bad
      <4>1. ~(n <= n - 1)
        BY <2>4
      <4> HIDE DEF Bad
      <4> QED
        BY <2>2, <4>1
    <3> HIDE DEF said
    <3> QED
      BY <3>1, <2>4
  <2>6. f[Len(a) + n] = IF IsResult(ms[Len(a) + n]) THEN f[Len(a) + n - 1]
                        ELSE Append(f[Len(a) + n - 1], Item(ms[Len(a) + n], asked))
    BY <1>3, <2>4 DEF SaidSoFar
  <2>7. f[Len(a) + n] = Append(Items(a, asked) \o said(n - 1), Item(b[n], asked))
    BY <1>1, <2>4, <2>5, <2>6
  <2>8. Item(b[n], asked) \in Entries
    <3>1. b[n] \in Messages
      BY <2>4
    <3> QED
      BY <3>1, ItemType
  <2>9. Append(said(n - 1), Item(b[n], asked)) = said(n)
    <3>1. said(n - 1) \in Seq(Entries) /\ Len(said(n - 1)) = n - 1
      BY <1>6, <2>4
    <3>2. said(n) \in Seq(Entries) /\ Len(said(n)) = n
      BY <1>6, <2>4
    <3>3. \A i \in 1..n : Append(said(n - 1), Item(b[n], asked))[i] = said(n)[i]
      BY <3>1, <3>2, <2>4, <2>8
    <3>4. Append(said(n - 1), Item(b[n], asked)) \in Seq(Entries)
      BY <3>1, <2>8
    <3>5. Len(Append(said(n - 1), Item(b[n], asked))) = n
      BY <3>1, <2>4, <2>8
    <3> HIDE DEF said
    <3> QED
      BY <3>2, <3>3, <3>4, <3>5, SeqEqual
  <2>10. Append(Items(a, asked) \o said(n - 1), Item(b[n], asked))
           = Items(a, asked) \o Append(said(n - 1), Item(b[n], asked))
    <3>1. said(n - 1) \in Seq(Entries)
      BY <1>6, <2>4
    <3> HIDE DEF said
    <3> QED
      BY <3>1, <1>5, <2>8, EntryThen
  <2> QED
    BY <2>a, <2>7, <2>9, <2>10
<1>8. Len(b) \in Nat /\ Len(b) <= Len(b)
  BY <1>1
<1>9. f[Len(a) + Len(b)] = Items(a, asked) \o said(Len(b))
  BY <1>7, <1>8
<1> QED
  BY <1>1, <1>4, <1>9

\* A message that is no result is one item more.
LEMMA ItemsOne ==
  ASSUME NEW ms \in Seq(Messages), NEW m \in Messages, NEW asked, ~IsResult(m)
  PROVE  Items(Append(ms, m), asked) = Append(Items(ms, asked), Item(m, asked))
<1> DEFINE one == <<m>>
<1>1. one \in Seq(Messages) /\ Len(one) = 1 /\ one[1] = m
  OBVIOUS
<1>2. \A i \in 1..Len(one) : ~IsResult(one[i])
  BY <1>1
<1>3. Append(ms, m) = ms \o one
  BY AppendIsConcat
<1>4. Item(m, asked) \in Entries /\ Items(ms, asked) \in Seq(Entries)
  BY ItemType, ItemsType
<1> HIDE DEF one
<1>5. Items(ms \o one, asked) = Items(ms, asked) \o [i \in 1..Len(one) |-> Item(one[i], asked)]
  BY <1>1, <1>2, ItemsSpoken
<1>6. [i \in 1..Len(one) |-> Item(one[i], asked)] = <<Item(m, asked)>>
  BY <1>1
<1>7. Append(Items(ms, asked), Item(m, asked)) = Items(ms, asked) \o <<Item(m, asked)>>
  BY <1>4, AppendIsConcat
<1> QED
  BY <1>3, <1>5, <1>6, <1>7

\* Whether the model has to speak is decided by what was said last.
LEMMA LastSaid ==
  ASSUME NEW ms \in Seq(Messages), NEW asked, NEW j \in 1..Len(ms), ~IsResult(ms[j]),
         \A i \in j + 1..Len(ms) : IsResult(ms[i])
  PROVE  AsConversation!Asked(Items(ms, asked))
           <=> ms[j].kind = "user" \/ (ms[j].kind = "assistant" /\ asked[ms[j].n] # <<>>)
<1> DEFINE f == SaidUpTo(ms, asked)
           Bad == {n \in Nat : j <= n /\ n <= Len(ms) /\ f[n] # f[j]}
<1>1. SaidSoFar(f, Len(ms), ms, asked)
  BY SaidUpToIs
<1>2. Items(ms, asked) = f[Len(ms)]
  BY DEF Items
<1> HIDE DEF f
<1>3. Bad = {}
  <2> SUFFICES ASSUME Bad # {} PROVE FALSE
    OBVIOUS
  <2>1. Bad \in SUBSET Nat
    OBVIOUS
  <2>2. PICK n \in Bad : \A k \in Bad : n <= k
    BY <2>1, LeastNat
  <2>3. n # j /\ n \in Nat /\ j <= n /\ n <= Len(ms) /\ f[n] # f[j]
    BY <2>2
  <2>4. /\ n - 1 \in Nat /\ j <= n - 1 /\ n - 1 <= Len(ms) /\ n \in 1..Len(ms) /\ n \in j + 1..Len(ms)
        /\ ~(n <= n - 1)
    BY <2>3
  <2>5. n - 1 \notin Bad
    <3> HIDE DEF Bad
    <3> QED
      BY <2>2, <2>4
  <2>6. f[n - 1] = f[j]
    BY <2>5, <2>4
  <2>7. f[n] = IF IsResult(ms[n]) THEN f[n - 1] ELSE Append(f[n - 1], Item(ms[n], asked))
    BY <1>1, <2>4 DEF SaidSoFar
  <2> QED
    BY <2>3, <2>4, <2>6, <2>7
<1>4. Items(ms, asked) = f[j]
  BY <1>2, <1>3
<1>5. f[j] = Append(f[j - 1], Item(ms[j], asked))
  BY <1>1 DEF SaidSoFar
<1>6. f[j - 1] \in Seq(Entries)
  BY <1>1 DEF SaidSoFar
<1>7. ms[j] \in Messages
  OBVIOUS
<1>8. Item(ms[j], asked) \in Entries
  BY <1>7, ItemType
<1>9. /\ Items(ms, asked) # <<>>
      /\ Items(ms, asked)[Len(Items(ms, asked))] = Item(ms[j], asked)
  <2>1. /\ Append(f[j - 1], Item(ms[j], asked)) # <<>>
        /\ Len(Append(f[j - 1], Item(ms[j], asked))) = Len(f[j - 1]) + 1
        /\ Append(f[j - 1], Item(ms[j], asked))[Len(f[j - 1]) + 1] = Item(ms[j], asked)
    BY <1>6, <1>8, AppendProperties
  <2> QED
    BY <1>4, <1>5, <2>1
<1>10. /\ Item(ms[j], asked).kind = ms[j].kind
       /\ Item(ms[j], asked).asks <=> ms[j].kind = "assistant" /\ asked[ms[j].n] # <<>>
  BY Zenon DEF Item
<1> QED
  BY <1>9, <1>10, Zenon DEF AsConversation!Asked

\* When the user spoke last, the model has to speak.
LEMMA AskedUsers ==
  ASSUME NEW a \in Seq(Messages), NEW b \in Seq(Messages), NEW asked, FromUser(b), b # <<>>
  PROVE  AsConversation!Asked(Items(a \o b, asked))
<1> DEFINE ms == a \o b
<1>1. /\ ms \in Seq(Messages) /\ Len(ms) = Len(a) + Len(b) /\ Len(a) \in Nat /\ Len(b) \in Nat
      /\ \A i \in 1..Len(b) : ms[Len(a) + i] = b[i]
  BY ConcatProperties
<1>2. Len(b) \in 1..Len(b) /\ Len(ms) \in 1..Len(ms)
  BY <1>1, EmptySeq
<1>3. ms[Len(ms)] = b[Len(b)]
  BY <1>1, <1>2
<1>4. b[Len(b)].kind = "user"
  BY <1>2 DEF FromUser
<1> HIDE DEF ms
<1>5. ms[Len(ms)].kind = "user" /\ ~IsResult(ms[Len(ms)])
  BY <1>3, <1>4 DEF IsResult
<1>6. \A i \in Len(ms) + 1..Len(ms) : IsResult(ms[i])
  BY <1>1
<1>7. AsConversation!Asked(Items(ms, asked))
  BY <1>1, <1>2, <1>5, <1>6, LastSaid
<1> QED
  BY <1>7 DEF ms

\* When the model spoke last, it has to if it asked for tools.
LEMMA AskedReply ==
  ASSUME NEW a \in Seq(Messages), NEW m \in Messages, NEW asked, m.kind \in {"assistant", "failed"}
  PROVE  AsConversation!Asked(Items(Append(a, m), asked)) <=> m.kind = "assistant" /\ asked[m.n] # <<>>
<1> DEFINE ms == Append(a, m)
<1>1. ms \in Seq(Messages) /\ Len(ms) = Len(a) + 1 /\ ms[Len(a) + 1] = m /\ Len(a) \in Nat
  BY AppendProperties
<1> HIDE DEF ms
<1>2. Len(ms) \in 1..Len(ms) /\ ms[Len(ms)] = m /\ ~IsResult(ms[Len(ms)]) /\ ms[Len(ms)].kind # "user"
  BY <1>1 DEF IsResult
<1>3. \A i \in Len(ms) + 1..Len(ms) : IsResult(ms[i])
  BY <1>1
<1>4. AsConversation!Asked(Items(ms, asked))
        <=> ms[Len(ms)].kind = "user"
            \/ (ms[Len(ms)].kind = "assistant" /\ asked[ms[Len(ms)].n] # <<>>)
  BY <1>1, <1>2, <1>3, LastSaid
<1> QED
  BY <1>2, <1>4 DEF ms

-----------------------------------------------------------------------------
(* What is taken from the queues *)

\* The numbers of the messages of a queue, at their places.
LEMMA NumbersOf ==
  ASSUME NEW queue \in Seq(Messages)
  PROVE  /\ Numbers(queue) \in Seq(Nat) /\ Len(Numbers(queue)) = Len(queue)
         /\ \A i \in 1..Len(queue) : Numbers(queue)[i] = queue[i].n
<1>1. DOMAIN queue = 1..Len(queue) /\ Len(queue) \in Nat
  OBVIOUS
<1>2. \A m \in Messages : m.n \in Nat
  BY DEF Messages
<1>3. \A i \in 1..Len(queue) : queue[i] \in Messages
  OBVIOUS
<1>4. \A i \in 1..Len(queue) : queue[i].n \in Nat
  BY <1>2, <1>3
<1>5. Numbers(queue) = [i \in 1..Len(queue) |-> queue[i].n]
  BY <1>1 DEF Numbers
<1> QED
  BY <1>1, <1>4, <1>5

\* What a poll takes is the beginning of a queue, what it leaves the rest.
LEMMA TakenNumbers ==
  ASSUME NEW queue \in Seq(Messages), NEW mode
  PROVE  LET k == Len(Taken(queue, mode))
             ns == Numbers(queue)
         IN  /\ k \in 0..Len(ns)
             /\ Numbers(Taken(queue, mode)) = SubSeq(ns, 1, k)
             /\ Numbers(Left(queue, mode)) = SubSeq(ns, k + 1, Len(ns))
             /\ queue # <<>> => k > 0
<1> DEFINE k == Len(Taken(queue, mode))
           ns == Numbers(queue)
<1>1. Len(queue) \in Nat /\ DOMAIN queue = 1..Len(queue)
  OBVIOUS
<1>3. ns \in Seq(Nat) /\ Len(ns) = Len(queue) /\ \A i \in 1..Len(queue) : ns[i] = queue[i].n
  BY NumbersOf
<1>4. CASE mode = "all" \/ queue = <<>>
  <2>1. Taken(queue, mode) = queue /\ Left(queue, mode) = <<>>
    BY <1>4 DEF Taken, Left
  <2>2. Numbers(<<>>) = <<>>
    BY DEF Numbers
  <2>3. SubSeq(ns, 1, Len(ns)) = ns
    BY <1>3, SubSeqFull
  <2>4. SubSeq(ns, Len(ns) + 1, Len(ns)) = <<>>
    BY <1>1, <1>3, SubSeqEmpty
  <2>5. queue # <<>> => Len(queue) > 0
    BY EmptySeq
  <2> HIDE DEF ns
  <2>6. k = Len(ns) /\ k \in 0..Len(ns)
    BY <1>1, <1>3, <2>1
  <2>7. Numbers(Taken(queue, mode)) = ns
    BY <2>1 DEF ns
  <2> QED
    BY <1>3, <2>1, <2>2, <2>3, <2>4, <2>5, <2>6, <2>7 DEF ns
<1>5. CASE ~(mode = "all" \/ queue = <<>>)
  <2>1. Taken(queue, mode) = <<Head(queue)>> /\ Left(queue, mode) = Tail(queue)
    BY <1>5 DEF Taken, Left
  <2>2. /\ Head(queue) = queue[1] /\ Tail(queue) \in Seq(Messages)
        /\ Len(Tail(queue)) = Len(queue) - 1
        /\ \A i \in 1..Len(Tail(queue)) : Tail(queue)[i] = queue[i + 1]
    BY <1>5, HeadTailProperties
  <2>3. Len(queue) >= 1
    BY <1>5, EmptySeq
  <2>4. k = 1
    BY <2>1
  <2>5. Numbers(<<Head(queue)>>) = <<queue[1].n>>
    BY <2>2 DEF Numbers
  <2>6. SubSeq(ns, 1, 1) = <<queue[1].n>>
    <3>1. \A i \in 1..1 : ns[i] \in Nat
      BY <1>3, <2>3
    <3>2. /\ SubSeq(ns, 1, 1) \in Seq(Nat) /\ Len(SubSeq(ns, 1, 1)) = 1
          /\ SubSeq(ns, 1, 1)[1] = ns[1]
      BY <1>3, <2>3
    <3>3. ns[1] = queue[1].n
      BY <1>3, <2>3
    <3> HIDE DEF ns
    <3> DEFINE s == SubSeq(ns, 1, 1)
               x == queue[1].n
    <3>4. s \in Seq(Nat) /\ Len(s) = 1 /\ s[1] = x /\ x \in Nat
      BY <3>2, <3>3
    <3> HIDE DEF s, x
    <3>5. <<x>> \in Seq(Nat) /\ Len(<<x>>) = 1 /\ <<x>>[1] = x
      BY <3>4
    <3>6. \A i \in 1..1 : s[i] = <<x>>[i]
      BY <3>4, <3>5
    <3>7. s = <<x>>
      BY <3>4, <3>5, <3>6, SeqEqual
    <3> QED
      BY <3>7 DEF s, x
  <2>7. Numbers(Tail(queue)) = SubSeq(ns, 2, Len(ns))
    <3>1. Tail(ns) = SubSeq(ns, 2, Len(ns))
      <4>1. ns # <<>>
        BY <1>3, <2>3
      <4> QED
        BY <4>1, <1>3, TailIsSubSeq
    <3>2. /\ Tail(ns) \in Seq(Nat) /\ Len(Tail(ns)) = Len(ns) - 1
          /\ \A i \in 1..Len(Tail(ns)) : Tail(ns)[i] = ns[i + 1]
      <4>1. ns # <<>>
        BY <1>3, <2>3
      <4> QED
        BY <4>1, <1>3, HeadTailProperties
    <3>3. /\ Numbers(Tail(queue)) \in Seq(Nat)
          /\ Len(Numbers(Tail(queue))) = Len(Tail(queue))
          /\ \A i \in 1..Len(Tail(queue)) : Numbers(Tail(queue))[i] = Tail(queue)[i].n
      BY <2>2, NumbersOf
    <3>4. \A i \in 1..Len(Tail(ns)) : Tail(ns)[i] = Numbers(Tail(queue))[i]
      <4> SUFFICES ASSUME NEW i \in 1..Len(Tail(ns)) PROVE Tail(ns)[i] = Numbers(Tail(queue))[i]
        OBVIOUS
      <4>1. i \in 1..Len(Tail(queue)) /\ i + 1 \in 1..Len(queue)
        BY <1>1, <1>3, <2>2, <3>2
      <4>2. ns[i + 1] = queue[i + 1].n /\ Tail(queue)[i] = queue[i + 1]
        BY <1>3, <2>2, <4>1
      <4> HIDE DEF ns
      <4> QED
        BY <3>2, <3>3, <4>1, <4>2
    <3>5. Len(Tail(ns)) = Len(Numbers(Tail(queue)))
      BY <1>3, <2>2, <3>2, <3>3
    <3> HIDE DEF ns
    <3> QED
      BY <3>1, <3>2, <3>3, <3>4, <3>5, SeqEqual
  <2>8. k \in 0..Len(ns)
    BY <1>1, <1>3, <2>3, <2>4
  <2> HIDE DEF ns, k
  <2>9. Numbers(Taken(queue, mode)) = SubSeq(ns, 1, k)
    BY <2>1, <2>4, <2>5, <2>6
  <2>10. Numbers(Left(queue, mode)) = SubSeq(ns, k + 1, Len(ns))
    BY <2>1, <2>4, <2>7
  <2> QED
    BY <2>4, <2>8, <2>9, <2>10 DEF ns, k
<1> QED
  BY <1>4, <1>5

\* The messages of the user as the abstract conversation has them.
LEMMA UserItems ==
  ASSUME NEW b \in Seq(Messages), NEW asked, FromUser(b)
  PROVE  [i \in 1..Len(b) |-> Item(b[i], asked)] = AsConversation!SaidAll(Numbers(b))
<1>1. DOMAIN b = 1..Len(b) /\ Len(b) \in Nat
  OBVIOUS
<1>2. /\ DOMAIN Numbers(b) = 1..Len(b)
      /\ \A i \in 1..Len(b) : Numbers(b)[i] = b[i].n
  BY <1>1 DEF Numbers
<1>3. ASSUME NEW i \in 1..Len(b)
      PROVE  Item(b[i], asked) = AsConversation!Said(Numbers(b)[i])
  <2>1. b[i].kind = "user"
    BY <1>1 DEF FromUser
  <2>2. (b[i].kind = "assistant" /\ asked[b[i].n] # <<>>) = FALSE
    BY <2>1
  <2>3. (IF b[i].kind = "user" THEN b[i].n ELSE 0) = Numbers(b)[i]
    BY <2>1, <1>2
  <2> QED
    BY <2>1, <2>2, <2>3, Zenon DEF Item, AsConversation!Said
<1>4. AsConversation!SaidAll(Numbers(b)) = [i \in 1..Len(b) |-> AsConversation!Said(Numbers(b)[i])]
  BY <1>2 DEF AsConversation!SaidAll
<1> QED
  BY <1>3, <1>4

\* A message of the user is no result.
LEMMA UsersNoResults ==
  ASSUME NEW b \in Seq(Messages), FromUser(b)
  PROVE  \A i \in 1..Len(b) : ~IsResult(b[i])
BY DEF FromUser, IsResult

\* A poll brings the first messages of a queue into the conversation.
LEMMA PollSays ==
  ASSUME NEW a \in Seq(Messages), NEW queue \in Seq(Messages), NEW mode, NEW asked, FromUser(queue)
  PROVE  Items(a \o Taken(queue, mode), asked)
           = Items(a, asked)
             \o AsConversation!SaidAll(SubSeq(Numbers(queue), 1, Len(Taken(queue, mode))))
<1> DEFINE b == Taken(queue, mode)
<1>1. b \in Seq(Messages) /\ FromUser(b)
  BY TakenLeftType, TakenLeftKind
<1>2. Numbers(b) = SubSeq(Numbers(queue), 1, Len(b))
  BY TakenNumbers
<1> HIDE DEF b
<1>3. \A i \in 1..Len(b) : ~IsResult(b[i])
  BY <1>1, UsersNoResults
<1>4. Items(a \o b, asked) = Items(a, asked) \o [i \in 1..Len(b) |-> Item(b[i], asked)]
  BY <1>1, <1>3, ItemsSpoken
<1>5. [i \in 1..Len(b) |-> Item(b[i], asked)] = AsConversation!SaidAll(Numbers(b))
  BY <1>1, UserItems
<1>6. Items(a \o b, asked) = Items(a, asked) \o AsConversation!SaidAll(SubSeq(Numbers(queue), 1, Len(b)))
  BY <1>2, <1>4, <1>5
<1> QED
  BY <1>6 DEF b

-----------------------------------------------------------------------------
(* Steps of the conversation *)

Maps == AsConversation!ConvNext \/ UNCHANGED <<via, Waiting, Talk, pc # "idle">>

\* The loop and its consumer work: nothing is said.
LEMMA MapsNothing ==
  ASSUME via' = via, steeringQueue' = steeringQueue, followUpQueue' = followUpQueue,
         Talk' = Talk, pc # "idle" <=> pc' # "idle"
  PROVE  Maps
<1>1. Waiting' = Waiting
  BY DEF Waiting, Numbers
<1>2. (pc # "idle")' = (pc # "idle")
  OBVIOUS
<1> QED
  BY <1>1, <1>2 DEF Maps

\* The first messages leave their queue.
LEMMA LeavesSteering ==
  ASSUME steeringQueue \in Seq(Messages), followUpQueue' = followUpQueue,
         steeringQueue' = Left(steeringQueue, SteeringMode),
         NEW k, k = Len(Taken(steeringQueue, SteeringMode))
  PROVE  /\ k \in 0..Len(Waiting["steer"])
         /\ Waiting["steer"] = Numbers(steeringQueue)
         /\ Waiting' = [Waiting EXCEPT !["steer"] = SubSeq(@, k + 1, Len(@))]
<1>1. Waiting["steer"] = Numbers(steeringQueue)
  BY DEF Waiting
<1>2. /\ k \in 0..Len(Numbers(steeringQueue))
      /\ Numbers(steeringQueue') = SubSeq(Numbers(steeringQueue), k + 1, Len(Numbers(steeringQueue)))
  BY TakenNumbers
<1>3. Waiting' = [q \in {"steer", "followUp"} |->
                    IF q = "steer" THEN Numbers(steeringQueue') ELSE Numbers(followUpQueue)]
  BY DEF Waiting, Numbers
<1>4. Waiting = [q \in {"steer", "followUp"} |->
                   IF q = "steer" THEN Numbers(steeringQueue) ELSE Numbers(followUpQueue)]
  BY DEF Waiting
<1> QED
  BY <1>1, <1>2, <1>3, <1>4

\* The same of the queue of follow-ups.
LEMMA LeavesFollowUps ==
  ASSUME followUpQueue \in Seq(Messages), steeringQueue' = steeringQueue,
         followUpQueue' = Left(followUpQueue, FollowUpMode),
         NEW k, k = Len(Taken(followUpQueue, FollowUpMode))
  PROVE  /\ k \in 0..Len(Waiting["followUp"])
         /\ Waiting["followUp"] = Numbers(followUpQueue)
         /\ Waiting' = [Waiting EXCEPT !["followUp"] = SubSeq(@, k + 1, Len(@))]
<1>1. Waiting["followUp"] = Numbers(followUpQueue)
  BY DEF Waiting
<1>2. /\ k \in 0..Len(Numbers(followUpQueue))
      /\ Numbers(followUpQueue') = SubSeq(Numbers(followUpQueue), k + 1, Len(Numbers(followUpQueue)))
  BY TakenNumbers
<1>3. Waiting' = [q \in {"steer", "followUp"} |->
                    IF q = "steer" THEN Numbers(steeringQueue) ELSE Numbers(followUpQueue')]
  BY DEF Waiting, Numbers
<1>4. Waiting = [q \in {"steer", "followUp"} |->
                   IF q = "steer" THEN Numbers(steeringQueue) ELSE Numbers(followUpQueue)]
  BY DEF Waiting
<1> QED
  BY <1>1, <1>2, <1>3, <1>4

\* The poll of the steering queue in a run.
LEMMA MapsSteering ==
  ASSUME steeringQueue \in Seq(Messages), FromUser(steeringQueue), DequeueSteering,
         followUpQueue' = followUpQueue, via' = via, pc # "idle", pc' # "idle",
         NEW said \in Seq(Messages), Talk = Items(said, called),
         Talk' = Items(said \o pending', called)
  PROVE  Maps
<1> DEFINE k == Len(Taken(steeringQueue, SteeringMode))
<1>1. /\ steeringQueue' = Left(steeringQueue, SteeringMode)
      /\ pending' = Taken(steeringQueue, SteeringMode)
  BY DEF DequeueSteering
<1>2. /\ k \in 0..Len(Waiting["steer"])
      /\ Waiting["steer"] = Numbers(steeringQueue)
      /\ Waiting' = [Waiting EXCEPT !["steer"] = SubSeq(@, k + 1, Len(@))]
  BY <1>1, LeavesSteering
<1>3. Items(said \o Taken(steeringQueue, SteeringMode), called)
        = Items(said, called) \o AsConversation!SaidAll(SubSeq(Numbers(steeringQueue), 1, k))
  <2>1. FromUser(steeringQueue) /\ steeringQueue \in Seq(Messages) /\ said \in Seq(Messages)
    OBVIOUS
  <2>2. \A a, queue \in Seq(Messages) : \A mode, asked : FromUser(queue) =>
          Items(a \o Taken(queue, mode), asked)
            = Items(a, asked)
              \o AsConversation!SaidAll(SubSeq(Numbers(queue), 1, Len(Taken(queue, mode))))
    BY PollSays
  <2>3. \A mode, asked : 
          Items(said \o Taken(steeringQueue, mode), asked)
            = Items(said, asked)
              \o AsConversation!SaidAll(SubSeq(Numbers(steeringQueue), 1, Len(Taken(steeringQueue, mode))))
    BY <2>1, <2>2
  <2>4. \A asked : 
          Items(said \o Taken(steeringQueue, SteeringMode), asked)
            = Items(said, asked)
              \o AsConversation!SaidAll(SubSeq(Numbers(steeringQueue), 1, Len(Taken(steeringQueue, SteeringMode))))
    BY <2>3
  <2> QED
    BY <2>4
<1> HIDE DEF k
<1>4. Talk' = Talk \o AsConversation!SaidAll(SubSeq(Waiting["steer"], 1, k))
  BY <1>1, <1>2, <1>3
<1>5. (pc # "idle")' = (pc # "idle")
  OBVIOUS
<1>6. AsConversation!DeliverSteering(k)
  BY <1>2, <1>4, <1>5 DEF AsConversation!DeliverSteering, AsConversation!Deliver
<1> QED
  BY <1>2, <1>6 DEF Maps, AsConversation!ConvNext

-----------------------------------------------------------------------------
(* What the user does *)

\* The conversation between two runs is the messages of the agent.
LEMMA TalkIdle == pc = "idle" => Talk = Items(messages, called)
BY DEF Talk

\* In a run it is what the loop works on.
LEMMA TalkOpen == pc # "idle" => Talk = Items(context \o pending, called)
BY DEF Talk

\* The same of the state after a step, within a run
LEMMA TalkNextOpen == pc' # "idle" => Talk' = Items(context' \o pending', called')
BY SMTT(20), ZenonT(20) DEF Talk, Items, SaidUpTo, Item, IsResult

\* and between two runs.
LEMMA TalkNextIdle == pc' = "idle" => Talk' = Items(messages', called')
BY DEF Talk, Items, SaidUpTo, Item, IsResult

\* A step that changes none of these changes nothing of the conversation.
LEMMA TalkKept ==
  ASSUME UNCHANGED <<messages, context, pending, called, pc>>
  PROVE  Talk' = Talk
BY DEF Talk, Items, SaidUpTo, Item, IsResult

\* A message that is sent waits behind the others.
LEMMA NumbersAppend ==
  ASSUME NEW queue \in Seq(Messages), NEW m \in Messages
  PROVE  Numbers(Append(queue, m)) = Append(Numbers(queue), m.n)
<1> DEFINE longer == Append(queue, m)
           ns == Numbers(queue)
<1>1. /\ longer \in Seq(Messages) /\ Len(longer) = Len(queue) + 1 /\ Len(queue) \in Nat
      /\ \A i \in 1..Len(queue) : longer[i] = queue[i]
      /\ longer[Len(queue) + 1] = m
  BY AppendProperties
<1>2. ns \in Seq(Nat) /\ Len(ns) = Len(queue) /\ \A i \in 1..Len(queue) : ns[i] = queue[i].n
  BY NumbersOf
<1> HIDE DEF longer, ns
<1>3. /\ Numbers(longer) \in Seq(Nat) /\ Len(Numbers(longer)) = Len(longer)
      /\ \A i \in 1..Len(longer) : Numbers(longer)[i] = longer[i].n
  BY <1>1, NumbersOf
<1>4. m.n \in Nat
  BY DEF Messages
<1>5. /\ Append(ns, m.n) \in Seq(Nat) /\ Len(Append(ns, m.n)) = Len(ns) + 1
      /\ \A i \in 1..Len(ns) : Append(ns, m.n)[i] = ns[i]
      /\ Append(ns, m.n)[Len(ns) + 1] = m.n
  BY <1>2, <1>4, AppendProperties
<1>6. ASSUME NEW i \in 1..Len(Numbers(longer)) PROVE Numbers(longer)[i] = Append(ns, m.n)[i]
  <2>1. CASE i \in 1..Len(queue)
    <3>1. Numbers(longer)[i] = longer[i].n
      BY <1>3
    <3>2. longer[i].n = queue[i].n /\ ns[i] = queue[i].n
      BY <2>1, <1>1, <1>2
    <3> QED
      BY <2>1, <3>1, <3>2, <1>2, <1>5
  <2>2. CASE i = Len(queue) + 1
    <3>1. Numbers(longer)[i] = longer[i].n
      BY <1>3
    <3> QED
      BY <2>2, <3>1, <1>1, <1>2, <1>5
  <2>3. i \in 1..Len(queue) + 1
    BY <1>1, <1>3
  <2>4. i \in 1..Len(queue) \/ i = Len(queue) + 1
    BY <1>1, <2>3
  <2> QED
    BY <2>1, <2>2, <2>4
<1>7. Len(Numbers(longer)) = Len(Append(ns, m.n))
  BY <1>1, <1>2, <1>3, <1>5
<1>8. Numbers(longer) = Append(ns, m.n)
  BY <1>3, <1>5, <1>6, <1>7, SeqEqual
<1> QED
  BY <1>8 DEF longer, ns

\* The number of the next message of the user.
LEMMA NextUserNumber == via \in Seq({"prompt", "steer", "followUp"}) =>
  NextUser \in Messages /\ NextUser.n = Len(via) + 1 /\ NextUser.kind = "user"
<1> SUFFICES ASSUME via \in Seq({"prompt", "steer", "followUp"})
             PROVE  NextUser \in Messages /\ NextUser.n = Len(via) + 1 /\ NextUser.kind = "user"
  OBVIOUS
<1>1. Len(via) + 1 \in Nat
  OBVIOUS
<1> QED
  BY <1>1 DEF NextUser, Message, Messages, MessageKinds

\* steer() and followUp() are Enqueue.
LEMMA MapsEnqueue ==
  ASSUME IInv, Steer \/ FollowUp
  PROVE  Maps
<1>1. /\ steeringQueue \in Seq(Messages) /\ followUpQueue \in Seq(Messages)
      /\ via \in Seq({"prompt", "steer", "followUp"})
  BY DEF IInv, TypeOK
<1>2. UNCHANGED <<messages, context, pending, called, pc>>
  BY DEF Steer, FollowUp, agentVars, turnVars
<1>3. Talk' = Talk
  BY <1>2, TalkKept
<1>4. (pc # "idle")' = (pc # "idle")
  BY <1>2
<1>5. NextUser \in Messages /\ NextUser.n = Len(via) + 1
  BY <1>1, NextUserNumber
<1>6. CASE Steer
  <2>1. /\ via' = Append(via, "steer") /\ followUpQueue' = followUpQueue
        /\ steeringQueue' = Append(steeringQueue, NextUser)
    BY <1>6 DEF Steer
  <2>2. Numbers(steeringQueue') = Append(Numbers(steeringQueue), Len(via) + 1)
    BY <1>1, <1>5, <2>1, NumbersAppend
  <2>3. Waiting' = [q \in {"steer", "followUp"} |->
                      IF q = "steer" THEN Numbers(steeringQueue') ELSE Numbers(followUpQueue)]
    BY <2>1 DEF Waiting, Numbers
  <2>4. Waiting = [q \in {"steer", "followUp"} |->
                     IF q = "steer" THEN Numbers(steeringQueue) ELSE Numbers(followUpQueue)]
    BY DEF Waiting
  <2>5. Waiting' = [Waiting EXCEPT !["steer"] = Append(@, Len(via) + 1)]
    BY <2>2, <2>3, <2>4
  <2>6. AsConversation!Enqueue("steer")
    BY <2>1, <2>5, <1>3, <1>4 DEF AsConversation!Enqueue
  <2> QED
    BY <2>6 DEF Maps, AsConversation!ConvNext, AsConversation!Queues
<1>7. CASE FollowUp
  <2>1. /\ via' = Append(via, "followUp") /\ steeringQueue' = steeringQueue
        /\ followUpQueue' = Append(followUpQueue, NextUser)
    BY <1>7 DEF FollowUp
  <2>2. Numbers(followUpQueue') = Append(Numbers(followUpQueue), Len(via) + 1)
    BY <1>1, <1>5, <2>1, NumbersAppend
  <2>3. Waiting' = [q \in {"steer", "followUp"} |->
                      IF q = "steer" THEN Numbers(steeringQueue) ELSE Numbers(followUpQueue')]
    BY <2>1 DEF Waiting, Numbers
  <2>4. Waiting = [q \in {"steer", "followUp"} |->
                     IF q = "steer" THEN Numbers(steeringQueue) ELSE Numbers(followUpQueue)]
    BY DEF Waiting
  <2>5. Waiting' = [Waiting EXCEPT !["followUp"] = Append(@, Len(via) + 1)]
    BY <2>2, <2>3, <2>4
  <2>6. AsConversation!Enqueue("followUp")
    BY <2>1, <2>5, <1>3, <1>4 DEF AsConversation!Enqueue
  <2> QED
    BY <2>6 DEF Maps, AsConversation!ConvNext, AsConversation!Queues
<1> QED
  BY <1>6, <1>7

\* clearAllQueues() is Clear.
LEMMA MapsClear ==
  ASSUME ClearAllQueues
  PROVE  Maps
<1>1. UNCHANGED <<messages, context, pending, called, pc, via>>
  BY DEF ClearAllQueues, agentVars, turnVars
<1>2. Talk' = Talk /\ (pc # "idle")' = (pc # "idle")
  BY <1>1, TalkKept
<1>3. steeringQueue' = <<>> /\ followUpQueue' = <<>>
  BY DEF ClearAllQueues
<1>4. Numbers(<<>>) = <<>>
  BY DEF Numbers
<1>5. Waiting' = [q \in {"steer", "followUp"} |->
                    Numbers(IF q = "steer" THEN steeringQueue' ELSE followUpQueue')]
  BY DEF Waiting, Numbers
<1>6. Waiting' = [q \in {"steer", "followUp"} |-> <<>>]
  BY <1>3, <1>4, <1>5
<1>7. AsConversation!Clear
  BY <1>1, <1>2, <1>6 DEF AsConversation!Clear, AsConversation!Queues
<1> QED
  BY <1>7 DEF Maps, AsConversation!ConvNext

-----------------------------------------------------------------------------
(* Runs begin *)

\* What a poll takes, as PollSays has it, for the two queues.
LEMMA SteeringSays ==
  ASSUME IInv, QueuesInv, NEW a \in Seq(Messages), NEW asked
  PROVE  /\ steeringQueue \in Seq(Messages) /\ FromUser(steeringQueue)
         /\ Items(a \o Taken(steeringQueue, SteeringMode), asked)
              = Items(a, asked)
                \o AsConversation!SaidAll(SubSeq(Numbers(steeringQueue), 1,
                                                 Len(Taken(steeringQueue, SteeringMode))))
<1>1. steeringQueue \in Seq(Messages) /\ FromUser(steeringQueue)
  BY DEF IInv, TypeOK, QueuesInv, FromSteering, FromUser
<1>2. \A mode :
        Items(a \o Taken(steeringQueue, mode), asked)
          = Items(a, asked)
            \o AsConversation!SaidAll(SubSeq(Numbers(steeringQueue), 1, Len(Taken(steeringQueue, mode))))
  BY <1>1, PollSays
<1> QED
  BY <1>1, <1>2

\* The same of the queue of follow-ups.
LEMMA FollowUpsSay ==
  ASSUME IInv, QueuesInv, NEW a \in Seq(Messages), NEW asked
  PROVE  /\ followUpQueue \in Seq(Messages) /\ FromUser(followUpQueue)
         /\ Items(a \o Taken(followUpQueue, FollowUpMode), asked)
              = Items(a, asked)
                \o AsConversation!SaidAll(SubSeq(Numbers(followUpQueue), 1,
                                                 Len(Taken(followUpQueue, FollowUpMode))))
<1>1. followUpQueue \in Seq(Messages) /\ FromUser(followUpQueue)
  BY DEF IInv, TypeOK, QueuesInv
<1>2. \A mode :
        Items(a \o Taken(followUpQueue, mode), asked)
          = Items(a, asked)
            \o AsConversation!SaidAll(SubSeq(Numbers(followUpQueue), 1, Len(Taken(followUpQueue, mode))))
  BY <1>1, PollSays
<1> QED
  BY <1>1, <1>2

\* prompt() is Start.
LEMMA MapsPrompt ==
  ASSUME IInv, QueuesInv, Prompt
  PROVE  Maps
<1> DEFINE k == Len(Taken(steeringQueue, SteeringMode))
           said == Append(messages, NextUser)
<1>1. /\ pc = "idle" /\ pc' = "turnHead" /\ via' = Append(via, "prompt")
      /\ context' = messages \o <<NextUser>> /\ called' = called
      /\ pending' = Taken(steeringQueue, SteeringMode)
      /\ steeringQueue' = Left(steeringQueue, SteeringMode) /\ followUpQueue' = followUpQueue
  BY DEF Prompt, StartRun, DequeueSteering
<1>2. /\ messages \in Seq(Messages) /\ steeringQueue \in Seq(Messages)
      /\ via \in Seq({"prompt", "steer", "followUp"})
  BY DEF IInv, TypeOK
<1>3. /\ NextUser \in Messages /\ NextUser.n = Len(via) + 1 /\ NextUser.kind = "user"
  BY <1>2, NextUserNumber
<1>4. said \in Seq(Messages) /\ context' = said
  BY <1>1, <1>2, <1>3, AppendIsConcat
<1>5. /\ k \in 0..Len(Waiting["steer"])
      /\ Waiting["steer"] = Numbers(steeringQueue)
      /\ Waiting' = [Waiting EXCEPT !["steer"] = SubSeq(@, k + 1, Len(@))]
  BY <1>1, <1>2, LeavesSteering
<1>6. Items(said, called) = Append(Items(messages, called), Item(NextUser, called))
  <2>1. ~IsResult(NextUser)
    BY <1>3 DEF IsResult
  <2> QED
    BY <1>2, <1>3, <2>1, ItemsOne
<1>7. Item(NextUser, called) = AsConversation!Said(Len(via) + 1)
  <2>1. (NextUser.kind = "assistant" /\ called[NextUser.n] # <<>>) = FALSE
    BY <1>3
  <2>2. (IF NextUser.kind = "user" THEN NextUser.n ELSE 0) = Len(via) + 1
    BY <1>3
  <2> QED
    BY <1>3, <2>1, <2>2, Zenon DEF Item, AsConversation!Said
<1>8. Talk = Items(messages, called)
  BY <1>1, TalkIdle
<1>9. Talk' = Items(said \o Taken(steeringQueue, SteeringMode), called)
  BY <1>1, <1>4, TalkNextOpen
<1> HIDE DEF said
<1>10. Items(said \o Taken(steeringQueue, SteeringMode), called)
         = Items(said, called) \o AsConversation!SaidAll(SubSeq(Numbers(steeringQueue), 1, k))
  BY <1>4, SteeringSays
<1> HIDE DEF k
<1>11. Talk' = Append(Talk, AsConversation!Said(Len(via) + 1))
                 \o AsConversation!SaidAll(SubSeq(Waiting["steer"], 1, k))
  BY <1>5, <1>6, <1>7, <1>8, <1>9, <1>10 DEF said
<1>12. (pc # "idle")' = TRUE /\ (pc # "idle") = FALSE
  BY <1>1
<1>13. AsConversation!Start(k)
  BY <1>1, <1>5, <1>11, <1>12 DEF AsConversation!Start, AsConversation!Deliver
<1> QED
  BY <1>5, <1>13 DEF Maps, AsConversation!ConvNext

\* Between two runs the agent's messages are well answered.
LEMMA IdleAnswered ==
  ASSUME IInv, StreamInv, ViewInv, pc = "idle"
  PROVE  WellAnswered(messages, called)
<1>1. pc \notin AnsweringPhases /\ stream = <<>>
  BY DEF AnsweringPhases, StreamInv
<1>2. PICK view \in Seq(Messages) : Catches(messages, stream, view) /\ WellAnswered(view, called)
  BY <1>1, SettledNow
<1>3. messages \in Seq(Messages)
  BY ContextTypes
<1>4. view = messages
  BY <1>1, <1>2, <1>3, CatchesNothing
<1> QED
  BY <1>2, <1>4

\* After a reply the model has not to speak: a reply at the end of a
\* conversation asked for nothing, or failed.
LEMMA ReplyIsLastWord ==
  ASSUME NEW ms \in Seq(Messages), NEW asked \in Seq(Seq(CallKinds)), WellAnswered(ms, asked),
         ms # <<>>, ms[Len(ms)].kind \in {"assistant", "failed"}
  PROVE  ~AsConversation!Asked(Items(ms, asked))
<1> DEFINE n == Len(ms)
<1>1. n \in Nat \ {0} /\ n \in 1..n /\ DOMAIN ms = 1..n
  BY EmptySeq
<1>2. ~IsResult(ms[n]) /\ ms[n].kind # "user"
  BY DEF IsResult
<1>3. \A i \in n + 1..n : IsResult(ms[i])
  BY <1>1
<1>4. AsConversation!Asked(Items(ms, asked))
        <=> ms[n].kind = "user" \/ (ms[n].kind = "assistant" /\ asked[ms[n].n] # <<>>)
  BY <1>1, <1>2, <1>3, LastSaid
<1>5. ASSUME ms[n].kind = "assistant" PROVE asked[ms[n].n] = <<>>
  <2>1. ms[n].n \in DOMAIN asked /\ AnsweredBy(ms, n, Len(asked[ms[n].n]))
    BY <1>1, <1>5 DEF WellAnswered
  <2>2. n + Len(asked[ms[n].n]) <= n
    BY <2>1 DEF AnsweredBy
  <2>3. asked[ms[n].n] \in Seq(CallKinds)
    BY <2>1
  <2>4. Len(asked[ms[n].n]) = 0
    BY <1>1, <2>2, <2>3
  <2> QED
    BY <2>3, <2>4, EmptySeq
<1> QED
  BY <1>2, <1>4, <1>5

\* After a message of the user or a result it has to.
LEMMA OthersAsk ==
  ASSUME NEW ms \in Seq(Messages), NEW asked \in Seq(Seq(CallKinds)), WellAnswered(ms, asked),
         ms # <<>>, ms[Len(ms)].kind \notin {"assistant", "failed"}
  PROVE  AsConversation!Asked(Items(ms, asked))
<1> DEFINE n == Len(ms)
<1>1. n \in Nat \ {0} /\ n \in 1..n /\ DOMAIN ms = 1..n /\ ms[n] \in Messages
  BY EmptySeq
<1>2. CASE ~IsResult(ms[n])
  <2>1. ms[n].kind = "user"
    BY <1>1, <1>2 DEF Messages, MessageKinds, IsResult
  <2>2. \A i \in n + 1..n : IsResult(ms[i])
    BY <1>1
  <2> QED
    BY <1>1, <1>2, <2>1, <2>2, LastSaid
<1>3. CASE IsResult(ms[n])
  <2>1. PICK j \in 1..n - 1 : ms[j].kind = "assistant" /\ n <= j + Len(asked[ms[j].n])
    BY <1>1, <1>3 DEF WellAnswered
  <2>2. j \in 1..n /\ j \in Nat
    BY <1>1, <2>1
  <2>3. ms[j].n \in DOMAIN asked /\ AnsweredBy(ms, j, Len(asked[ms[j].n]))
    BY <1>1, <2>1, <2>2 DEF WellAnswered
  <2>4. asked[ms[j].n] \in Seq(CallKinds)
    BY <2>3
  <2>5. asked[ms[j].n] # <<>>
    BY <1>1, <2>1, <2>2, <2>4
  <2>6. \A i \in j + 1..n : IsResult(ms[i])
    <3>1. \A i \in j + 1..j + Len(asked[ms[j].n]) : IsResult(ms[i])
      BY <2>3 DEF AnsweredBy
    <3>2. Len(asked[ms[j].n]) \in Nat
      BY <2>4
    <3> QED
      BY <1>1, <2>1, <2>2, <3>1, <3>2
  <2>7. ~IsResult(ms[j])
    BY <2>1 DEF IsResult
  <2> QED
    BY <2>1, <2>2, <2>5, <2>6, <2>7, LastSaid
<1> QED
  BY <1>2, <1>3

\* continue() is Continue: with what waits to steer.
LEMMA MapsWithSteering ==
  ASSUME IInv, QueuesInv, ContinueWithSteering
  PROVE  Maps
<1> DEFINE k == Len(Taken(steeringQueue, SteeringMode))
<1>1. /\ pc = "idle" /\ pc' = "turnHead" /\ via' = via /\ steeringQueue # <<>>
      /\ context' = messages \o Taken(steeringQueue, SteeringMode) /\ called' = called
      /\ pending' = <<>>
      /\ steeringQueue' = Left(steeringQueue, SteeringMode) /\ followUpQueue' = followUpQueue
  BY DEF ContinueWithSteering, StartRun
<1>2. messages \in Seq(Messages) /\ steeringQueue \in Seq(Messages)
  BY DEF IInv, TypeOK
<1>3. /\ k \in 0..Len(Waiting["steer"])
      /\ Waiting["steer"] = Numbers(steeringQueue)
      /\ Waiting' = [Waiting EXCEPT !["steer"] = SubSeq(@, k + 1, Len(@))]
  BY <1>1, <1>2, LeavesSteering
<1>4. k > 0
  BY <1>1, <1>2, TakenNumbers
<1>5. Items(messages \o Taken(steeringQueue, SteeringMode), called)
        = Items(messages, called) \o AsConversation!SaidAll(SubSeq(Numbers(steeringQueue), 1, k))
  BY <1>2, SteeringSays
<1>6. context' \o pending' = messages \o Taken(steeringQueue, SteeringMode)
  <2>1. Taken(steeringQueue, SteeringMode) \in Seq(Messages)
    BY <1>2, TakenLeftType
  <2>2. messages \o Taken(steeringQueue, SteeringMode) \in Seq(Messages)
    BY <1>2, <2>1
  <2> QED
    BY <1>1, <2>2, ConcatEmptySeq
<1>7. Talk = Items(messages, called)
  BY <1>1, TalkIdle
<1>8. Talk' = Items(messages \o Taken(steeringQueue, SteeringMode), called)
  BY <1>1, <1>6, TalkNextOpen
<1> HIDE DEF k
<1>9. Talk' = Talk \o AsConversation!SaidAll(SubSeq(Waiting["steer"], 1, k))
  BY <1>3, <1>5, <1>7, <1>8
<1>10. (pc # "idle")' = TRUE /\ (pc # "idle") = FALSE
  BY <1>1
<1>11. AsConversation!Continue("steer", k)
  BY <1>1, <1>3, <1>4, <1>9, <1>10 DEF AsConversation!Continue, AsConversation!Deliver
<1> QED
  BY <1>3, <1>11 DEF Maps, AsConversation!ConvNext, AsConversation!Queues

\* With follow-ups, after a reply and when nothing waits to steer.
LEMMA MapsWithFollowUp ==
  ASSUME IInv, QueuesInv, StreamInv, ViewInv, ContinueWithFollowUp
  PROVE  Maps
<1> DEFINE k == Len(Taken(followUpQueue, FollowUpMode))
<1>1. /\ pc = "idle" /\ pc' = "turnHead" /\ via' = via /\ followUpQueue # <<>> /\ steeringQueue = <<>>
      /\ messages # <<>> /\ Last(messages).kind \in {"assistant", "failed"}
      /\ context' = messages \o Taken(followUpQueue, FollowUpMode) /\ called' = called
      /\ pending' = <<>>
      /\ followUpQueue' = Left(followUpQueue, FollowUpMode) /\ steeringQueue' = steeringQueue
  BY DEF ContinueWithFollowUp, StartRun, LastIsReply
<1>2. messages \in Seq(Messages) /\ followUpQueue \in Seq(Messages) /\ called \in Seq(Seq(CallKinds))
  BY DEF IInv, TypeOK
<1>3. /\ k \in 0..Len(Waiting["followUp"])
      /\ Waiting["followUp"] = Numbers(followUpQueue)
      /\ Waiting' = [Waiting EXCEPT !["followUp"] = SubSeq(@, k + 1, Len(@))]
  BY <1>1, <1>2, LeavesFollowUps
<1>4. k > 0
  BY <1>1, <1>2, TakenNumbers
<1>5. Items(messages \o Taken(followUpQueue, FollowUpMode), called)
        = Items(messages, called) \o AsConversation!SaidAll(SubSeq(Numbers(followUpQueue), 1, k))
  BY <1>2, FollowUpsSay
<1>6. context' \o pending' = messages \o Taken(followUpQueue, FollowUpMode)
  <2>1. Taken(followUpQueue, FollowUpMode) \in Seq(Messages)
    BY <1>2, TakenLeftType
  <2>2. messages \o Taken(followUpQueue, FollowUpMode) \in Seq(Messages)
    BY <1>2, <2>1
  <2> QED
    BY <1>1, <2>2, ConcatEmptySeq
<1>7. Talk = Items(messages, called)
  BY <1>1, TalkIdle
<1>8. Talk' = Items(messages \o Taken(followUpQueue, FollowUpMode), called)
  BY <1>1, <1>6, TalkNextOpen
<1>9. ~AsConversation!Asked(Talk)
  <2>1. messages[Len(messages)].kind \in {"assistant", "failed"}
    BY <1>1 DEF Last
  <2>2. WellAnswered(messages, called)
    BY <1>1, IdleAnswered
  <2>3. ~AsConversation!Asked(Items(messages, called))
    BY <1>1, <1>2, <2>1, <2>2, ReplyIsLastWord
  <2> QED
    BY <1>7, <2>3
<1>10. Waiting["steer"] = <<>>
  BY <1>1 DEF Waiting, Numbers
<1> HIDE DEF k
<1>11. Talk' = Talk \o AsConversation!SaidAll(SubSeq(Waiting["followUp"], 1, k))
  BY <1>3, <1>5, <1>7, <1>8
<1>12. (pc # "idle")' = TRUE /\ (pc # "idle") = FALSE
  BY <1>1
<1>13. AsConversation!Continue("followUp", k)
  BY <1>1, <1>3, <1>4, <1>9, <1>10, <1>11, <1>12 DEF AsConversation!Continue, AsConversation!Deliver
<1> QED
  BY <1>3, <1>13 DEF Maps, AsConversation!ConvNext, AsConversation!Queues

\* From a message of the user or a result, with what the first poll takes.
LEMMA MapsFromContext ==
  ASSUME IInv, QueuesInv, StreamInv, ViewInv, ContinueFromContext
  PROVE  Maps
<1> DEFINE k == Len(Taken(steeringQueue, SteeringMode))
<1>1. /\ pc = "idle" /\ pc' = "turnHead" /\ via' = via
      /\ messages # <<>> /\ Last(messages).kind \notin {"assistant", "failed"}
      /\ context' = messages \o <<>> /\ called' = called
      /\ pending' = Taken(steeringQueue, SteeringMode)
      /\ steeringQueue' = Left(steeringQueue, SteeringMode) /\ followUpQueue' = followUpQueue
  BY DEF ContinueFromContext, StartRun, LastIsReply, DequeueSteering
<1>2. messages \in Seq(Messages) /\ steeringQueue \in Seq(Messages) /\ called \in Seq(Seq(CallKinds))
  BY DEF IInv, TypeOK
<1>3. /\ k \in 0..Len(Waiting["steer"])
      /\ Waiting["steer"] = Numbers(steeringQueue)
      /\ Waiting' = [Waiting EXCEPT !["steer"] = SubSeq(@, k + 1, Len(@))]
  BY <1>1, <1>2, LeavesSteering
<1>4. Items(messages \o Taken(steeringQueue, SteeringMode), called)
        = Items(messages, called) \o AsConversation!SaidAll(SubSeq(Numbers(steeringQueue), 1, k))
  BY <1>2, SteeringSays
<1>5. context' = messages
  BY <1>1, <1>2, ConcatEmptySeq
<1>6. Talk = Items(messages, called)
  BY <1>1, TalkIdle
<1>7. Talk' = Items(messages \o Taken(steeringQueue, SteeringMode), called)
  BY <1>1, <1>5, TalkNextOpen
<1>8. AsConversation!Asked(Talk)
  <2>1. messages[Len(messages)].kind \notin {"assistant", "failed"}
    BY <1>1 DEF Last
  <2>2. WellAnswered(messages, called)
    BY <1>1, IdleAnswered
  <2>3. AsConversation!Asked(Items(messages, called))
    BY <1>1, <1>2, <2>1, <2>2, OthersAsk
  <2> QED
    BY <1>6, <2>3
<1> HIDE DEF k
<1>9. Talk' = Talk \o AsConversation!SaidAll(SubSeq(Waiting["steer"], 1, k))
  BY <1>3, <1>4, <1>6, <1>7
<1>10. (pc # "idle")' = TRUE /\ (pc # "idle") = FALSE
  BY <1>1
<1>11. AsConversation!Continue("steer", k)
  BY <1>1, <1>3, <1>8, <1>9, <1>10 DEF AsConversation!Continue, AsConversation!Deliver
<1> QED
  BY <1>3, <1>11 DEF Maps, AsConversation!ConvNext, AsConversation!Queues

\* The failed reply that is dropped before a retry is taken back.
LEMMA MapsDrop ==
  ASSUME IInv, DropFailedReply
  PROVE  Maps
<1>1. /\ pc = "idle" /\ pc' = pc /\ messages # <<>> /\ messages[Len(messages)].kind = "failed"
      /\ messages' = Front(messages) /\ called' = called
      /\ via' = via /\ steeringQueue' = steeringQueue /\ followUpQueue' = followUpQueue
  BY DEF DropFailedReply, queueVars, Last
<1>2. messages \in Seq(Messages)
  BY DEF IInv, TypeOK
<1> DEFINE front == Front(messages)
           last == messages[Len(messages)]
           items == Items(front, called)
           item == Item(last, called)
<1>3. front \in Seq(Messages) /\ last \in Messages
  <2>1. Len(messages) \in 1..Len(messages)
    BY <1>1, <1>2, EmptySeq
  <2> QED
    BY <1>1, <1>2, <2>1, FrontOf
<1>4. messages = Append(front, last)
  <2>1. /\ Len(front) = Len(messages) - 1 /\ Len(messages) \in Nat \ {0}
        /\ \A i \in 1..Len(messages) - 1 : front[i] = messages[i]
    BY <1>1, <1>2, FrontOf
  <2>2. /\ Append(front, last) \in Seq(Messages) /\ Len(Append(front, last)) = Len(front) + 1
        /\ \A i \in 1..Len(front) : Append(front, last)[i] = front[i]
        /\ Append(front, last)[Len(front) + 1] = last
    BY <1>3, AppendProperties
  <2> HIDE DEF front
  <2>3. \A i \in 1..Len(messages) : messages[i] = Append(front, last)[i]
    <3> SUFFICES ASSUME NEW i \in 1..Len(messages) PROVE messages[i] = Append(front, last)[i]
      OBVIOUS
    <3>1. i \in 1..Len(front) \/ i = Len(front) + 1
      BY <2>1
    <3> QED
      BY <2>1, <2>2, <3>1
  <2>4. Len(messages) = Len(Append(front, last))
    BY <2>1, <2>2
  <2> QED
    BY <1>2, <2>2, <2>3, <2>4, SeqEqual
<1>5. Items(messages, called) = Append(items, item)
  <2>1. ~IsResult(last)
    BY <1>1 DEF IsResult
  <2> HIDE DEF front, last
  <2>2. Items(Append(front, last), called) = Append(items, item)
    BY <1>3, <2>1, ItemsOne
  <2> QED
    BY <1>4, <2>2
<1>6. items \in Seq(Entries) /\ item \in Entries /\ item.kind = "failed"
  <2>1. items \in Seq(Entries) /\ item \in Entries
    BY <1>3, ItemsType, ItemType
  <2>2. item.kind = last.kind
    BY DEF Item
  <2> QED
    BY <1>1, <2>1, <2>2
<1>7. Talk = Append(items, item) /\ Talk' = items
  <2>1. Talk = Items(messages, called)
    BY <1>1, TalkIdle
  <2>2. Talk' = Items(front, called)
    BY <1>1, TalkNextIdle
  <2> QED
    BY <1>5, <2>1, <2>2
<1> HIDE DEF items, item, front, last
<1>8. /\ Talk # <<>> /\ Talk[Len(Talk)].kind = "failed"
      /\ SubSeq(Talk, 1, Len(Talk) - 1) = items
  <2>1. /\ Append(items, item) \in Seq(Entries) /\ Append(items, item) # <<>>
        /\ Len(Append(items, item)) = Len(items) + 1 /\ Len(items) \in Nat
        /\ \A i \in 1..Len(items) : Append(items, item)[i] = items[i]
        /\ Append(items, item)[Len(items) + 1] = item
    BY <1>6, AppendProperties
  <2>2. Len(Talk) - 1 = Len(items)
    BY <1>7, <2>1
  <2>3. /\ SubSeq(Talk, 1, Len(items)) \in Seq(Entries)
        /\ Len(SubSeq(Talk, 1, Len(items))) = Len(items)
        /\ \A i \in 1..Len(items) : SubSeq(Talk, 1, Len(items))[i] = Talk[i]
    <3>1. Talk \in Seq(Entries) /\ Len(items) <= Len(Talk)
      BY <1>7, <2>1
    <3> QED
      BY <2>1, <3>1
  <2>4. \A i \in 1..Len(items) : SubSeq(Talk, 1, Len(items))[i] = items[i]
    BY <1>7, <2>1, <2>3
  <2>5. SubSeq(Talk, 1, Len(items)) = items
    BY <1>6, <2>3, <2>4, SeqEqual
  <2>6. Talk # <<>> /\ Talk[Len(Talk)].kind = "failed"
    BY <1>6, <1>7, <2>1
  <2> QED
    BY <2>2, <2>5, <2>6
<1>9. Waiting' = Waiting /\ (pc # "idle")' = (pc # "idle") /\ (pc # "idle") = FALSE
  BY <1>1 DEF Waiting, Numbers
<1>10. AsConversation!TakeBack
  BY <1>1, <1>7, <1>8, <1>9 DEF AsConversation!TakeBack
<1> QED
  BY <1>10 DEF Maps, AsConversation!ConvNext

-----------------------------------------------------------------------------
(* The turns of a run *)

\* What the loop works on, when nothing is about to be injected.
LEMMA TalkSettled ==
  ASSUME IInv, QueuesInv, pc \notin {"idle", "turnHead", "toolsDone", "followUps"}
  PROVE  Talk = Items(context, called) /\ pending = <<>>
<1>1. pending = <<>>
  BY PendingNone
<1>2. context \o pending = context
  BY <1>1, ContextTypes, ConcatEmptySeq
<1> QED
  BY <1>1, <1>2, TalkOpen

\* A follow-up comes when the model has had the last word.
LEMMA MapsFollowUps ==
  ASSUME IInv, QueuesInv, AskedInv, PollFollowUps
  PROVE  Maps
<1> DEFINE k == Len(Taken(followUpQueue, FollowUpMode))
<1>1. /\ pc = "turnHead" /\ pc' = "followUps" /\ via' = via /\ ~hasMoreToolCalls /\ pending = <<>>
      /\ context' = context /\ called' = called
      /\ pending' = Taken(followUpQueue, FollowUpMode)
      /\ followUpQueue' = Left(followUpQueue, FollowUpMode) /\ steeringQueue' = steeringQueue
  BY DEF PollFollowUps, DequeueFollowUp
<1>2. context \in Seq(Messages) /\ followUpQueue \in Seq(Messages)
  BY DEF IInv, TypeOK
<1>3. /\ k \in 0..Len(Waiting["followUp"])
      /\ Waiting["followUp"] = Numbers(followUpQueue)
      /\ Waiting' = [Waiting EXCEPT !["followUp"] = SubSeq(@, k + 1, Len(@))]
  BY <1>1, <1>2, LeavesFollowUps
<1>4. Items(context \o Taken(followUpQueue, FollowUpMode), called)
        = Items(context, called) \o AsConversation!SaidAll(SubSeq(Numbers(followUpQueue), 1, k))
  BY <1>2, FollowUpsSay
<1>5. context \o pending = context
  BY <1>1, <1>2, ConcatEmptySeq
<1>6. Talk = Items(context, called)
  BY <1>1, <1>5, TalkOpen
<1>7. Talk' = Items(context \o Taken(followUpQueue, FollowUpMode), called)
  BY <1>1, TalkNextOpen
<1>8. ~AsConversation!Asked(Talk)
  BY <1>1, <1>5, <1>6 DEF AskedInv
<1> HIDE DEF k
<1>9. Talk' = Talk \o AsConversation!SaidAll(SubSeq(Waiting["followUp"], 1, k))
  BY <1>3, <1>4, <1>6, <1>7
<1>10. (pc # "idle")' = TRUE /\ (pc # "idle") = TRUE
  BY <1>1
<1>11. AsConversation!DeliverFollowUp(k)
  BY <1>1, <1>3, <1>8, <1>9, <1>10 DEF AsConversation!DeliverFollowUp, AsConversation!Deliver
<1> QED
  BY <1>3, <1>11 DEF Maps, AsConversation!ConvNext

\* A new reply leaves what the earlier ones asked for.
LEMMA ItemsKept ==
  ASSUME NEW ms \in Seq(Messages), NEW asked \in Seq(Seq(CallKinds)), NEW cs \in Seq(CallKinds),
         WellAnswered(ms, asked)
  PROVE  Items(ms, Append(asked, cs)) = Items(ms, asked)
<1> DEFINE more == Append(asked, cs)
<1>1. \A n \in DOMAIN asked : more[n] = asked[n]
  BY AppendProperties
<1>2. ASSUME NEW i \in 1..Len(ms) PROVE Item(ms[i], more) = Item(ms[i], asked)
  <2>1. ms[i].kind = "assistant" => ms[i].n \in DOMAIN asked
    BY <1>2 DEF WellAnswered
  <2>2. (ms[i].kind = "assistant" /\ more[ms[i].n] # <<>>)
          = (ms[i].kind = "assistant" /\ asked[ms[i].n] # <<>>)
    BY <1>1, <2>1
  <2> QED
    BY <2>2, Zenon DEF Item
<1> HIDE DEF more
<1>3. Items(ms, more) = Items(ms, asked)
  BY <1>2, ItemsAlike
<1> QED
  BY <1>3 DEF more

\* A reply is Speak.
LEMMA MapsReply ==
  ASSUME IInv, QueuesInv, ViewInv, AskedInv, NEW kind, NEW cs \in Seq(CallKinds), Reply(kind, cs)
  PROVE  Maps
<1> DEFINE m == Message(kind, Len(called) + 1, 0)
<1>1. /\ pc = "response" /\ kind \in {"assistant", "failed"} /\ context' = Append(context, m)
      /\ called' = Append(called, cs) /\ pending' = pending
      /\ via' = via /\ steeringQueue' = steeringQueue /\ followUpQueue' = followUpQueue
      /\ pc' \in {"failed", "replied"}
  BY DEF Reply, queueVars
<1>2. /\ context \in Seq(Messages) /\ called \in Seq(Seq(CallKinds)) /\ Len(called) \in Nat
  BY ContextTypes
<1>3. m \in Messages /\ m.kind = kind /\ m.n = Len(called) + 1
  <2>1. Len(called) + 1 \in Nat /\ 0 \in Nat /\ kind \in MessageKinds
    BY <1>1, <1>2 DEF MessageKinds
  <2> QED
    BY <2>1 DEF Message, Messages
<1>4. WellAnswered(context, called)
  <2>1. pc \notin AnsweringPhases
    BY <1>1 DEF AnsweringPhases
  <2> QED
    BY <1>1, <2>1, SettledNow
<1>5. Talk = Items(context, called) /\ pending = <<>>
  BY <1>1, TalkSettled
<1>6. AsConversation!Asked(Talk)
  <2>1. AsConversation!Asked(Items(context \o pending, called))
    BY <1>1 DEF AskedInv
  <2>2. context \o pending = context
    BY <1>2, <1>5, ConcatEmptySeq
  <2> QED
    BY <1>5, <2>1, <2>2
<1>7. Items(context', called') = Append(Items(context, called), Item(m, called'))
  <2>1. ~IsResult(m)
    BY <1>1, <1>3 DEF IsResult
  <2> HIDE DEF m
  <2>2. Items(Append(context, m), Append(called, cs))
          = Append(Items(context, Append(called, cs)), Item(m, Append(called, cs)))
    BY <1>2, <1>3, <2>1, ItemsOne
  <2>3. Items(context, Append(called, cs)) = Items(context, called)
    BY <1>2, <1>4, ItemsKept
  <2> QED
    BY <1>1, <2>2, <2>3
<1>8. context' \o pending' = context'
  <2>1. context' \in Seq(Messages)
    BY <1>1, <1>2, <1>3
  <2> QED
    BY <1>1, <1>5, <2>1, ConcatEmptySeq
<1>9. Talk' = Append(Talk, Item(m, called'))
  <2>1. Talk' = Items(context' \o pending', called')
    BY <1>1, TalkNextOpen
  <2> QED
    BY <1>5, <1>7, <1>8, <2>1
<1>10. Waiting' = Waiting /\ (pc # "idle") = TRUE /\ (pc # "idle")' = TRUE
  BY <1>1 DEF Waiting, Numbers
<1> HIDE DEF m
<1>11. CASE kind = "failed"
  <2>1. (m.kind = "assistant" /\ called'[m.n] # <<>>) = FALSE /\ m.kind = "failed"
    BY <1>3, <1>11
  <2>2. Item(m, called') = AsConversation!Replied("failed", FALSE)
    BY <2>1, Zenon DEF Item, AsConversation!Replied
  <2>3. AsConversation!Speak("failed", FALSE)
    BY <1>1, <1>6, <1>9, <1>10, <2>2 DEF AsConversation!Speak
  <2> QED
    BY <2>3 DEF Maps, AsConversation!ConvNext
<1>12. CASE kind = "assistant"
  <2>1. PICK asks \in BOOLEAN : asks = (cs # <<>>)
    BY Zenon
  <2>2. called'[m.n] = cs
    BY <1>1, <1>2, <1>3
  <2>3. (m.kind = "assistant" /\ called'[m.n] # <<>>) = asks /\ m.kind = "assistant"
    BY <1>3, <1>12, <2>1, <2>2
  <2>4. Item(m, called') = AsConversation!Replied("assistant", asks)
    BY <2>3, Zenon DEF Item, AsConversation!Replied
  <2>5. AsConversation!Speak("assistant", asks)
    BY <1>1, <1>6, <1>9, <1>10, <2>4 DEF AsConversation!Speak
  <2> QED
    BY <2>5 DEF Maps, AsConversation!ConvNext
<1> QED
  BY <1>1, <1>11, <1>12

\* What the events say is what the loop said, up to the results.
LEMMA AgreeItems ==
  ASSUME NEW v \in Seq(Messages), NEW c \in Seq(Messages), NEW asked, Agree(v, c)
  PROVE  Items(v, asked) = Items(c, asked)
<1>1. /\ Len(v) = Len(c) /\ DOMAIN v = 1..Len(v)
      /\ \A i \in DOMAIN v : v[i] = c[i] \/ (IsResult(v[i]) /\ IsResult(c[i]))
  BY DEF Agree
<1> QED
  BY <1>1, ItemsAlike

\* The end of a run is Finish.
LEMMA MapsFinishRun ==
  ASSUME IInv, QueuesInv, ViewInv, AskedInv, FinishRun
  PROVE  Maps
<1>1. /\ pc = "ended" /\ stream = <<>> /\ pc' = "idle" /\ messages' = messages /\ called' = called
      /\ via' = via /\ steeringQueue' = steeringQueue /\ followUpQueue' = followUpQueue
  BY DEF FinishRun, queueVars
<1>2. messages \in Seq(Messages) /\ context \in Seq(Messages)
  BY ContextTypes
<1>3. Agree(messages, context)
  <2>1. pc \notin AnsweringPhases
    BY <1>1 DEF AnsweringPhases
  <2>2. PICK view \in Seq(Messages) : Catches(messages, stream, view) /\ Agree(view, context)
    BY <1>1, <2>1, SettledNow
  <2>3. view = messages
    BY <1>1, <1>2, <2>2, CatchesNothing
  <2> QED
    BY <2>2, <2>3
<1>4. Talk = Items(context, called) /\ pending = <<>>
  BY <1>1, TalkSettled
<1>5. Talk' = Items(messages, called)
  BY <1>1, TalkNextIdle
<1>6. Talk' = Talk
  BY <1>2, <1>3, <1>4, <1>5, AgreeItems
<1>7. ~AsConversation!Asked(Talk)
  <2>1. ~AsConversation!Asked(Items(context \o pending, called))
    BY <1>1 DEF AskedInv
  <2>2. context \o pending = context
    BY <1>2, <1>4, ConcatEmptySeq
  <2> QED
    BY <1>4, <2>1, <2>2
<1>8. Waiting' = Waiting /\ (pc # "idle") = TRUE /\ (pc # "idle")' = FALSE
  BY <1>1 DEF Waiting, Numbers
<1>9. AsConversation!Finish
  BY <1>1, <1>6, <1>7, <1>8 DEF AsConversation!Finish
<1> QED
  BY <1>9 DEF Maps, AsConversation!ConvNext

\* The polls after a call, after a group and after a turn without tools.
LEMMA MapsPoll ==
  ASSUME IInv, QueuesInv, PollAfterTool \/ PollAfterGroup \/ FinishTurnWithoutTools
  PROVE  Maps
<1>1. /\ pc \in {"pollTool", "pollGroup", "replied"} /\ pc' # "idle" /\ DequeueSteering
      /\ context' = context /\ called' = called /\ via' = via /\ followUpQueue' = followUpQueue
  <2>1. CASE PollAfterTool \/ PollAfterGroup
    <3>1. /\ pc \in {"pollTool", "pollGroup"} /\ DequeueSteering
          /\ UNCHANGED <<context, called, via>>
          /\ (SkipRemaining \/ Launch(processedCount + 1) \/ pc' = "pollGroup" \/ pc' = "toolsDone")
      BY <2>1, PollCases
    <3>2. pc' # "idle"
      BY <3>1 DEF SkipRemaining, Launch
    <3>3. followUpQueue' = followUpQueue
      BY <2>1 DEF PollAfterTool, PollAfterGroup
    <3> QED
      BY <3>1, <3>2, <3>3
  <2>2. CASE FinishTurnWithoutTools
    BY <2>2 DEF FinishTurnWithoutTools
  <2> QED
    BY <2>1, <2>2
<1>2. Talk = Items(context, called)
  BY <1>1, TalkSettled
<1>3. Talk' = Items(context \o pending', called)
  BY <1>1, TalkNextOpen
<1>4. context \in Seq(Messages) /\ steeringQueue \in Seq(Messages)
  BY DEF IInv, TypeOK
<1>5. FromUser(steeringQueue)
  BY SteeringSays, <1>4
<1> QED
  BY <1>1, <1>2, <1>3, <1>4, <1>5, MapsSteering

\* When the tools are done, their results are results.
LEMMA DoneResults ==
  ASSUME IInv, pc = "toolsDone"
  PROVE  \A i \in 1..Len(results) : IsResult(results[i])
BY DEF IInv, ResultsComplete, ResultsFor

\* The results of a turn are stored, then what waits to steer is injected.
LEMMA MapsFinishTools ==
  ASSUME IInv, QueuesInv, FinishTurnWithTools
  PROVE  Maps
<1> DEFINE said == context \o results
<1>1. /\ pc = "toolsDone" /\ pc' = "turnHead" /\ context' = said /\ called' = called /\ via' = via
      /\ followUpQueue' = followUpQueue
      /\ IF pending # <<>> THEN pending' = pending /\ steeringQueue' = steeringQueue
         ELSE DequeueSteering
  BY DEF FinishTurnWithTools
<1>2. /\ context \in Seq(Messages) /\ results \in Seq(Messages) /\ pending \in Seq(Messages)
      /\ steeringQueue \in Seq(Messages)
  BY DEF IInv, TypeOK
<1>3. said \in Seq(Messages)
  BY <1>2
<1>4. Items(said, called) = Items(context, called)
  <2>1. \A i \in 1..Len(results) : IsResult(results[i])
    BY <1>1, DoneResults
  <2> QED
    BY <1>2, <2>1, ItemsResults
<1>5. Talk = Items(context \o pending, called)
  BY <1>1, TalkOpen
<1>6. Talk' = Items(said \o pending', called)
  BY <1>1, TalkNextOpen
<1> HIDE DEF said
<1>7. CASE pending # <<>>
  <2>1. \A i \in 1..Len(pending) : ~IsResult(pending[i])
    BY <1>2, UsersNoResults DEF QueuesInv
  <2>2. Items(said \o pending, called)
          = Items(said, called) \o [i \in 1..Len(pending) |-> Item(pending[i], called)]
    BY <1>2, <1>3, <2>1, ItemsSpoken
  <2>3. Items(context \o pending, called)
          = Items(context, called) \o [i \in 1..Len(pending) |-> Item(pending[i], called)]
    BY <1>2, <2>1, ItemsSpoken, SMTT(20), ZenonT(20)
  <2>4. Talk' = Talk
    BY <1>1, <1>4, <1>5, <1>6, <1>7, <2>2, <2>3
  <2> QED
    BY <1>1, <1>7, <2>4, MapsNothing
<1>8. CASE pending = <<>>
  <2>1. context \o pending = context
    BY <1>2, <1>8, ConcatEmptySeq
  <2>2. Talk = Items(said, called)
    BY <1>4, <1>5, <2>1
  <2>3. FromUser(steeringQueue)
    BY <1>2, SteeringSays
  <2> QED
    BY <1>1, <1>2, <1>3, <1>6, <1>8, <2>2, <2>3, MapsSteering
<1> QED
  BY <1>7, <1>8

\* Nothing is said by a request, an end of a run, a call or the consumer, and
\* what was injected was in the conversation before.
LEMMA MapsQuiet ==
  ASSUME IInv, QueuesInv, StreamInv,
         \/ BeginTurn \/ ContinueOuterLoop \/ EndRun \/ Request \/ RequestThrows \/ StopOnFailure
         \/ StartTools \/ Tools \/ Abort \/ Consume \/ UNCHANGED vars
  PROVE  Maps
<1>1. CASE BeginTurn
  <2>1. /\ pc = "turnHead" /\ pc' = "request" /\ context' = context \o pending /\ pending' = <<>>
        /\ called' = called /\ via' = via
        /\ steeringQueue' = steeringQueue /\ followUpQueue' = followUpQueue
    BY <1>1 DEF BeginTurn, queueVars
  <2>2. context \o pending \in Seq(Messages)
    BY ContextTypes
  <2>3. context' \o pending' = context \o pending
    BY <2>1, <2>2, ConcatEmptySeq
  <2>4. Talk = Items(context \o pending, called) /\ Talk' = Items(context \o pending, called)
    BY <2>1, <2>3, TalkOpen, TalkNextOpen
  <2> QED
    BY <2>1, <2>4, MapsNothing
<1>2. CASE \/ ContinueOuterLoop \/ EndRun \/ Request \/ RequestThrows \/ StopOnFailure
           \/ StartTools \/ Tools
  <2>1. /\ pc # "idle" /\ pc' # "idle"
        /\ UNCHANGED <<context, pending, called, via, steeringQueue, followUpQueue>>
    <3>1. CASE ContinueOuterLoop \/ EndRun \/ Request \/ RequestThrows \/ StopOnFailure
      BY <3>1 DEF ContinueOuterLoop, EndRun, Request, RequestThrows, StopOnFailure, queueVars, turnVars
    <3>2. CASE StartTools
      BY <3>2 DEF StartTools, Launch, queueVars
    <3>3. CASE Tools
      <4>1. PICK k \in 1..MaxCalls : CompleteTool(k)
        BY <3>3 DEF Tools
      <4>2. pc = "tools" /\ pc' \in {"tools", "pollGroup", "pollTool"}
        BY <4>1 DEF CompleteTool
      <4>3. UNCHANGED <<context, pending, called, via, steeringQueue, followUpQueue>>
        BY <4>1 DEF CompleteTool, queueVars, turnVars
      <4> QED
        BY <4>2, <4>3
    <3> QED
      BY <1>2, <3>1, <3>2, <3>3
  <2>2. Talk = Items(context \o pending, called) /\ Talk' = Items(context \o pending, called)
    BY <2>1, TalkOpen, TalkNextOpen
  <2> QED
    BY <2>1, <2>2, MapsNothing
<1>3. CASE Consume
  <2>1. pc # "idle"
    BY <1>3 DEF Consume, StreamInv
  <2>2. UNCHANGED <<pc, context, pending, called, via, steeringQueue, followUpQueue>>
    BY <1>3 DEF Consume, queueVars, turnVars
  <2>3. Talk = Items(context \o pending, called) /\ Talk' = Items(context \o pending, called)
    BY <2>1, <2>2, TalkOpen, TalkNextOpen
  <2> QED
    BY <2>2, <2>3, MapsNothing
<1>4. CASE Abort \/ UNCHANGED vars
  <2>1. UNCHANGED <<pc, messages, context, pending, called, via, steeringQueue, followUpQueue>>
    BY <1>4 DEF Abort, vars, agentVars, queueVars, turnVars
  <2>2. Talk' = Talk
    BY <2>1, TalkKept
  <2> QED
    BY <2>1, <2>2, MapsNothing
<1> QED
  BY <1>1, <1>2, <1>3, <1>4

\* Every step of the agent is one of the conversation, or none.
LEMMA StepsMap ==
  ASSUME IInv, QueuesInv, StreamInv, ViewInv, AskedInv, [Next]_vars
  PROVE  Maps
<1>1. CASE Replies
  <2>1. PICK kind, cs : Reply(kind, cs) /\ cs \in Seq(CallKinds)
    <3>1. <<>> \in Seq(CallKinds)
      OBVIOUS
    <3>2. \A cs \in CallLists : cs \in Seq(CallKinds)
      BY CallListsType
    <3> QED
      BY <1>1, <3>1, <3>2 DEF Replies
  <2> QED
    BY <2>1, MapsReply
<1> QED
  BY <1>1, MapsPrompt, MapsWithSteering, MapsWithFollowUp, MapsFromContext, MapsDrop, MapsEnqueue,
     MapsClear, MapsFollowUps, MapsFinishRun, MapsPoll, MapsFinishTools, MapsQuiet
  DEF Next, User, Loop, Consumer

-----------------------------------------------------------------------------
(* Whether the model has to speak, step by step *)

\* What there is to show of the state after a step.
LEMMA AskedAfter ==
  ASSUME /\ pc' = "turnHead" =>
              (AsConversation!Asked(Items(context' \o pending', called'))
                 <=> hasMoreToolCalls' \/ pending' # <<>>)
         /\ pc' \in {"request", "response"} =>
              AsConversation!Asked(Items(context' \o pending', called'))
         /\ pc' = "followUps" =>
              ~hasMoreToolCalls' /\ ~AsConversation!Asked(Items(context', called'))
         /\ pc' \in {"failed", "ended"} =>
              ~AsConversation!Asked(Items(context' \o pending', called'))
         /\ pc' \in ToolPhases \union {"toolsDone"} => hasMoreToolCalls' /\ calls' # <<>>
  PROVE  AskedInv'
BY DEF AskedInv, AsConversation!Asked, Items, SaidUpTo, Item, IsResult, ToolPhases

\* Steps that change nothing of it.
LEMMA AskedKept ==
  ASSUME AskedInv, UNCHANGED <<pc, context, pending, called, hasMoreToolCalls, calls>>
  PROVE  AskedInv'
<1>1. /\ pc = "turnHead" =>
           (AsConversation!Asked(Items(context \o pending, called))
              <=> hasMoreToolCalls \/ pending # <<>>)
      /\ pc \in {"request", "response"} => AsConversation!Asked(Items(context \o pending, called))
      /\ pc = "followUps" => ~hasMoreToolCalls /\ ~AsConversation!Asked(Items(context, called))
      /\ pc \in {"failed", "ended"} => ~AsConversation!Asked(Items(context \o pending, called))
      /\ pc \in ToolPhases \union {"toolsDone"} => hasMoreToolCalls /\ calls # <<>>
  BY DEF AskedInv
<1> QED
  BY <1>1, AskedAfter

\* Messages of the user at the end leave the model to speak, or ask it to.
LEMMA AskedThenUsers ==
  ASSUME NEW a \in Seq(Messages), NEW b \in Seq(Messages), NEW asked, FromUser(b),
         b # <<>> \/ AsConversation!Asked(Items(a, asked))
  PROVE  AsConversation!Asked(Items(a \o b, asked))
<1>1. CASE b # <<>>
  BY <1>1, AskedUsers
<1>2. CASE b = <<>>
  <2>1. a \o b = a
    BY <1>2, ConcatEmptySeq
  <2> QED
    BY <1>2, <2>1
<1> QED
  BY <1>1, <1>2

\* A run starts when the model has to speak.
LEMMA AskedStart ==
  ASSUME IInv, QueuesInv, StreamInv, ViewInv,
         Prompt \/ ContinueWithSteering \/ ContinueWithFollowUp \/ ContinueFromContext
  PROVE  AskedInv'
<1>1. pc = "idle" /\ pc' = "turnHead" /\ hasMoreToolCalls' = TRUE /\ called' = called
  BY DEF Prompt, ContinueWithSteering, ContinueWithFollowUp, ContinueFromContext, StartRun
<1>2. /\ messages \in Seq(Messages) /\ called \in Seq(Seq(CallKinds))
      /\ steeringQueue \in Seq(Messages) /\ followUpQueue \in Seq(Messages)
      /\ via \in Seq({"prompt", "steer", "followUp"})
  BY DEF IInv, TypeOK
<1>3. /\ Taken(steeringQueue, SteeringMode) \in Seq(Messages)
      /\ Taken(followUpQueue, FollowUpMode) \in Seq(Messages)
      /\ FromUser(Taken(steeringQueue, SteeringMode)) /\ FromUser(Taken(followUpQueue, FollowUpMode))
  <2>1. /\ FromUser(Taken(steeringQueue, SteeringMode)) /\ FromUser(Taken(followUpQueue, FollowUpMode))
    BY QueueFacts
  <2> QED
    BY <1>2, <2>1, TakenLeftType
<1>4. CASE Prompt
  <2> DEFINE one == <<NextUser>>
  <2>1. context' = messages \o one /\ pending' = Taken(steeringQueue, SteeringMode)
    BY <1>4 DEF Prompt, StartRun, DequeueSteering
  <2>2. one \in Seq(Messages) /\ one # <<>> /\ FromUser(one)
    <3>1. NextUser \in Messages /\ NextUser.kind = "user"
      BY <1>2, NextUserType DEF NextUser, Message
    <3> QED
      BY <3>1 DEF FromUser
  <2> HIDE DEF one
  <2>3. AsConversation!Asked(Items(messages \o one, called)) /\ messages \o one \in Seq(Messages)
    BY <1>2, <2>2, AskedUsers
  <2>4. AsConversation!Asked(Items(context' \o pending', called'))
    BY <1>1, <1>3, <2>1, <2>3, AskedThenUsers
  <2> QED
    BY <1>1, <2>4, AskedAfter DEF ToolPhases
<1>5. CASE ContinueWithSteering \/ ContinueWithFollowUp
  <2>1. PICK queue \in {"steer", "followUp"} :
          /\ context' = messages \o (IF queue = "steer" THEN Taken(steeringQueue, SteeringMode)
                                                        ELSE Taken(followUpQueue, FollowUpMode))
          /\ (IF queue = "steer" THEN steeringQueue ELSE followUpQueue) # <<>>
          /\ pending' = <<>>
    BY <1>5 DEF ContinueWithSteering, ContinueWithFollowUp, StartRun
  <2>2. PICK b \in Seq(Messages) : FromUser(b) /\ b # <<>> /\ context' = messages \o b
    <3>1. CASE queue = "steer"
      <4>1. Taken(steeringQueue, SteeringMode) # <<>>
        BY <2>1, <3>1 DEF Taken
      <4> QED
        BY <1>3, <2>1, <3>1, <4>1
    <3>2. CASE queue = "followUp"
      <4>1. Taken(followUpQueue, FollowUpMode) # <<>>
        BY <2>1, <3>2 DEF Taken
      <4> QED
        BY <1>3, <2>1, <3>2, <4>1
    <3> QED
      BY <2>1, <3>1, <3>2
  <2>3. context' \o pending' = messages \o b
    <3>1. messages \o b \in Seq(Messages)
      BY <1>2
    <3> QED
      BY <2>1, <2>2, <3>1, ConcatEmptySeq
  <2>4. AsConversation!Asked(Items(context' \o pending', called'))
    BY <1>1, <1>2, <2>2, <2>3, AskedUsers
  <2> QED
    BY <1>1, <2>4, AskedAfter DEF ToolPhases
<1>6. CASE ContinueFromContext
  <2>1. /\ context' = messages \o <<>> /\ pending' = Taken(steeringQueue, SteeringMode)
        /\ messages # <<>> /\ Last(messages).kind \notin {"assistant", "failed"}
    BY <1>6 DEF ContinueFromContext, StartRun, DequeueSteering, LastIsReply
  <2>2. context' = messages
    BY <1>2, <2>1, ConcatEmptySeq
  <2>3. AsConversation!Asked(Items(messages, called))
    <3>1. messages[Len(messages)].kind \notin {"assistant", "failed"}
      BY <2>1 DEF Last
    <3>2. WellAnswered(messages, called)
      BY <1>1, IdleAnswered
    <3> QED
      BY <1>2, <2>1, <3>1, <3>2, OthersAsk
  <2>4. AsConversation!Asked(Items(context' \o pending', called'))
    BY <1>1, <1>2, <1>3, <2>1, <2>2, <2>3, AskedThenUsers
  <2> QED
    BY <1>1, <2>4, AskedAfter DEF ToolPhases
<1> QED
  BY <1>4, <1>5, <1>6

\* The head of a turn, and the ways a run goes on from there or ends.
LEMMA AskedTurn ==
  ASSUME IInv, QueuesInv, AskedInv,
         BeginTurn \/ PollFollowUps \/ ContinueOuterLoop \/ EndRun \/ Request \/ RequestThrows
           \/ StopOnFailure
  PROVE  AskedInv'
<1>1. /\ context \in Seq(Messages) /\ pending \in Seq(Messages) /\ context \o pending \in Seq(Messages)
  BY ContextTypes
<1>2. CASE BeginTurn
  <2>1. /\ pc = "turnHead" /\ (hasMoreToolCalls \/ pending # <<>>) /\ pc' = "request"
        /\ context' = context \o pending /\ pending' = <<>> /\ called' = called
    BY <1>2 DEF BeginTurn
  <2>2. context' \o pending' = context \o pending
    BY <1>1, <2>1, ConcatEmptySeq
  <2>3. AsConversation!Asked(Items(context \o pending, called))
    BY <2>1 DEF AskedInv
  <2> QED
    BY <2>1, <2>2, <2>3, AskedAfter DEF ToolPhases
<1>3. CASE PollFollowUps
  <2>1. /\ pc = "turnHead" /\ ~hasMoreToolCalls /\ pending = <<>> /\ pc' = "followUps"
        /\ context' = context /\ called' = called /\ hasMoreToolCalls' = hasMoreToolCalls
    BY <1>3 DEF PollFollowUps
  <2>2. context \o pending = context
    BY <1>1, <2>1, ConcatEmptySeq
  <2>3. ~AsConversation!Asked(Items(context \o pending, called))
    BY <2>1 DEF AskedInv
  <2> QED
    BY <2>1, <2>2, <2>3, AskedAfter DEF ToolPhases
<1>4. CASE ContinueOuterLoop
  <2>1. /\ pending # <<>> /\ hasMoreToolCalls' = TRUE /\ pc' = "turnHead"
        /\ context' = context /\ pending' = pending /\ called' = called
    BY <1>4 DEF ContinueOuterLoop
  <2>2. AsConversation!Asked(Items(context \o pending, called))
    BY <1>1, <2>1, AskedUsers DEF QueuesInv
  <2> QED
    BY <2>1, <2>2, AskedAfter DEF ToolPhases
<1>5. CASE EndRun
  <2>1. /\ pc = "followUps" /\ pending = <<>> /\ pc' = "ended"
        /\ context' = context /\ pending' = pending /\ called' = called
    BY <1>5 DEF EndRun, turnVars
  <2>2. context \o pending = context
    BY <1>1, <2>1, ConcatEmptySeq
  <2>3. ~AsConversation!Asked(Items(context, called))
    BY <2>1 DEF AskedInv
  <2> QED
    BY <2>1, <2>2, <2>3, AskedAfter DEF ToolPhases
<1>6. CASE Request
  <2>1. /\ pc = "request" /\ pc' = "response"
        /\ context' = context /\ pending' = pending /\ called' = called
    BY <1>6 DEF Request, turnVars
  <2>2. AsConversation!Asked(Items(context \o pending, called))
    BY <2>1 DEF AskedInv
  <2> QED
    BY <2>1, <2>2, AskedAfter DEF ToolPhases
<1>7. CASE RequestThrows
  <2>1. pc' = "dead"
    BY <1>7 DEF RequestThrows
  <2> QED
    BY <2>1, AskedAfter DEF ToolPhases
<1>8. CASE StopOnFailure
  <2>1. /\ pc = "failed" /\ pc' = "ended"
        /\ context' = context /\ pending' = pending /\ called' = called
    BY <1>8 DEF StopOnFailure, turnVars
  <2>2. ~AsConversation!Asked(Items(context \o pending, called))
    BY <2>1 DEF AskedInv
  <2> QED
    BY <2>1, <2>2, AskedAfter DEF ToolPhases
<1> QED
  BY <1>2, <1>3, <1>4, <1>5, <1>6, <1>7, <1>8

\* A failed reply leaves nothing to answer; what another asks for is looked at next.
LEMMA AskedByReply ==
  ASSUME IInv, QueuesInv, NEW kind, NEW cs \in Seq(CallKinds), Reply(kind, cs)
  PROVE  AskedInv'
<1> DEFINE m == Message(kind, Len(called) + 1, 0)
<1>1. /\ pc = "response" /\ kind \in {"assistant", "failed"} /\ context' = Append(context, m)
      /\ pending' = pending /\ pc' = IF kind = "failed" THEN "failed" ELSE "replied"
  BY DEF Reply
<1>2. context \in Seq(Messages) /\ Len(called) \in Nat
  BY ContextTypes
<1>3. CASE kind = "assistant"
  <2>1. pc' = "replied"
    BY <1>1, <1>3
  <2> QED
    BY <2>1, AskedAfter DEF ToolPhases
<1>4. CASE kind = "failed"
  <2>1. m \in Messages /\ m.kind = "failed"
    <3>1. Len(called) + 1 \in Nat /\ 0 \in Nat /\ kind \in MessageKinds
      BY <1>2, <1>4 DEF MessageKinds
    <3> QED
      BY <1>4, <3>1 DEF Message, Messages
  <2> HIDE DEF m
  <2>2. ~AsConversation!Asked(Items(Append(context, m), called'))
    BY <1>2, <2>1, AskedReply
  <2>3. pending = <<>>
    BY <1>1, PendingNone
  <2>4. context' \o pending' = Append(context, m)
    <3>1. Append(context, m) \in Seq(Messages)
      BY <1>2, <2>1
    <3> QED
      BY <1>1, <2>3, <3>1, ConcatEmptySeq
  <2>5. ~AsConversation!Asked(Items(context' \o pending', called'))
    BY <2>2, <2>4
  <2> QED
    BY <1>1, <1>4, <2>5, AskedAfter DEF ToolPhases
<1> QED
  BY <1>1, <1>3, <1>4

\* In the phases that follow a reply, it has to be answered if it asked for tools.
LEMMA AskedAnswering ==
  ASSUME IInv, ViewInv, pc \in AnsweringPhases
  PROVE  /\ called # <<>> /\ calls = called[Len(called)]
         /\ AsConversation!Asked(Items(context, called)) <=> calls # <<>>
<1>1. PICK view, talk, seen, answers \in Seq(Messages) : Answering(view, talk, seen, answers)
  BY AnsweringNow
<1>2. called # <<>> /\ calls = called[Len(called)] /\ context = Append(talk, LastReply)
  BY <1>1 DEF Answering
<1>3. Len(called) \in Nat
  BY ContextTypes
<1>4. LastReply \in Messages /\ LastReply.kind = "assistant" /\ LastReply.n = Len(called)
  <2>1. 0 \in Nat /\ "assistant" \in MessageKinds
    BY DEF MessageKinds
  <2> QED
    BY <1>3, <2>1 DEF LastReply, Message, Messages
<1>5. AsConversation!Asked(Items(Append(talk, LastReply), called))
        <=> LastReply.kind = "assistant" /\ called[LastReply.n] # <<>>
  BY <1>4, AskedReply
<1> QED
  BY <1>2, <1>4, <1>5

\* The tools of a turn, from the reply that asks for them to their results.
LEMMA AskedTools ==
  ASSUME IInv, QueuesInv, ViewInv, AskedInv,
         FinishTurnWithoutTools \/ StartTools \/ Tools \/ PollAfterTool \/ PollAfterGroup
           \/ FinishTurnWithTools
  PROVE  AskedInv'
<1>1. /\ context \in Seq(Messages) /\ pending \in Seq(Messages) /\ results \in Seq(Messages)
      /\ steeringQueue \in Seq(Messages)
  BY DEF IInv, TypeOK
<1>2. /\ Taken(steeringQueue, SteeringMode) \in Seq(Messages)
      /\ FromUser(Taken(steeringQueue, SteeringMode))
  BY <1>1, QueueFacts, TakenLeftType
<1>3. CASE FinishTurnWithoutTools
  <2>1. /\ pc = "replied" /\ calls = <<>> /\ hasMoreToolCalls' = FALSE /\ pc' = "turnHead"
        /\ context' = context /\ called' = called /\ pending' = Taken(steeringQueue, SteeringMode)
    BY <1>3 DEF FinishTurnWithoutTools, toolVars, DequeueSteering
  <2>2. ~AsConversation!Asked(Items(context, called))
    BY <2>1, AskedAnswering DEF AnsweringPhases
  <2>3. CASE pending' = <<>>
    <3>1. context' \o pending' = context
      BY <1>1, <2>1, <2>3, ConcatEmptySeq
    <3> QED
      BY <2>1, <2>2, <2>3, <3>1, AskedAfter DEF ToolPhases
  <2>4. CASE pending' # <<>>
    <3>1. AsConversation!Asked(Items(context' \o pending', called'))
      BY <1>1, <1>2, <2>1, <2>4, AskedUsers
    <3> QED
      BY <2>1, <2>4, <3>1, AskedAfter DEF ToolPhases
  <2> QED
    BY <2>3, <2>4
<1>4. CASE StartTools
  <2>1. hasMoreToolCalls' = TRUE /\ calls # <<>> /\ calls' = calls /\ pc' = "tools"
    BY <1>4 DEF StartTools, Launch
  <2> QED
    BY <2>1, AskedAfter DEF ToolPhases
<1>5. CASE Tools \/ PollAfterTool \/ PollAfterGroup
  <2>1. /\ pc \in ToolPhases /\ pc' \in ToolPhases \union {"toolsDone"}
        /\ hasMoreToolCalls' = hasMoreToolCalls /\ calls' = calls
    <3>1. CASE Tools
      <4>1. PICK k \in 1..MaxCalls : CompleteTool(k)
        BY <3>1 DEF Tools
      <4> QED
        BY <4>1 DEF CompleteTool, turnVars, ToolPhases
    <3>2. CASE PollAfterTool \/ PollAfterGroup
      <4>1. /\ pc \in {"pollTool", "pollGroup"}
            /\ (SkipRemaining \/ Launch(processedCount + 1) \/ pc' = "pollGroup" \/ pc' = "toolsDone")
        BY <3>2, PollCases
      <4>2. pc' \in {"tools", "pollGroup", "toolsDone"}
        BY <4>1 DEF SkipRemaining, Launch
      <4>3. hasMoreToolCalls' = hasMoreToolCalls /\ calls' = calls
        BY <3>2 DEF PollAfterTool, PollAfterGroup
      <4> QED
        BY <4>1, <4>2, <4>3 DEF ToolPhases
    <3> QED
      BY <1>5, <3>1, <3>2
  <2>2. hasMoreToolCalls /\ calls # <<>>
    BY <2>1 DEF AskedInv
  <2> QED
    BY <2>1, <2>2, AskedAfter DEF ToolPhases
<1>6. CASE FinishTurnWithTools
  <2> DEFINE said == context \o results
  <2>1. /\ pc = "toolsDone" /\ pc' = "turnHead" /\ context' = said /\ called' = called
        /\ hasMoreToolCalls' = hasMoreToolCalls
        /\ pending' \in {pending, Taken(steeringQueue, SteeringMode)}
    BY <1>6 DEF FinishTurnWithTools, DequeueSteering
  <2>2. hasMoreToolCalls /\ calls # <<>>
    BY <2>1 DEF AskedInv
  <2>3. AsConversation!Asked(Items(context, called))
    BY <2>1, <2>2, AskedAnswering DEF AnsweringPhases
  <2>4. said \in Seq(Messages) /\ Items(said, called) = Items(context, called)
    <3>1. \A i \in 1..Len(results) : IsResult(results[i])
      BY <2>1, DoneResults
    <3> QED
      BY <1>1, <3>1, ItemsResults
  <2>5. pending' \in Seq(Messages) /\ FromUser(pending)'
    BY <1>1, <1>2, <2>1 DEF QueuesInv, FromUser
  <2> HIDE DEF said
  <2>6. AsConversation!Asked(Items(said \o pending', called))
    <3>1. PICK b \in Seq(Messages) : b = pending' /\ FromUser(b)
      BY <2>5 DEF FromUser
    <3>2. AsConversation!Asked(Items(said \o b, called))
      BY <2>3, <2>4, <3>1, AskedThenUsers
    <3> QED
      BY <3>1, <3>2
  <2> QED
    BY <2>1, <2>2, <2>6, AskedAfter DEF ToolPhases
<1> QED
  BY <1>3, <1>4, <1>5, <1>6

\* So it is known in each phase whether the model has to speak.
LEMMA AskedNext ==
  ASSUME IInv, QueuesInv, StreamInv, ViewInv, AskedInv, [Next]_vars
  PROVE  AskedInv'
<1>1. CASE DropFailedReply \/ FinishRun
  <2>1. pc' = "idle"
    BY <1>1 DEF DropFailedReply, FinishRun
  <2> QED
    BY <2>1, AskedAfter DEF ToolPhases
<1>2. CASE Steer \/ FollowUp \/ ClearAllQueues \/ Abort \/ Consume \/ UNCHANGED vars
  <2>1. UNCHANGED <<pc, context, pending, called, hasMoreToolCalls, calls>>
    BY <1>2 DEF Steer, FollowUp, ClearAllQueues, Abort, Consume, vars, turnVars, toolVars
  <2> QED
    BY <2>1, AskedKept
<1>3. CASE Replies
  <2>1. PICK kind, cs : Reply(kind, cs) /\ cs \in Seq(CallKinds)
    <3>1. <<>> \in Seq(CallKinds)
      OBVIOUS
    <3>2. \A cs \in CallLists : cs \in Seq(CallKinds)
      BY CallListsType
    <3> QED
      BY <1>3, <3>1, <3>2 DEF Replies
  <2> QED
    BY <2>1, AskedByReply
<1> QED
  BY <1>1, <1>2, <1>3, AskedStart, AskedTurn, AskedTools DEF Next, User, Loop, Consumer

-----------------------------------------------------------------------------
(* The refinement *)

\* The agent starts with an empty conversation.
LEMMA InitMaps == Init => AskedInv /\ AsConversation!ConvInit
<1> SUFFICES ASSUME Init PROVE AskedInv /\ AsConversation!ConvInit
  OBVIOUS
<1>1. /\ pc = "idle" /\ via = <<>> /\ messages = <<>> /\ steeringQueue = <<>> /\ followUpQueue = <<>>
  BY DEF Init
<1>2. AskedInv
  BY <1>1 DEF AskedInv, ToolPhases
<1>3. Talk = <<>>
  BY <1>1, TalkIdle, ItemsNothing
<1>4. Numbers(<<>>) = <<>>
  BY DEF Numbers
<1>5. Waiting = [q \in AsConversation!Queues |-> <<>>]
  BY <1>1, <1>4 DEF Waiting, AsConversation!Queues
<1>6. (pc # "idle") = FALSE
  BY <1>1
<1> QED
  BY <1>1, <1>2, <1>3, <1>5, <1>6 DEF AsConversation!ConvInit

\* AgentLoop implements Conversation: for any bounds, modes and number of runs,
\* whatever the user sends, clears and aborts and whatever fails, every step of
\* the agent is a step of the abstract conversation or changes nothing of it. So no
\* message of the user is lost, repeated or overtaken in its queue, a follow-up
\* waits for the last word of the model, the model is asked only when the user or
\* its tools spoke last, and a run that ends has answered.
THEOREM ConversationImplemented == Spec => IsConversation
<1>1. Init => AskedInv /\ AsConversation!ConvInit
  BY InitMaps
<1>2. IInv /\ QueuesInv /\ StreamInv /\ ViewInv /\ AskedInv /\ [Next]_vars => AskedInv'
  BY AskedNext
<1>3. /\ IInv /\ QueuesInv /\ StreamInv /\ ViewInv /\ AskedInv /\ [Next]_vars
      => [AsConversation!ConvNext]_(AsConversation!convVars)
  <2>1. Maps => [AsConversation!ConvNext]_(AsConversation!convVars)
    BY DEF Maps, AsConversation!convVars
  <2> QED
    BY <2>1, StepsMap
<1> QED
  BY <1>1, <1>2, <1>3, ViewAlways, PTL DEF Spec, IsConversation, AsConversation!ConvSpec
=============================================================================
