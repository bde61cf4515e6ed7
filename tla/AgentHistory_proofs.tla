------------------------- MODULE AgentHistory_proofs -------------------------
(***************************************************************************)
(* Proofs about what AgentSession remembers, for any callers, retries and  *)
(* budgets: the log of a session, the agent's messages, the retries, the   *)
(* rescues and the displayed queue.                                        *)
(***************************************************************************)
EXTENDS AgentSession_proofs

-----------------------------------------------------------------------------
(* Failures and rescues in a list *)

\* The list ends in at most k failures that may be retried.
Few(es, k) ==
  Len(es) > k => \E j \in Len(es) - k..Len(es) : es[j].kind # "retryable"
FewEverywhere(es) ==
  \A i \in 1..Len(es) : i + MaxRetries + 1 <= Len(es) =>
    \E j \in i..i + MaxRetries + 1 : es[j].kind # "retryable"
Unanswered(es, i) == \A j \in i..Len(es) : ~IsAnswer(es[j])
\* The rescues that nothing has answered.
Open(es) == {i \in 1..Len(es) : es[i].kind = "rescue" /\ Unanswered(es, i)}
RescuesApart(es) ==
  \A i, j \in 1..Len(es) :
    (i < j /\ es[i].kind = "rescue" /\ es[j].kind = "rescue") => \E k \in i..j : IsAnswer(es[k])
\* No overflow came after a rescue that nothing has answered.
Dormant(es) == \A i \in Open(es) : \A j \in i..Len(es) : es[j].kind # "overflow"
Without(es, kind) == \A i \in 1..Len(es) : es[i].kind # kind
Fine(es) == FewEverywhere(es) /\ RescuesApart(es)

\* What is known of a list that another follows.
LEMMA JoinIs ==
  ASSUME NEW A, NEW s \in Seq(A), NEW t \in Seq(A)
  PROVE  /\ s \o t \in Seq(A) /\ Len(s \o t) = Len(s) + Len(t) /\ Len(s) \in Nat /\ Len(t) \in Nat
         /\ \A i \in 1..Len(s) : (s \o t)[i] = s[i] /\ i \in 1..Len(s) + Len(t)
         /\ \A i \in 1..Len(t) : (s \o t)[Len(s) + i] = t[i] /\ Len(s) + i \in 1..Len(s) + Len(t)
         /\ \A i \in 1..Len(s) + Len(t) :
              i \in 1..Len(s) \/ (i - Len(s) \in 1..Len(t) /\ (s \o t)[i] = t[i - Len(s)])
<1>1. /\ s \o t \in Seq(A) /\ Len(s \o t) = Len(s) + Len(t) /\ Len(s) \in Nat /\ Len(t) \in Nat
      /\ \A i \in 1..Len(s) + Len(t) : (s \o t)[i] = IF i <= Len(s) THEN s[i] ELSE t[i - Len(s)]
  BY ConcatProperties
<1>2. ASSUME NEW i \in 1..Len(s) PROVE (s \o t)[i] = s[i] /\ i \in 1..Len(s) + Len(t)
  <2>1. i \in 1..Len(s) + Len(t) /\ i <= Len(s)
    BY <1>1
  <2> QED
    BY <1>1, <2>1
<1>3. ASSUME NEW i \in 1..Len(t)
      PROVE  (s \o t)[Len(s) + i] = t[i] /\ Len(s) + i \in 1..Len(s) + Len(t)
  <2>1. Len(s) + i \in 1..Len(s) + Len(t) /\ ~(Len(s) + i <= Len(s)) /\ Len(s) + i - Len(s) = i
    BY <1>1
  <2> QED
    BY <1>1, <2>1
<1>4. ASSUME NEW i \in 1..Len(s) + Len(t)
      PROVE  i \in 1..Len(s) \/ (i - Len(s) \in 1..Len(t) /\ (s \o t)[i] = t[i - Len(s)])
  BY <1>1
<1> QED
  BY <1>1, <1>2, <1>3, <1>4

\* It does not matter which of three lists are put together first.
Associates(a, b, c) == (a \o b) \o c = a \o (b \o c)
LEMMA JoinAssociates ==
  ASSUME NEW A, NEW a \in Seq(A), NEW b \in Seq(A), NEW c \in Seq(A)
  PROVE  Associates(a, b, c)
BY DEF Associates

LEMMA OneMore ==
  ASSUME NEW A, NEW s \in Seq(A), NEW x \in A
  PROVE  /\ s \o <<x>> \in Seq(A) /\ s \o <<x>> = Append(s, x)
         /\ Len(s \o <<x>>) = Len(s) + 1 /\ Len(s) \in Nat /\ (s \o <<x>>)[Len(s) + 1] = x
         /\ \A i \in 1..Len(s) : (s \o <<x>>)[i] = s[i]
<1>1. s \o <<x>> = Append(s, x) /\ Len(s) \in Nat
  OBVIOUS
<1> DEFINE t == Append(s, x)
<1>2. t \in Seq(A) /\ Len(t) = Len(s) + 1 /\ t[Len(s) + 1] = x /\ \A i \in 1..Len(s) : t[i] = s[i]
  OBVIOUS
<1> QED
  BY <1>1, <1>2

LEMMA FewMore ==
  ASSUME NEW k \in Nat, NEW l \in Nat, k <= l, NEW es \in Seq(Items), Few(es, k)
  PROVE  Few(es, l)
<1> SUFFICES ASSUME Len(es) > l PROVE \E j \in Len(es) - l..Len(es) : es[j].kind # "retryable"
  BY DEF Few
<1>1. Len(es) \in Nat /\ Len(es) > k
  OBVIOUS
<1>2. PICK j \in Len(es) - k..Len(es) : es[j].kind # "retryable"
  BY <1>1 DEF Few
<1>3. j \in Len(es) - l..Len(es)
  BY <1>1, <1>2
<1> QED
  BY <1>2, <1>3

\* No failure that may be retried comes after the list.
LEMMA FewAdd ==
  ASSUME NEW es \in Seq(Items), NEW more \in Seq(Items), Without(more, "retryable"), NEW k \in Nat
  PROVE  /\ more # <<>> => Few(es \o more, k)
         /\ Few(es, k) => Few(es \o more, k)
         /\ FewEverywhere(es) => FewEverywhere(es \o more)
<1> DEFINE t == es \o more
           n == Len(es)
           m == Len(more)
<1>1. /\ t \in Seq(Items) /\ Len(t) = n + m /\ n \in Nat /\ m \in Nat
      /\ \A i \in 1..n : t[i] = es[i]
      /\ \A i \in 1..n + m : i \in 1..n \/ (i - n \in 1..m /\ t[i] = more[i - n])
  BY JoinIs
<1>2. more # <<>> => m # 0
  BY EmptySeq
<1>3. \A i \in 1..n + m : i > n => t[i].kind # "retryable"
  <2>1. ASSUME NEW i \in 1..n + m, i > n PROVE t[i].kind # "retryable"
    <3>1. i - n \in 1..m /\ t[i] = more[i - n]
      BY <1>1, <2>1
    <3> QED
      BY <3>1 DEF Without
  <2> QED
    BY <2>1
<1>a. more = <<>> => t = es
  OBVIOUS
<1> HIDE DEF t
<1>4. ASSUME m # 0 PROVE Few(t, k)
  <2>1. n + m \in 1..n + m /\ n + m > n /\ n + m \in (n + m) - k..n + m
    BY <1>1, <1>4
  <2> QED
    BY <1>1, <1>3, <2>1 DEF Few
<1>5. ASSUME FewEverywhere(es) PROVE FewEverywhere(t)
  <2> SUFFICES ASSUME NEW i \in 1..n + m, i + MaxRetries + 1 <= n + m
               PROVE  \E j \in i..i + MaxRetries + 1 : t[j].kind # "retryable"
    BY <1>1 DEF FewEverywhere
  <2>a. MaxRetries \in Nat
    BY ASAssumption
  <2> DEFINE last == i + MaxRetries + 1
  <2>1. last \in i..last /\ last \in 1..n + m
    BY <2>a, <1>1
  <2>2. CASE last > n
    BY <1>3, <2>1, <2>2
  <2>3. CASE ~(last > n)
    <3>1. i \in 1..n /\ last <= n
      BY <1>1, <2>a, <2>3
    <3>2. PICK j \in i..last : es[j].kind # "retryable"
      BY <1>5, <3>1 DEF FewEverywhere
    <3>3. j \in 1..n
      BY <1>1, <2>a, <3>1, <3>2
    <3> QED
      BY <1>1, <3>2, <3>3
  <2> QED
    BY <2>2, <2>3
<1> QED
  BY <1>2, <1>a, <1>4, <1>5 DEF t

\* One more failure.
LEMMA FewOne ==
  ASSUME NEW es \in Seq(Items), NEW x \in Items, NEW k \in Nat, Few(es, k)
  PROVE  /\ Few(es \o <<x>>, k + 1)
         /\ FewEverywhere(es) /\ k <= MaxRetries => FewEverywhere(es \o <<x>>)
<1> DEFINE t == es \o <<x>>
           n == Len(es)
<1>1. t \in Seq(Items) /\ Len(t) = n + 1 /\ n \in Nat /\ \A i \in 1..n : t[i] = es[i]
  BY OneMore
<1> HIDE DEF t
<1>2. Few(t, k + 1)
  <2> SUFFICES ASSUME n + 1 > k + 1 PROVE \E j \in n + 1 - (k + 1)..n + 1 : t[j].kind # "retryable"
    BY <1>1 DEF Few
  <2>1. PICK j \in n - k..n : es[j].kind # "retryable"
    BY <1>1 DEF Few
  <2>2. j \in 1..n /\ j \in n + 1 - (k + 1)..n + 1
    BY <1>1, <2>1
  <2> QED
    BY <1>1, <2>1, <2>2
<1>3. ASSUME FewEverywhere(es), k <= MaxRetries PROVE FewEverywhere(t)
  <2>a. MaxRetries \in Nat
    BY ASAssumption
  <2> SUFFICES ASSUME NEW i \in 1..n + 1, i + MaxRetries + 1 <= n + 1
               PROVE  \E j \in i..i + MaxRetries + 1 : t[j].kind # "retryable"
    BY <1>1 DEF FewEverywhere
  <2>1. CASE i + MaxRetries + 1 <= n
    <3>1. i \in 1..n
      BY <1>1, <2>a, <2>1
    <3>2. PICK j \in i..i + MaxRetries + 1 : es[j].kind # "retryable"
      BY <1>3, <2>1, <3>1 DEF FewEverywhere
    <3>3. j \in 1..n
      BY <1>1, <2>a, <2>1, <3>1, <3>2
    <3> QED
      BY <1>1, <3>2, <3>3
  <2>2. CASE ~(i + MaxRetries + 1 <= n)
    <3>1. i + MaxRetries = n
      BY <1>1, <2>a, <2>2
    <3>2. n >= 1 + MaxRetries
      BY <1>1, <2>a, <2>2
    <3>3. PICK j \in n - k..n : es[j].kind # "retryable"
      BY <1>1, <1>3, <2>a, <3>2 DEF Few
    <3>4. j \in 1..n /\ j \in i..i + MaxRetries + 1
      BY <1>1, <1>3, <2>a, <3>1, <3>2, <3>3
    <3> QED
      BY <1>1, <3>3, <3>4
  <2> QED
    BY <2>1, <2>2
<1> QED
  BY <1>2, <1>3 DEF t

\* What begins a fine list is fine.
LEMMA FineBegins ==
  ASSUME NEW es \in Seq(Items), NEW more \in Seq(Items), Fine(es \o more)
  PROVE  Fine(es)
<1> DEFINE t == es \o more
           n == Len(es)
           m == Len(more)
<1>1. /\ t \in Seq(Items) /\ Len(t) = n + m /\ n \in Nat /\ m \in Nat
      /\ \A i \in 1..n : t[i] = es[i] /\ i \in 1..n + m
  BY JoinIs
<1>a. MaxRetries \in Nat
  BY ASAssumption
<1>b. FewEverywhere(t) /\ RescuesApart(t)
  BY DEF Fine
<1> HIDE DEF t
<1>2. FewEverywhere(es)
  <2> SUFFICES ASSUME NEW i \in 1..n, i + MaxRetries + 1 <= n
               PROVE  \E j \in i..i + MaxRetries + 1 : es[j].kind # "retryable"
    BY DEF FewEverywhere
  <2>1. i \in 1..n + m /\ i + MaxRetries + 1 <= n + m
    BY <1>1, <1>a
  <2>2. PICK j \in i..i + MaxRetries + 1 : t[j].kind # "retryable"
    BY <1>1, <1>b, <2>1 DEF FewEverywhere
  <2>3. j \in 1..n
    BY <1>1, <1>a, <2>2
  <2> QED
    BY <1>1, <2>2, <2>3
<1>3. RescuesApart(es)
  <2> SUFFICES ASSUME NEW i \in 1..n, NEW j \in 1..n, i < j, es[i].kind = "rescue", es[j].kind = "rescue"
               PROVE  \E k \in i..j : IsAnswer(es[k])
    BY DEF RescuesApart
  <2>1. i \in 1..n + m /\ j \in 1..n + m /\ t[i].kind = "rescue" /\ t[j].kind = "rescue"
    BY <1>1
  <2>2. PICK k \in i..j : IsAnswer(t[k])
    BY <1>1, <1>b, <2>1 DEF RescuesApart
  <2>3. k \in 1..n
    BY <1>1, <2>2
  <2> QED
    BY <1>1, <2>2, <2>3
<1> QED
  BY <1>2, <1>3 DEF Fine

\* No rescue comes after the list.
LEMMA RescuesAdd ==
  ASSUME NEW es \in Seq(Items), NEW more \in Seq(Items), Without(more, "rescue")
  PROVE  /\ RescuesApart(es) => RescuesApart(es \o more)
         /\ Open(es \o more) \subseteq Open(es)
         /\ (\E i \in 1..Len(more) : IsAnswer(more[i])) => Open(es \o more) = {}
         /\ Dormant(es) /\ Without(more, "overflow") => Dormant(es \o more)
<1> DEFINE t == es \o more
           n == Len(es)
           m == Len(more)
<1>1. /\ t \in Seq(Items) /\ Len(t) = n + m /\ n \in Nat /\ m \in Nat
      /\ \A i \in 1..n : t[i] = es[i] /\ i \in 1..n + m
      /\ \A i \in 1..m : t[n + i] = more[i] /\ n + i \in 1..n + m
      /\ \A i \in 1..n + m : i \in 1..n \/ (i - n \in 1..m /\ t[i] = more[i - n])
  BY JoinIs
<1> HIDE DEF t
<1>2. ASSUME NEW i \in 1..n + m, t[i].kind = "rescue" PROVE i \in 1..n /\ es[i].kind = "rescue"
  BY <1>1, <1>2 DEF Without
<1>3. ASSUME RescuesApart(es) PROVE RescuesApart(t)
  <2> SUFFICES ASSUME NEW i \in 1..n + m, NEW j \in 1..n + m, i < j, t[i].kind = "rescue",
                      t[j].kind = "rescue"
               PROVE  \E k \in i..j : IsAnswer(t[k])
    BY <1>1 DEF RescuesApart
  <2>1. i \in 1..n /\ j \in 1..n /\ es[i].kind = "rescue" /\ es[j].kind = "rescue"
    BY <1>2
  <2>2. PICK k \in i..j : IsAnswer(es[k])
    BY <1>3, <2>1 DEF RescuesApart
  <2>3. k \in 1..n
    BY <2>1, <2>2
  <2> QED
    BY <1>1, <2>2, <2>3
<1>4. ASSUME NEW i \in Open(t)
      PROVE  i \in Open(es) /\ \A j \in 1..m : ~IsAnswer(more[j])
  <2>1. i \in 1..n + m /\ t[i].kind = "rescue" /\ \A j \in i..n + m : ~IsAnswer(t[j])
    BY <1>1, <1>4 DEF Open, Unanswered
  <2>2. i \in 1..n /\ es[i].kind = "rescue"
    BY <1>2, <2>1
  <2>3. ASSUME NEW j \in i..n PROVE ~IsAnswer(es[j])
    <3>1. j \in 1..n /\ j \in i..n + m
      BY <1>1, <2>2
    <3> QED
      BY <1>1, <2>1, <3>1
  <2>4. ASSUME NEW j \in 1..m PROVE ~IsAnswer(more[j])
    <3>1. n + j \in i..n + m
      BY <1>1, <2>2
    <3> QED
      BY <1>1, <2>1, <3>1
  <2> QED
    BY <2>2, <2>3, <2>4 DEF Open, Unanswered
<1>5. ASSUME Dormant(es), Without(more, "overflow") PROVE Dormant(t)
  <2> SUFFICES ASSUME NEW i \in Open(t), NEW j \in i..n + m PROVE t[j].kind # "overflow"
    BY <1>1 DEF Dormant
  <2>1. i \in Open(es) /\ i \in 1..n
    BY <1>4 DEF Open
  <2>2. CASE j \in 1..n
    <3>1. j \in i..n
      BY <1>1, <2>1, <2>2
    <3> QED
      BY <1>1, <1>5, <2>1, <2>2, <3>1 DEF Dormant
  <2>3. CASE j \notin 1..n
    <3>1. j \in 1..n + m
      BY <1>1, <2>1
    <3>2. j - n \in 1..m /\ t[j] = more[j - n]
      BY <1>1, <2>3, <3>1
    <3> QED
      BY <1>5, <3>2 DEF Without
  <2> QED
    BY <2>2, <2>3
<1> QED
  BY <1>3, <1>4, <1>5 DEF t

\* A rescue comes when every other is answered.
LEMMA RescuesOne ==
  ASSUME NEW es \in Seq(Items), NEW x \in Items, RescuesApart(es), Open(es) = {}
  PROVE  RescuesApart(es \o <<x>>)
<1> DEFINE t == es \o <<x>>
           n == Len(es)
<1>1. t \in Seq(Items) /\ Len(t) = n + 1 /\ n \in Nat /\ \A i \in 1..n : t[i] = es[i]
  BY OneMore
<1> HIDE DEF t
<1>2. SUFFICES ASSUME NEW i \in 1..n + 1, NEW j \in 1..n + 1, i < j, t[i].kind = "rescue",
                      t[j].kind = "rescue"
               PROVE  \E k \in i..j : IsAnswer(t[k])
  BY <1>1 DEF RescuesApart, t
<1>3. i \in 1..n /\ es[i].kind = "rescue"
  BY <1>1, <1>2
<1>4. CASE j \in 1..n
  <2>1. PICK k \in i..j : IsAnswer(es[k])
    BY <1>1, <1>2, <1>3, <1>4 DEF RescuesApart
  <2>2. k \in 1..n
    BY <1>3, <1>4, <2>1
  <2> QED
    BY <1>1, <2>1, <2>2
<1>5. CASE j \notin 1..n
  <2>1. PICK k \in i..n : IsAnswer(es[k])
    BY <1>3 DEF Open, Unanswered
  <2>2. k \in 1..n /\ k \in i..j
    BY <1>1, <1>2, <1>3, <1>5, <2>1
  <2> QED
    BY <1>1, <2>1, <2>2
<1> QED
  BY <1>4, <1>5

-----------------------------------------------------------------------------
(* The context of a longer list *)

LEMMA SubsIs ==
  ASSUME NEW A, NEW s \in Seq(A), NEW m \in Nat, NEW n \in Nat, 1 <= m, m <= n + 1, n <= Len(s)
  PROVE  /\ SubSeq(s, m, n) \in Seq(A) /\ Len(SubSeq(s, m, n)) = n + 1 - m
         /\ \A i \in 1..n + 1 - m : SubSeq(s, m, n)[i] = s[m + i - 1]
<1>1. Len(s) \in Nat
  OBVIOUS
<1>2. \A i \in m..n : s[i] \in A
  <2>1. \A i \in m..n : i \in 1..Len(s)
    BY <1>1
  <2> QED
    BY <2>1, ElementOfSeq
<1> QED
  BY <1>1, <1>2

\* The beginning of the joined list up to a position of the first one.
LEMMA SubJoin ==
  ASSUME NEW A, NEW s \in Seq(A), NEW t \in Seq(A), NEW n \in 0..Len(s)
  PROVE  /\ SubSeq(s \o t, 1, n) = SubSeq(s, 1, n)
         /\ SubSeq(s \o t, n + 1, Len(s \o t)) = SubSeq(s, n + 1, Len(s)) \o t
<1> DEFINE st == s \o t
<1>1. /\ st \in Seq(A) /\ Len(st) = Len(s) + Len(t) /\ Len(s) \in Nat /\ Len(t) \in Nat
      /\ \A i \in 1..Len(s) : st[i] = s[i]
      /\ \A i \in 1..Len(t) : st[Len(s) + i] = t[i]
  BY JoinIs
<1> HIDE DEF st
<1> DEFINE a == SubSeq(st, 1, n)
           b == SubSeq(s, 1, n)
           c == SubSeq(st, n + 1, Len(st))
           d == SubSeq(s, n + 1, Len(s))
<1>2. /\ a \in Seq(A) /\ Len(a) = n /\ \A i \in 1..n : a[i] = st[i]
      /\ b \in Seq(A) /\ Len(b) = n /\ \A i \in 1..n : b[i] = s[i]
  <2>1. n \in Nat /\ 1 \in Nat /\ 1 <= n + 1 /\ n <= Len(st) /\ n <= Len(s) /\ n + 1 - 1 = n
        /\ \A i \in 1..n : 1 + i - 1 = i
    BY <1>1
  <2> QED
    BY <1>1, <2>1, SubsIs
<1>3. /\ c \in Seq(A) /\ Len(c) = Len(st) - n /\ \A i \in 1..Len(st) - n : c[i] = st[n + i]
      /\ d \in Seq(A) /\ Len(d) = Len(s) - n /\ \A i \in 1..Len(s) - n : d[i] = s[n + i]
  <2>1. n + 1 \in Nat /\ Len(st) \in Nat /\ 1 <= n + 1 /\ n + 1 <= Len(st) + 1 /\ n + 1 <= Len(s) + 1
        /\ Len(st) + 1 - (n + 1) = Len(st) - n /\ Len(s) + 1 - (n + 1) = Len(s) - n
        /\ \A i \in Nat : n + 1 + i - 1 = n + i
    BY <1>1
  <2>2. (\A i \in 1..Len(st) - n : i \in Nat) /\ (\A i \in 1..Len(s) - n : i \in Nat)
    OBVIOUS
  <2>3. /\ c \in Seq(A) /\ Len(c) = Len(st) - n /\ \A i \in 1..Len(st) - n : c[i] = st[n + 1 + i - 1]
    BY <1>1, <2>1, SubsIs
  <2>4. /\ d \in Seq(A) /\ Len(d) = Len(s) - n /\ \A i \in 1..Len(s) - n : d[i] = s[n + 1 + i - 1]
    BY <1>1, <2>1, SubsIs
  <2> QED
    BY <2>1, <2>2, <2>3, <2>4
<1> HIDE DEF a, b, c, d
<1>4. a = b
  <2>1. ASSUME NEW i \in 1..n PROVE a[i] = b[i]
    <3>1. i \in 1..Len(s)
      BY <1>1
    <3> QED
      BY <1>1, <1>2, <3>1
  <2> QED
    BY <1>2, <2>1, SeqEqual
<1> DEFINE dt == d \o t
<1>5. /\ dt \in Seq(A) /\ Len(dt) = Len(d) + Len(t)
      /\ \A i \in 1..Len(d) : dt[i] = d[i]
      /\ \A i \in 1..Len(d) + Len(t) : i \in 1..Len(d) \/ (i - Len(d) \in 1..Len(t) /\ dt[i] = t[i - Len(d)])
  <2>1. d \in Seq(A)
    BY <1>3
  <2> HIDE DEF dt
  <2> QED
    BY <2>1, JoinIs, SMTT(20) DEF dt
<1> HIDE DEF dt
<1>6. c = dt
  <2>1. ASSUME NEW i \in 1..Len(c) PROVE c[i] = dt[i]
    <3>1. i \in 1..Len(d) + Len(t) /\ c[i] = st[n + i]
      BY <1>1, <1>3, <2>1
    <3>2. CASE i \in 1..Len(d)
      <4>1. n + i \in 1..Len(s) /\ i \in 1..Len(s) - n
        BY <1>1, <1>3, <3>2
      <4> QED
        BY <1>1, <1>3, <1>5, <3>1, <3>2, <4>1
    <3>3. CASE i \notin 1..Len(d)
      <4>1. i - Len(d) \in 1..Len(t) /\ dt[i] = t[i - Len(d)]
        BY <1>5, <3>1, <3>3
      <4>2. n + i = Len(s) + (i - Len(d))
        BY <1>1, <1>3
      <4> QED
        BY <1>1, <3>1, <4>1, <4>2
    <3> QED
      BY <3>2, <3>3
  <2>2. Len(c) = Len(dt)
    BY <1>1, <1>3, <1>5
  <2> QED
    BY <1>3, <1>5, <2>1, <2>2, SeqEqual
<1> QED
  BY <1>4, <1>6 DEF a, b, c, d, dt, st

Summaryless(more) == \A i \in 1..Len(more) : more[i].kind \notin SummaryKinds

\* What a summary keeps depends on nothing that follows it.
KeptOf(before, first, last) ==
  LET kept == {k \in DOMAIN before : before[k].n = first}
  IN  IF kept = {} THEN <<>>
      ELSE Only(SubSeq(before, CHOOSE k \in kept : TRUE, last), ItemsOf(Kinds \ SummaryKinds))

LEMMA KeptBeforeIs ==
  ASSUME NEW es
  PROVE  KeptBefore(es) = KeptOf(SubSeq(es, 1, LatestSummary(es) - 1), es[LatestSummary(es)].first,
                                 LatestSummary(es) - 1)
BY Zenon DEF KeptBefore, KeptOf

\* What follows a list without a summary follows its context.
LEMMA ContextAdd ==
  ASSUME NEW es \in Seq(Items), NEW more \in Seq(Items), Summaryless(more)
  PROVE  BuildContext(es \o more) = BuildContext(es) \o more
<1> DEFINE t == es \o more
           n == Len(es)
           i == LatestSummary(es)
<1>1. /\ t \in Seq(Items) /\ Len(t) = n + Len(more) /\ n \in Nat /\ Len(more) \in Nat
      /\ \A k \in 1..n : t[k] = es[k] /\ k \in 1..n + Len(more)
      /\ \A k \in 1..n + Len(more) : k \in 1..n \/ (k - n \in 1..Len(more) /\ t[k] = more[k - n])
  BY JoinIs
<1>2. Summaries(t) = Summaries(es)
  <2> HIDE DEF t
  <2>1. DOMAIN t = 1..n + Len(more) /\ DOMAIN es = 1..n
    BY <1>1
  <2> QED
    BY <1>1, <2>1 DEF Summaries, Summaryless
<1>3. LatestSummary(t) = i
  BY <1>2 DEF LatestSummary
<1>4. i \in 0..n
  BY LatestSummaryIs
<1>5. CASE i = 0
  <2>1. BuildContext(es) = es /\ BuildContext(t) = t
    BY <1>1, <1>3, <1>5, BuildContextIs
  <2> QED
    BY <2>1
<1>6. CASE i # 0
  <2> DEFINE one == <<es[i]>>
             keep == KeptBefore(es)
             after == SubSeq(es, i + 1, n)
  <2>1. SubSeq(t, 1, i - 1) = SubSeq(es, 1, i - 1)
    <3> DEFINE j == i - 1
    <3>1. j \in 0..n
      BY <1>4, <1>6
    <3> HIDE DEF j
    <3>2. SubSeq(t, 1, j) = SubSeq(es, 1, j)
      BY <3>1, SubJoin
    <3> QED
      BY <3>2 DEF j
  <2>2. SubSeq(t, i + 1, Len(t)) = after \o more
    BY <1>4, SubJoin
  <2>3. t[i] = es[i]
    BY <1>1, <1>4, <1>6
  <2>4. KeptBefore(t) = keep
    <3> HIDE DEF t
    <3>1. KeptBefore(t) = KeptOf(SubSeq(t, 1, i - 1), t[i].first, i - 1)
      BY <1>3, KeptBeforeIs, Zenon
    <3>2. keep = KeptOf(SubSeq(es, 1, i - 1), es[i].first, i - 1)
      BY KeptBeforeIs, Zenon
    <3> HIDE DEF keep, i
    <3> QED
      BY <2>1, <2>3, <3>1, <3>2, Zenon
  <2>5. BuildContext(es) = one \o keep \o after /\ keep \in Seq(Items)
    BY <1>6, BuildContextIs
  <2>6. BuildContext(t) = one \o keep \o (after \o more)
    <3>1. BuildContext(t) = <<t[LatestSummary(t)]>> \o KeptBefore(t) \o SubSeq(t, LatestSummary(t) + 1, Len(t))
      BY <1>1, <1>3, <1>6, BuildContextIs
    <3> HIDE DEF t, keep, after
    <3> QED
      BY <1>3, <2>2, <2>3, <2>4, <3>1, Zenon
  <2>7. one \in Seq(Items) /\ after \in Seq(Items)
    <3>1. i \in 1..n
      BY <1>4, <1>6
    <3>2. es[i] \in Items
      BY <3>1, ElementOfSeq
    <3>3. i + 1 \in Nat /\ n \in Nat /\ 1 <= i + 1 /\ i + 1 <= n + 1 /\ n <= Len(es)
      BY <1>1, <3>1
    <3>4. after \in Seq(Items)
      BY <3>3, SubsIs
    <3> QED
      BY <3>2, <3>4
  <2> HIDE DEF one, keep, after
  <2> DEFINE front == one \o keep
  <2>8. front \in Seq(Items)
    BY <2>5, <2>7
  <2>9. front \o (after \o more) = (front \o after) \o more
    <3> HIDE DEF front
    <3>1. Associates(front, after, more)
      BY <2>7, <2>8, JoinAssociates, Zenon
    <3> QED
      BY <3>1 DEF Associates
  <2> QED
    BY <2>5, <2>6, <2>9
<1> QED
  BY <1>5, <1>6

\* A context begins with the summary that comes last in its list.
LEMMA ContextOfSummary ==
  ASSUME NEW es \in Seq(Items), NEW x \in Items, x.kind \in SummaryKinds
  PROVE  LET context == BuildContext(es \o <<x>>)
         IN  context \in Seq(Items) /\ context # <<>> /\ context[1] = x
<1> DEFINE one == <<x>>
           t == es \o one
           n == Len(es)
           i == LatestSummary(t)
           context == BuildContext(t)
<1>0. one \in Seq(Items) /\ Len(one) = 1 /\ one[1] = x
  OBVIOUS
<1>1. /\ t \in Seq(Items) /\ Len(t) = n + 1 /\ n \in Nat /\ t[n + 1] = x
  BY OneMore
<1> HIDE DEF t
<1>2. n + 1 \in Summaries(t)
  BY <1>1 DEF Summaries
<1>3. i = n + 1
  <2>1. i \in 0..Len(t) /\ n + 1 <= i
    BY <1>1, <1>2, LatestSummaryIs
  <2> QED
    BY <1>1, <2>1
<1>4. i # 0
  BY <1>1, <1>3
<1>5. context = <<t[i]>> \o KeptBefore(t) \o SubSeq(t, i + 1, Len(t)) /\ KeptBefore(t) \in Seq(Items)
  BY <1>1, <1>4, BuildContextIs
<1>6. SubSeq(t, i + 1, Len(t)) = <<>>
  <2>1. i + 1 \in Nat /\ Len(t) \in Nat /\ 1 <= i + 1 /\ i + 1 <= Len(t) + 1 /\ Len(t) + 1 - (i + 1) = 0
    BY <1>1, <1>3
  <2> DEFINE empty == SubSeq(t, i + 1, Len(t))
  <2>2. empty \in Seq(Items) /\ Len(empty) = 0
    BY <1>1, <2>1, SubsIs
  <2> HIDE DEF empty
  <2>3. empty = <<>>
    BY <2>2, EmptySeq
  <2> QED
    BY <2>3 DEF empty
<1> DEFINE keep == KeptBefore(t)
<1>7. t[i] = x
  BY <1>1, <1>3
<1>8. context = (one \o keep) \o <<>>
  BY <1>5, <1>6, <1>7
<1> HIDE DEF keep, context, one, i
<1>9. keep \in Seq(Items)
  BY <1>5 DEF keep
<1>10. one \o keep \in Seq(Items) /\ Len(one \o keep) = 1 + Len(keep) /\ (one \o keep)[1] = x /\ Len(keep) \in Nat
  <2>1. 1 \in 1..Len(one)
    BY <1>0
  <2>2. one \in Seq(Items) /\ Len(one) = 1 /\ one[1] = x
    BY <1>0
  <2>3. one \o keep \in Seq(Items) /\ Len(one \o keep) = Len(one) + Len(keep) /\ Len(keep) \in Nat
    BY <1>9, <2>2, JoinIs
  <2>4. (one \o keep)[1] = one[1]
    BY <1>9, <2>1, <2>2, JoinIs
  <2> QED
    BY <2>2, <2>3, <2>4
<1>11. context = one \o keep
  BY <1>8, <1>10
<1>12. context \in Seq(Items) /\ context # <<>> /\ context[1] = x
  <2> DEFINE all == one \o keep
  <2>1. all \in Seq(Items) /\ Len(all) = 1 + Len(keep) /\ all[1] = x /\ Len(keep) \in Nat /\ context = all
    BY <1>10, <1>11
  <2> HIDE DEF all
  <2>2. all # <<>>
    <3>1. Len(all) # 0
      BY <2>1
    <3> QED
      BY <3>1
  <2> QED
    BY <2>1, <2>2
<1> QED
  BY <1>12 DEF context, t, one

\* What a retry or a recovery takes away is not counted.
Lasting == ItemsOf(Kinds \ RemovableKinds)
LEMMA KeptIs ==
  /\ \A s, t \in Seq(Items) : Kept(s \o t) = Kept(s) \o Kept(t)
  /\ \A ms \in Seq(Items) : ms # <<>> /\ IsRemovable(Last(ms)) => Kept(Front(ms)) = Kept(ms)
  /\ \A c : \A es \in Seq(Items) : Kept(Rebuilt(c, es)) = Kept(BuildContext(es)) /\ Rebuilt(c, es) \in Seq(Items)
<1>1. ASSUME NEW s \in Seq(Items), NEW t \in Seq(Items) PROVE Kept(s \o t) = Kept(s) \o Kept(t)
  BY OnlyJoin DEF Kept
<1>2. ASSUME NEW ms \in Seq(Items), ms # <<>>, IsRemovable(Last(ms)) PROVE Kept(Front(ms)) = Kept(ms)
  <2>1. /\ Front(ms) \in Seq(Items) /\ Len(ms) = Len(Front(ms)) + 1 /\ Last(ms) = ms[Len(ms)]
        /\ \A i \in 1..Len(Front(ms)) : ms[i] = Front(ms)[i]
    BY <1>2, DropReplyIs DEF Longer
  <2> DEFINE front == Front(ms)
  <2>2. front \in Seq(Items) /\ Len(ms) = Len(front) + 1 /\ \A i \in 1..Len(front) : ms[i] = front[i]
    BY <2>1
  <2> HIDE DEF front
  <2>3. ms[Len(ms)] \notin Lasting
    BY <1>2, <2>1 DEF IsRemovable, Lasting, ItemsOf
  <2>4. Only(ms, Lasting) = Only(front, Lasting)
    BY <2>2, <2>3, OnlyLonger
  <2> QED
    BY <2>4 DEF Kept, Lasting, front
<1>3. ASSUME NEW es \in Seq(Items), NEW c
      PROVE  Kept(Rebuilt(c, es)) = Kept(BuildContext(es)) /\ Rebuilt(c, es) \in Seq(Items)
  <2> DEFINE context == BuildContext(es)
  <2>1. context \in Seq(Items)
    BY BuildContextIs
  <2>2. Rebuilt(c, es) = context \/ (IsFailed(Last(context)) /\ Rebuilt(c, es) = Front(context))
    BY DEF Rebuilt
  <2> HIDE DEF context
  <2>3. CASE context = <<>>
    <3>1. Front(context) = context
      BY <2>3 DEF Front
    <3> QED
      BY <2>1, <2>2, <3>1 DEF context
  <2>4. CASE context # <<>> /\ IsFailed(Last(context)) /\ Rebuilt(c, es) = Front(context)
    <3>1. IsRemovable(Last(context))
      BY <2>4 DEF IsRemovable, IsFailed, RemovableKinds
    <3> QED
      BY <1>2, <2>1, <2>4, <3>1, DropReplyIs DEF context
  <2> QED
    BY <2>1, <2>2, <2>3, <2>4 DEF context
<1> QED
  BY <1>1, <1>2, <1>3

-----------------------------------------------------------------------------
(* The log: the entries of the file with the messages that wait for the handler *)

Log == entries \o Pend(events)

LEMMA LogIs ==
  ASSUME TypeOK
  PROVE  /\ entries \in Seq(Items) /\ Pend(events) \in Seq(Items) /\ Log \in Seq(Items)
         /\ events \in Seq(Events) /\ messages \in Seq(Items)
         /\ events = <<>> => Pend(events) = <<>> /\ Log = entries
<1>1. entries \in Seq(Items) /\ events \in Seq(Events) /\ messages \in Seq(Items)
  BY EntriesType DEF TypeOK, Events, EventTypes
<1>2. Pend(events) \in Seq(Items)
  BY <1>1, PendJoin
<1>3. events = <<>> => Pend(events) = <<>>
  BY PendEmpty
<1> DEFINE es == entries
           waits == Pend(events)
<1>4. es \in Seq(Items) /\ waits \in Seq(Items)
  BY <1>1, <1>2
<1> HIDE DEF es, waits
<1>5. es \o waits \in Seq(Items) /\ (waits = <<>> => es \o waits = es)
  BY <1>4
<1> QED
  BY <1>1, <1>2, <1>3, <1>5 DEF Log, es, waits

LEMMA LogStays ==
  ASSUME UNCHANGED <<events, files, current>>
  PROVE  Log' = Log /\ entries' = entries /\ Pend(events)' = Pend(events)
BY DEF Log, entries

\* The handler takes the first event: its message is written or there is none.
LEMMA LogHandled ==
  ASSUME TypeOK, HandleNext, current' = current,
         \/ Head(events).type = "message" /\ files' = AppendEntry(Head(events).item)
         \/ Head(events).type # "message" /\ files' = files
  PROVE  Log' = Log
<1> DEFINE item == Head(events).item
           rest == Pend(events')
           es == entries
<1>1. CASE Head(events).type # "message" /\ files' = files
  BY <1>1, PendNext DEF Log, entries
<1>2. CASE Head(events).type = "message" /\ files' = AppendEntry(Head(events).item)
  <2>1. Pend(events) = <<item>> \o rest /\ rest \in Seq(Items) /\ item \in Items /\ es \in Seq(Items)
    BY <1>2, PendNext, EntriesType
  <2>2. entries' = Append(es, item)
    <3>1. /\ files' = [files EXCEPT ![current] = Append(es, item)] /\ Append(es, item) \in Seq(Items)
      BY <1>2, <2>1, EntryAppended
    <3>2. files'[current] = Append(es, item)
      BY <3>1, FileReplaced
    <3> QED
      BY <3>2 DEF entries
  <2>3. Log' = Append(es, item) \o rest /\ Log = es \o (<<item>> \o rest)
    BY <2>1, <2>2 DEF Log
  <2> HIDE DEF es, rest, item
  <2> DEFINE one == <<item>>
  <2>4. one \in Seq(Items) /\ Append(es, item) = es \o one
    BY <2>1
  <2>5. Log' = (es \o one) \o rest /\ Log = es \o (one \o rest)
    BY <2>3, <2>4
  <2> HIDE DEF one
  <2>6. (es \o one) \o rest = es \o (one \o rest)
    <3>1. Associates(es, one, rest)
      BY <2>1, <2>4, JoinAssociates, Zenon
    <3> QED
      BY <3>1 DEF Associates
  <2> QED
    BY <2>5, <2>6
<1> QED
  BY <1>1, <1>2

\* What a run says is added to the log.
LEMMA LogSaid ==
  ASSUME TypeOK, NEW items, Emits(items), UNCHANGED <<files, current>>
  PROVE  /\ items \in Seq(Items) /\ messages' = messages \o items
         /\ Pend(events') = Pend(events) \o items /\ Log' = Log \o items
<1>1. PICK new : NewEvents(new, items) /\ events' = events \o new
  BY DEF Emits
<1>2. new \in Seq(Events) /\ items \in Seq(Items) /\ Pend(new) = items
  BY <1>1 DEF NewEvents
<1>3. Pend(events \o new) = Pend(events) \o Pend(new)
  BY <1>2, LogIs, PendJoin DEF Joins
<1>4. Pend(events') = Pend(events) \o items
  BY <1>1, <1>2, <1>3, Zenon
<1> DEFINE es == entries
           waits == Pend(events)
<1>5. es \in Seq(Items) /\ waits \in Seq(Items)
  BY LogIs
<1>6. Log' = es \o (waits \o items) /\ Log = es \o waits
  BY <1>4 DEF Log, entries
<1> HIDE DEF es, waits
<1>7. es \o (waits \o items) = (es \o waits) \o items
  <2>1. Associates(es, waits, items)
    BY <1>2, <1>5, JoinAssociates, Zenon
  <2> QED
    BY <2>1 DEF Associates
<1> QED
  BY <1>2, <1>4, <1>6, <1>7 DEF Emits

LEMMA LogEnded ==
  ASSUME TypeOK, EndRun
  PROVE  Pend(events') = Pend(events) /\ Log' = Log /\ messages' = messages
<1> USE DEF RunVars, fileVars
<1>1. UNCHANGED <<messages, files, current>> /\ events' = Emitted(<<Event("agent_end", NoItem)>>)
  BY DEF EndRun
<1> DEFINE e == Event("agent_end", NoItem)
<1>2. e \in Events /\ e.type # "message"
  BY EventIs, NoItemIs DEF Events, EventTypes, Event
<1>3. events' = events \/ events' = events \o <<e>>
  BY <1>1 DEF Emitted
<1> HIDE DEF e
<1> DEFINE one == <<e>>
           waits == Pend(events)
<1>4. Pend(one) = <<>> /\ one \in Seq(Events)
  <2>1. Pend(<<e>>) = <<>>
    BY <1>2, PendOne
  <2> QED
    BY <1>2, <2>1
<1> HIDE DEF one
<1>5. Pend(events \o one) = waits \o <<>> /\ waits \in Seq(Items)
  BY <1>4, LogIs, PendJoin DEF Joins
<1> HIDE DEF waits
<1>6. waits \o <<>> = waits
  BY <1>5
<1>7. Pend(events') = Pend(events)
  BY <1>3, <1>5, <1>6 DEF waits, one
<1> QED
  BY <1>1, <1>7 DEF Log, entries

\* What is written with no event waiting is added to the log.
LEMMA LogWritten ==
  ASSUME TypeOK, events = <<>>, UNCHANGED <<events, current>>, NEW more \in Seq(Items),
         files' = [files EXCEPT ![current] = entries \o more]
  PROVE  Log' = Log \o more /\ entries' = Log' /\ Pend(events)' = <<>>
<1> DEFINE es == entries
<1>1. es \in Seq(Items) /\ Pend(events) = <<>> /\ Log = es
  BY LogIs
<1>2. es \o more \in Seq(Items)
  <2> HIDE DEF es
  <2> QED
    BY <1>1
<1>3. entries' = es \o more
  <2> DEFINE all == es \o more
  <2>1. all \in Seq(Items) /\ files' = [files EXCEPT ![current] = all]
    BY <1>2
  <2> HIDE DEF all
  <2>2. files'[current] = all
    BY <2>1, FileReplaced
  <2> QED
    BY <2>2 DEF all, entries
<1>4. Log' = entries' \o <<>>
  BY <1>1 DEF Log
<1> HIDE DEF es
<1>5. (es \o more) \o <<>> = es \o more
  BY <1>2
<1> QED
  BY <1>1, <1>3, <1>4, <1>5

LEMMA LogAppended ==
  ASSUME TypeOK, events = <<>>, UNCHANGED <<events, current>>, NEW item \in Items,
         files' = AppendEntry(item)
  PROVE  Log' = Log \o <<item>> /\ entries' = Log' /\ Pend(events)' = <<>>
<1> DEFINE es == entries
           one == <<item>>
<1>1. es \in Seq(Items) /\ one \in Seq(Items) /\ Append(es, item) = es \o one
  <2>1. es \in Seq(Items)
    BY LogIs
  <2> HIDE DEF es
  <2> QED
    BY <2>1
<1>2. files' = [files EXCEPT ![current] = es \o one]
  BY <1>1, EntryAppended
<1> HIDE DEF one
<1>3. Log' = Log \o one /\ entries' = Log' /\ Pend(events)' = <<>>
  BY <1>1, <1>2, LogWritten
<1> QED
  BY <1>3 DEF one

-----------------------------------------------------------------------------
(* The agent's messages and the log *)

\* The messages are those that the log gives back, but for replies taken away.
Mirror == Kept(messages) = Kept(BuildContext(Log))
Within == ToSet(messages) \subseteq ToSet(Log)
\* The last message of a run that ends, or whose events wait, is its reply.
Over == ending # "none" \/ (~streaming /\ events # <<>>)
EndsWith(last) == EndsWithAssistant(messages) /\ Last(messages) = last
FinalReply ==
  Over => /\ EndsWith(IF Pend(events) = <<>> THEN lastAssistant
                      ELSE Pend(events)[Len(Pend(events))])
          /\ ending # "none" => ending = Last(messages).kind

LEMMA FinalIdle ==
  ASSUME Phases', (~streaming' /\ events' = <<>>) \/ (streaming' /\ ending' = "none")
  PROVE  FinalReply'
BY DEF FinalReply, Over, Phases, Runs

LEMMA FinalSame ==
  ASSUME FinalReply, UNCHANGED <<messages, events, lastAssistant, ending, streaming>>
  PROVE  FinalReply'
BY DEF FinalReply, Over, EndsWith, EndsWithAssistant

\* The handler has read all that a run said when it reads its end.
LEMMA EndRead ==
  ASSUME TypeOK, EventsInOrder, HandleNext, Head(events).type = "agent_end"
  PROVE  ~streaming /\ events' = <<>> /\ Pend(events) = <<>> /\ events # <<>>
<1>1. events \in Seq(Events) /\ events # <<>> /\ events' = Tail(events)
  BY LogIs DEF HandleNext
<1>2. Len(events) \in Nat \ {0} /\ Head(events) = events[1] /\ 1 \in 1..Len(events)
  BY <1>1
<1>3. ~streaming /\ 1 = Len(events)
  BY <1>2 DEF EventsInOrder
<1>4. events' = <<>>
  BY <1>1, <1>3
<1>5. Pend(events') = Pend(events)
  BY PendNext
<1> QED
  BY <1>1, <1>3, <1>4, <1>5, PendEmpty

\* A message at the head of the events is the last only if no other follows.
LEMMA FinalHandled ==
  ASSUME TypeOK, FinalReply, HandleNext, UNCHANGED <<messages, ending, streaming>>,
         \/ Head(events).type # "message" /\ lastAssistant' = lastAssistant
         \/ Head(events).type = "message" /\ IsAssistant(Head(events).item)
            /\ lastAssistant' = Head(events).item
         \/ Head(events).type = "message" /\ ~IsAssistant(Head(events).item)
            /\ lastAssistant' = lastAssistant
  PROVE  FinalReply'
<1> SUFFICES ASSUME Over' PROVE FinalReply'
  BY DEF FinalReply
<1> DEFINE item == Head(events).item
           old == Pend(events)
           new == Pend(events')
<1>1. Over
  BY DEF Over, HandleNext
<1>2. EndsWith(IF old = <<>> THEN lastAssistant ELSE old[Len(old)])
      /\ (ending # "none" => ending = Last(messages).kind)
  BY <1>1 DEF FinalReply
<1>3. CASE Head(events).type # "message"
  <2>1. new = old
    BY <1>3, PendNext
  <2> QED
    BY <1>2, <1>3, <2>1 DEF FinalReply, EndsWith, EndsWithAssistant
<1>4. CASE Head(events).type = "message"
  <2>1. old = <<item>> \o new /\ new \in Seq(Items) /\ item \in Items
    BY <1>4, PendNext
  <2> HIDE DEF old, new, item
  <2> DEFINE one == <<item>>
  <2>2. one \in Seq(Items) /\ Len(one) = 1 /\ one[1] = item /\ old = one \o new
    BY <2>1
  <2> HIDE DEF one
  <2>3. /\ old \in Seq(Items) /\ Len(old) = 1 + Len(new) /\ Len(new) \in Nat /\ old[1] = item
        /\ \A i \in 1..Len(new) : old[1 + i] = new[i]
    <3>1. 1 \in 1..Len(one)
      BY <2>2
    <3> QED
      BY <2>1, <2>2, <3>1, JoinIs
  <2>4. old # <<>>
    <3>1. Len(old) # 0
      BY <2>3
    <3> QED
      BY <3>1
  <2>5. EndsWith(old[Len(old)])
    BY <1>2, <2>4 DEF old
  <2>6. CASE new = <<>>
    <3>1. Len(new) = 0
      BY <2>6
    <3>2. old[Len(old)] = item
      BY <2>3, <3>1
    <3>3. IsAssistant(item)
      BY <2>5, <3>2 DEF EndsWith, EndsWithAssistant
    <3>4. lastAssistant' = item
      BY <1>4, <3>3 DEF item
    <3> QED
      BY <1>2, <2>5, <2>6, <3>2, <3>4 DEF FinalReply, EndsWith, EndsWithAssistant, new
  <2>7. CASE new # <<>>
    <3>1. Len(new) \in 1..Len(new)
      <4>1. Len(new) # 0
        BY <2>1, <2>7, EmptySeq
      <4> QED
        BY <2>3, <4>1
    <3>2. old[Len(old)] = new[Len(new)]
      BY <2>3, <3>1
    <3> QED
      BY <1>2, <2>5, <2>7, <3>2 DEF FinalReply, EndsWith, EndsWithAssistant, new
  <2> QED
    BY <2>6, <2>7
<1> QED
  BY <1>3, <1>4

\* The last reply of a run.
LEMMA FinalSaid ==
  ASSUME TypeOK, connected, NEW kind \in AssistantKinds, LastReply(kind)
  PROVE  FinalReply'
<1> DEFINE item == Item(kind)
<1>1. item \in Items /\ item.kind = kind
  <2>1. kind \in Kinds
    BY DEF Kinds
  <2> QED
    BY <2>1, ItemIs DEF Item
<1>2. Emits(<<item>>) /\ UNCHANGED <<files, current>> /\ ending' = kind /\ messages' = Append(messages, item)
  BY RunEmits DEF LastReply, ReplyVars, RunVars, fileVars
<1>3. messages \in Seq(Items) /\ Pend(events) \in Seq(Items)
  BY LogIs
<1> HIDE DEF item
<1>4. EndsWithAssistant(messages') /\ Last(messages') = item
  <2>1. messages' \in Seq(Items) /\ messages' # <<>> /\ Len(messages') \in Nat /\ messages'[Len(messages')] = item
    BY <1>1, <1>2, <1>3
  <2>2. Last(messages') = item
    BY <2>1 DEF Last
  <2> QED
    BY <1>1, <2>1, <2>2 DEF EndsWithAssistant, IsAssistant
<1> DEFINE one == <<item>>
           old == Pend(events)
           new == Pend(events')
<1>5. new = old \o one
  BY <1>2, LogSaid
<1>6. one \in Seq(Items) /\ Len(one) = 1 /\ one[1] = item /\ 1 \in 1..Len(one) /\ old \in Seq(Items)
  BY <1>1, <1>3
<1>a. new = Pend(events')
  OBVIOUS
<1> HIDE DEF one, old, new
<1>7. Len(new) = Len(old) + 1 /\ new[Len(old) + 1] = item /\ Len(old) \in Nat
  <2>1. new = old \o <<item>>
    BY <1>5 DEF one
  <2> QED
    BY <1>1, <1>6, <2>1, OneMore
<1>8. new # <<>> /\ new[Len(new)] = item
  <2>1. Len(new) # 0
    BY <1>7
  <2> QED
    BY <1>7, <2>1
<1> QED
  BY <1>1, <1>2, <1>4, <1>8, <1>a DEF FinalReply, EndsWith

-----------------------------------------------------------------------------
(* What a step does to the log and to the agent's messages *)

AllOf(items, kinds) == items \in Seq(Items) /\ \A i \in 1..Len(items) : items[i].kind \in kinds

\* A list of kinds other than some has none of these.
LEMMA AllOfIs ==
  ASSUME NEW items, NEW kinds, AllOf(items, kinds)
  PROVE  /\ kinds \cap SummaryKinds = {} => Summaryless(items)
         /\ \A kind : kind \notin kinds => Without(items, kind)
         /\ items \in Seq(Items)
         /\ \A more : kinds \subseteq more => AllOf(items, more)
BY DEF AllOf, Summaryless, Without

LEMMA AllOfFew ==
  ASSUME NEW x \in Items, NEW y \in Items
  PROVE  /\ AllOf(<<x>>, {x.kind}) /\ AllOf(<<x, y>>, {x.kind, y.kind}) /\ AllOf(<<>>, {})
<1>1. <<x>> \in Seq(Items) /\ Len(<<x>>) = 1 /\ <<x>>[1] = x
  OBVIOUS
<1>2. <<x, y>> \in Seq(Items) /\ Len(<<x, y>>) = 2 /\ <<x, y>>[1] = x /\ <<x, y>>[2] = y
  OBVIOUS
<1>3. <<>> \in Seq(Items) /\ Len(<<>>) = 0 /\ 1..0 = {}
  OBVIOUS
<1>4. 1..1 = {1} /\ 1..2 = {1, 2}
  OBVIOUS
<1> DEFINE one == <<x>>
           two == <<x, y>>
<1>5. AllOf(one, {x.kind})
  <2>1. one \in Seq(Items) /\ Len(one) = 1 /\ one[1] = x
    BY <1>1
  <2> HIDE DEF one
  <2> QED
    BY <1>4, <2>1 DEF AllOf
<1>6. AllOf(two, {x.kind, y.kind})
  <2>1. two \in Seq(Items) /\ Len(two) = 2 /\ two[1] = x /\ two[2] = y
    BY <1>2
  <2> HIDE DEF two
  <2> QED
    BY <1>4, <2>1 DEF AllOf
<1>7. AllOf(<<>>, {})
  BY <1>3 DEF AllOf
<1> QED
  BY <1>5, <1>6, <1>7

\* What a step of a run says.
Tells(kinds) == \E items : Emits(items) /\ AllOf(items, kinds)
LEMMA RunTells ==
  ASSUME TypeOK, Sorts, connected
  PROVE  /\ ReplyAndGoOn => Tells({"ok", "result"})
         /\ ReplyAndDeliver => Tells({"ok", "user"})
         /\ \A kind \in AssistantKinds :
              LastReply(kind) => Emits(<<Item(kind)>>) /\ AllOf(<<Item(kind)>>, {kind})
                                 /\ Item(kind) \in Items
         /\ Continue => Tells({"user"})
         /\ \A c \in Callers : \A user : UserItem(user) /\ PromptStartWith(c, user) =>
              Emits(<<user>>) /\ AllOf(<<user>>, {"user"}) /\ user \in Items
<1>a. \A kind \in Kinds : Item(kind) \in Items /\ Item(kind).kind = kind
  BY ItemIs DEF Item
<1>b. "ok" \in Kinds /\ AssistantKinds \subseteq Kinds /\ queued \in Seq(Items)
  BY DEF Kinds, AssistantKinds, TypeOK
<1>c. queued # <<>> => Head(queued) \in Items /\ Head(queued).kind = "user"
  <2> SUFFICES ASSUME queued # <<>> PROVE Head(queued) \in Items /\ Head(queued).kind = "user"
    OBVIOUS
  <2>1. Head(queued) = queued[1] /\ 1 \in 1..Len(queued) /\ Head(queued) \in Items
    BY <1>b
  <2>2. queued[1] \in ToSet(queued)
    BY <1>b, <2>1, InSet
  <2> QED
    BY <2>1, <2>2 DEF Sorts
<1>1. ReplyAndGoOn => Tells({"ok", "result"})
  <2> SUFFICES ASSUME ReplyAndGoOn PROVE Tells({"ok", "result"})
    OBVIOUS
  <2>1. PICK result \in Items : result.kind = "result" /\ Emits(<<Item("ok"), result>>)
    BY RunEmits
  <2>2. AllOf(<<Item("ok"), result>>, {"ok", "result"})
    <3>1. Item("ok") \in Items /\ Item("ok").kind = "ok"
      BY <1>a, <1>b
    <3>2. AllOf(<<Item("ok"), result>>, {Item("ok").kind, result.kind})
      BY <2>1, <3>1, AllOfFew
    <3> QED
      BY <2>1, <3>1, <3>2
  <2> QED
    BY <2>1, <2>2 DEF Tells
<1>2. ReplyAndDeliver => Tells({"ok", "user"})
  <2> SUFFICES ASSUME ReplyAndDeliver PROVE Tells({"ok", "user"})
    OBVIOUS
  <2>1. Emits(<<Item("ok"), Head(queued)>>) /\ queued # <<>>
    BY RunEmits DEF ReplyAndDeliver
  <2>2. AllOf(<<Item("ok"), Head(queued)>>, {"ok", "user"})
    <3>1. Item("ok") \in Items /\ Item("ok").kind = "ok"
      BY <1>a, <1>b
    <3>2. AllOf(<<Item("ok"), Head(queued)>>, {Item("ok").kind, Head(queued).kind})
      BY <1>c, <2>1, <3>1, AllOfFew
    <3> QED
      BY <1>c, <2>1, <3>1, <3>2
  <2> QED
    BY <2>1, <2>2 DEF Tells
<1>3. ASSUME NEW kind \in AssistantKinds, LastReply(kind)
      PROVE  Emits(<<Item(kind)>>) /\ AllOf(<<Item(kind)>>, {kind}) /\ Item(kind) \in Items
  <2>1. Emits(<<Item(kind)>>)
    BY <1>3, RunEmits
  <2>2. Item(kind) \in Items /\ Item(kind).kind = kind
    BY <1>a, <1>b
  <2>3. AllOf(<<Item(kind)>>, {Item(kind).kind})
    BY <2>2, AllOfFew
  <2> QED
    BY <2>1, <2>2, <2>3
<1>4. Continue => Tells({"user"})
  <2> SUFFICES ASSUME Continue PROVE Tells({"user"})
    OBVIOUS
  <2>1. CASE EndsWithAssistant(messages)
    <3>1. queued # <<>> /\ Emits(<<Head(queued)>>)
      BY <2>1, RunEmits
    <3>2. AllOf(<<Head(queued)>>, {Head(queued).kind})
      BY <1>c, <3>1, AllOfFew
    <3>3. AllOf(<<Head(queued)>>, {"user"})
      BY <1>c, <3>1, <3>2
    <3> QED
      BY <3>1, <3>3 DEF Tells
  <2>2. CASE ~EndsWithAssistant(messages)
    <3>1. Emits(<<>>)
      BY <2>2, RunEmits
    <3>2. AllOf(<<>>, {"user"})
      <4>1. Len(<<>>) = 0 /\ 1..0 = {} /\ <<>> \in Seq(Items)
        OBVIOUS
      <4> QED
        BY <4>1 DEF AllOf
    <3> QED
      BY <3>1, <3>2 DEF Tells
  <2> QED
    BY <2>1, <2>2
<1>5. ASSUME NEW c \in Callers, NEW user, UserItem(user), PromptStartWith(c, user)
      PROVE  Emits(<<user>>) /\ AllOf(<<user>>, {"user"}) /\ user \in Items
  <2>1. user \in Items /\ user.kind = "user"
    BY <1>5 DEF UserItem, Items, ItemsOf, Kinds
  <2>2. Emits(<<user>>)
    BY <1>5, <2>1, RunEmits
  <2>3. AllOf(<<user>>, {user.kind})
    BY <2>1, AllOfFew
  <2> QED
    BY <2>1, <2>2, <2>3
<1> QED
  BY <1>1, <1>2, <1>3, <1>4, <1>5

\* The ways a step leaves the log and the messages.
Rests == UNCHANGED current /\ Log' = Log /\ messages' = messages
Says(items) ==
  /\ UNCHANGED current /\ items \in Seq(Items) /\ Summaryless(items)
  /\ Log' = Log \o items /\ messages' = messages \o items
Drops ==
  /\ UNCHANGED current /\ Log' = Log
  /\ messages # <<>> /\ IsRemovable(Last(messages)) /\ messages' = Front(messages)
Sums(c, item) ==
  /\ UNCHANGED current /\ item \in Items /\ item.kind \in SummaryKinds /\ item.n = clock + 1
  /\ Log' = Log \o <<item>> /\ messages' = Rebuilt(c, Log')
Leaves == current' # current /\ Log' = <<>> /\ messages' = <<>>
Returns ==
  /\ Log' \in Seq(Items) /\ messages' = BuildContext(Log')
  /\ current' = current => Log' = Log
Story ==
  \/ Rests \/ Drops \/ Leaves \/ Returns
  \/ \E items : Says(items)
  \/ \E c, item : Sums(c, item)

LEMMA StoryKeeps ==
  ASSUME TypeOK, Mirror, Within, Story
  PROVE  Mirror' /\ Within'
<1>a. Log \in Seq(Items) /\ messages \in Seq(Items)
  BY LogIs
<1>1. CASE Rests
  BY <1>1 DEF Rests, Mirror, Within
<1>2. CASE Drops
  <2>1. Kept(messages') = Kept(messages)
    BY <1>2, <1>a, KeptIs DEF Drops
  <2>2. ToSet(messages') \subseteq ToSet(messages)
    BY <1>2, <1>a, SetOfRest DEF Drops
  <2> QED
    BY <1>2, <2>1, <2>2 DEF Drops, Mirror, Within
<1>3. CASE Leaves
  <2>1. BuildContext(<<>>) = <<>>
    <3>1. Summaries(<<>>) = {}
      BY DEF Summaries
    <3> QED
      BY <3>1 DEF BuildContext, LatestSummary
  <2> QED
    BY <1>3, <2>1 DEF Leaves, Mirror, Within
<1>4. CASE Returns
  <2>1. ToSet(BuildContext(Log')) \subseteq ToSet(Log')
    BY <1>4, SetOfContext DEF Returns
  <2> QED
    BY <1>4, <2>1 DEF Returns, Mirror, Within
<1>5. ASSUME NEW items, Says(items) PROVE Mirror' /\ Within'
  <2>1. /\ items \in Seq(Items) /\ Summaryless(items)
        /\ Log' = Log \o items /\ messages' = messages \o items
    BY <1>5 DEF Says
  <2> DEFINE context == BuildContext(Log)
  <2>2. context \in Seq(Items) /\ BuildContext(Log') = context \o items
    BY <1>a, <2>1, BuildContextIs, ContextAdd
  <2> HIDE DEF context
  <2>3. Kept(BuildContext(Log')) = Kept(context) \o Kept(items)
    BY <2>1, <2>2, KeptIs
  <2>4. Kept(messages') = Kept(messages) \o Kept(items)
    BY <1>a, <2>1, KeptIs
  <2>5. Mirror'
    BY <2>3, <2>4 DEF Mirror, context
  <2>6. ToSet(Log') = ToSet(Log) \cup ToSet(items) /\ ToSet(messages') = ToSet(messages) \cup ToSet(items)
    BY <1>a, <2>1, SetOfJoin
  <2> QED
    BY <2>5, <2>6 DEF Within
<1>6. ASSUME NEW c, NEW item, Sums(c, item) PROVE Mirror' /\ Within'
  <2>1. Log' \in Seq(Items) /\ messages' = Rebuilt(c, Log')
    <3>1. item \in Items /\ Log' = Log \o <<item>> /\ messages' = Rebuilt(c, Log')
      BY <1>6 DEF Sums
    <3> QED
      BY <1>a, <3>1, OneMore
  <2>2. Kept(messages') = Kept(BuildContext(Log'))
    BY <2>1, KeptIs
  <2>3. ToSet(messages') \subseteq ToSet(Log')
    BY <2>1, SetOfRebuilt
  <2> QED
    BY <2>2, <2>3 DEF Mirror, Within
<1> QED
  BY <1>1, <1>2, <1>3, <1>4, <1>5, <1>6 DEF Story

\* A step that takes the last message away takes one that failed or overflowed.
LEMMA StoryDrops ==
  ASSUME TypeOK, Mirror, Past, Story, messages # <<>>, messages' = Front(messages), current' = current
  PROVE  IsRemovable(Last(messages))
<1> DEFINE front == Front(messages)
           last == Last(messages)
<1>a. /\ messages \in Seq(Items) /\ front \in Seq(Items) /\ last \in Items
      /\ Len(messages) = Len(front) + 1 /\ Len(front) \in Nat /\ Longer(messages, front, last)
      /\ ToSet(front) \subseteq ToSet(messages) /\ messages' = front
  <2>1. messages \in Seq(Items)
    BY LogIs
  <2>2. /\ front \in Seq(Items) /\ last \in Items /\ Len(front) = Len(messages) - 1
        /\ Longer(messages, front, last)
    BY <2>1, DropReplyIs
  <2>3. ToSet(front) \subseteq ToSet(messages)
    BY <2>1, SetOfRest
  <2> QED
    BY <2>1, <2>2, <2>3
<1> HIDE DEF front, last
<1>b. SUFFICES ASSUME ~IsRemovable(last) PROVE FALSE
  BY DEF last
<1>1. CASE Rests
  BY <1>1, <1>a DEF Rests
<1>2. CASE Drops
  BY <1>2, <1>b DEF Drops, last
<1>3. CASE Leaves
  BY <1>3 DEF Leaves
<1>4. CASE Returns
  <2>1. Kept(messages') = Kept(messages)
    BY <1>4 DEF Returns, Mirror
  <2>2. last \in Lasting
    BY <1>a, <1>b DEF Lasting, Items, ItemsOf, IsRemovable
  <2> DEFINE kept == Kept(front)
  <2>3. Kept(messages) = Append(kept, last) /\ kept \in Seq(Items)
    <3>1. Only(messages, Lasting) = Append(Only(front, Lasting), last)
      BY <1>a, <2>2, OnlyLonger DEF Longer
    <3>2. Only(front, Lasting) \in Seq(Items)
      BY <1>a, OnlyType
    <3> QED
      BY <3>1, <3>2 DEF Kept, Lasting
  <2>4. kept = Append(kept, last)
    BY <1>a, <2>1, <2>3
  <2> HIDE DEF kept
  <2>5. Len(kept) \in Nat /\ Len(Append(kept, last)) = Len(kept) + 1
    BY <2>3
  <2> QED
    BY <2>4, <2>5
<1>5. ASSUME NEW items, Says(items) PROVE FALSE
  <2>1. items \in Seq(Items) /\ messages' = messages \o items
    BY <1>5 DEF Says
  <2>2. Len(messages \o items) = Len(messages) + Len(items) /\ Len(items) \in Nat
    BY <1>a, <2>1, JoinIs
  <2> QED
    BY <1>a, <2>1, <2>2
<1>6. ASSUME NEW c, NEW item, Sums(c, item) PROVE FALSE
  <2>1. /\ item \in Items /\ item.kind \in SummaryKinds /\ item.n = clock + 1
        /\ Log' = Log \o <<item>> /\ messages' = Rebuilt(c, Log')
    BY <1>6 DEF Sums
  <2> DEFINE context == BuildContext(Log')
  <2>2. context \in Seq(Items) /\ context # <<>> /\ context[1] = item
    <3>1. Log \in Seq(Items)
      BY LogIs
    <3> QED
      BY <2>1, <3>1, ContextOfSummary
  <2>3. messages' = context \/ (IsFailed(Last(context)) /\ messages' = Front(context))
    BY <2>1 DEF Rebuilt
  <2> HIDE DEF context
  <2>4. /\ Len(context) \in Nat \ {0} /\ Last(context) = context[Len(context)]
        /\ Front(context) \in Seq(Items) /\ Len(Front(context)) = Len(context) - 1
        /\ \A i \in 1..Len(context) - 1 : Front(context)[i] = context[i]
    <3>1. Len(context) \in Nat /\ Len(context) # 0
      BY <2>2, EmptySeq
    <3> QED
      BY <2>2, <3>1, DropReplyIs
  <2>5. item \in ToSet(messages')
    <3>1. CASE messages' = context
      BY <2>2, <2>4, <3>1, InSet
    <3>2. CASE IsFailed(Last(context)) /\ messages' = Front(context)
      <4>1. Len(context) # 1
        BY <2>1, <2>2, <2>4, <3>2 DEF IsFailed, FailureKinds, SummaryKinds
      <4>2. 1 \in 1..Len(context) - 1 /\ 1 \in 1..Len(Front(context))
        BY <2>4, <4>1
      <4>3. Front(context)[1] = item
        BY <2>2, <2>4, <4>2
      <4> QED
        BY <2>4, <3>2, <4>2, <4>3, InSet
    <3> QED
      BY <2>3, <3>1, <3>2
  <2>6. item \in Waiting
    BY <1>a, <2>5 DEF Waiting
  <2>7. item.n <= clock /\ clock \in Nat
    BY <2>6 DEF Past, TypeOK
  <2> QED
    BY <2>1, <2>7
<1> QED
  BY <1>1, <1>2, <1>3, <1>4, <1>5, <1>6 DEF Story

\* The messages grow in a step that disturbs the session.
Grown == disturbed' /\ \E more \in Seq(Items) : messages' = messages \o more

LEMMA EmitsStory ==
  ASSUME TypeOK, NEW items, NEW kinds, Emits(items), AllOf(items, kinds),
         kinds \cap SummaryKinds = {}, UNCHANGED <<files, current>>
  PROVE  Says(items)
BY LogSaid, AllOfIs DEF Says

LEMMA TellsStory ==
  ASSUME TypeOK, NEW kinds, Tells(kinds), kinds \cap SummaryKinds = {}, UNCHANGED <<files, current>>
  PROVE  Story
<1>1. PICK items : Emits(items) /\ AllOf(items, kinds)
  BY DEF Tells
<1>2. Says(items)
  BY <1>1, EmitsStory
<1> QED
  BY <1>2 DEF Story

LEMMA RestsStory ==
  ASSUME UNCHANGED <<events, files, current, messages>>
  PROVE  Story
BY LogStays DEF Story, Rests

\* A compaction goes on while nothing else does.
LEMMA SumsAlone ==
  ASSUME TypeOK, Phases, Calm, NEW w \in Workers, compaction[w].phase # "none"
  PROVE  ~streaming /\ events = <<>>
<1>1. InProgress(w)
  BY DEF Phases, Underway
<1> QED
  BY <1>1 DEF InProgress, Calm, Busy

LEMMA CompactsStory ==
  ASSUME TypeOK, Phases, Calm, NEW w \in Workers, Compacts(w)
  PROVE  Story
<1> USE DEF agentVars, retryVars, compactVars, viewVars, fileVars, handlerVars
<1>1. CASE PrepareCompaction(w) \/ StopCompaction(w)
  BY <1>1, RestsStory DEF PrepareCompaction, StopCompaction
<1>2. ASSUME NEW waiting \in BOOLEAN, FinishCompactionWith(w, waiting) PROVE Story
  <2> DEFINE c == compaction[w]
             item == Summary(c)
  <2>1. /\ files' = AppendEntry(item) /\ messages' = Rebuilt(c, files'[current])
        /\ UNCHANGED <<events, current>> /\ c.phase # "none"
    BY <1>2 DEF FinishCompactionWith
  <2>2. item \in Items /\ item.kind \in SummaryKinds /\ item.n = clock + 1
    BY SummaryIs DEF SummaryKinds
  <2>3. events = <<>>
    BY <2>1, SumsAlone
  <2> HIDE DEF item
  <2>4. Log' = Log \o <<item>> /\ entries' = Log'
    BY <2>1, <2>2, <2>3, LogAppended
  <2>5. messages' = Rebuilt(c, Log')
    BY <2>1, <2>4 DEF entries
  <2>6. Sums(c, item)
    BY <2>1, <2>2, <2>4, <2>5 DEF Sums
  <2> QED
    BY <2>6 DEF Story
<1> QED
  BY <1>1, <1>2 DEF Compacts

\* A reply that is taken away for a recovery is the last message.
LEMMA DropsStory ==
  ASSUME TypeOK, UNCHANGED current, Log' = Log, messages' = DropReply(messages),
         EndsWithAssistant(messages) => IsRemovable(Last(messages))
  PROVE  Story
<1>1. CASE EndsWithAssistant(messages)
  BY <1>1 DEF Story, Drops, DropReply, EndsWithAssistant
<1>2. CASE ~EndsWithAssistant(messages)
  BY <1>2 DEF Story, Rests, DropReply
<1> QED
  BY <1>1, <1>2

LEMMA CallerStory ==
  ASSUME TypeOK, Phases, Calm, Sorts, NEW c \in Callers,
         BeginsPrompt(c) \/ PromptCheck(c) \/ StartsPrompt(c) \/ GivesUpPrompt(c)
  PROVE  Story \/ Grown
<1> USE DEF agentVars, retryVars, compactVars, viewVars, fileVars, handlerVars
<1>1. CASE BeginsPrompt(c)
  <2>1. PICK more : UserItems(more) /\ PromptBeginWith(c, more)
    BY <1>1 DEF BeginsPrompt
  <2>2. /\ messages' = messages \o pendingBash
        /\ files' = [files EXCEPT ![current] = entries \o pendingBash]
        /\ UNCHANGED <<events, current>> /\ disturbed' = (disturbed \/ ~Quiet)
    BY <2>1 DEF PromptBeginWith, entries, Disturb
  <2>3. pendingBash \in Seq(Items) /\ Summaryless(pendingBash)
    <3>1. pendingBash \in Seq(Items)
      BY DEF TypeOK
    <3>2. \A i \in 1..Len(pendingBash) : pendingBash[i] \in ToSet(pendingBash)
      BY <3>1, InSet
    <3> QED
      BY <3>1, <3>2 DEF Sorts, Summaryless, SummaryKinds
  <2>4. CASE Quiet
    <3>1. Log' = Log \o pendingBash
      BY <2>2, <2>3, <2>4, LogWritten DEF Quiet
    <3>2. Says(pendingBash)
      BY <2>2, <2>3, <3>1 DEF Says
    <3> QED
      BY <3>2 DEF Story
  <2>5. CASE ~Quiet
    BY <2>2, <2>3, <2>5 DEF Grown
  <2> QED
    BY <2>4, <2>5
<1>2. CASE PromptCheck(c)
  <2> DEFINE last == LastAssistantIn(messages)
             reason == CompactionReason(last, FALSE)
  <2>1. /\ UNCHANGED <<events, files, current>>
        /\ messages' = messages \/ (reason = "overflow" /\ messages' = DropReply(messages))
    BY <1>2 DEF PromptCheck, BeginCompaction
  <2>2. Log' = Log
    BY <2>1, LogStays
  <2>3. ASSUME reason = "overflow", EndsWithAssistant(messages)
        PROVE  IsRemovable(Last(messages))
    <3>1. last = Last(messages)
      BY <2>3, LogIs, LastAssistantIs
    <3>2. last.kind \in {"overflow", "silent"}
      BY <2>3 DEF CompactionReason
    <3> QED
      BY <3>1, <3>2 DEF IsRemovable, RemovableKinds, FailureKinds
  <2> HIDE DEF reason
  <2> QED
    BY <2>1, <2>2, <2>3, RestsStory, DropsStory
<1>3. CASE StartsPrompt(c)
  <2>1. PICK user : UserItem(user) /\ PromptStartWith(c, user)
    BY <1>3 DEF StartsPrompt
  <2>2. UNCHANGED <<files, current>> /\ Emits(<<user>>) /\ AllOf(<<user>>, {"user"})
    BY <1>3, <2>1, RunConnected, RunTells DEF RunBegins, PromptStartWith
  <2>3. Says(<<user>>)
    BY <2>2, EmitsStory DEF SummaryKinds
  <2> QED
    BY <2>3 DEF Story
<1>4. CASE GivesUpPrompt(c)
  BY <1>4, RestsStory DEF GivesUpPrompt, PromptThrows
<1> QED
  BY <1>1, <1>2, <1>3, <1>4

LEMMA RunStory ==
  ASSUME TypeOK, Phases, Calm, Sorts,
         RunGoesOn \/ EndRun \/ ContinueSwallowed \/ Continue
  PROVE  Story
<1> USE DEF agentVars, retryVars, compactVars, viewVars, fileVars, handlerVars, RunVars, ReplyVars
<1>a. RunGoesOn \/ Continue => connected
  BY RunConnected DEF RunBegins
<1>b. RunGoesOn \/ Continue => UNCHANGED <<files, current>>
  BY DEF RunGoesOn, ReplyAndGoOn, ReplyAndDeliver, LastReply, Continue
<1>1. CASE ReplyAndGoOn
  <2>1. Tells({"ok", "result"}) /\ {"ok", "result"} \cap SummaryKinds = {}
    BY <1>1, <1>a, RunTells DEF RunGoesOn, SummaryKinds
  <2> QED
    BY <1>1, <1>b, <2>1, TellsStory DEF RunGoesOn
<1>2. CASE ReplyAndDeliver
  <2>1. Tells({"ok", "user"}) /\ {"ok", "user"} \cap SummaryKinds = {}
    BY <1>2, <1>a, RunTells DEF RunGoesOn, SummaryKinds
  <2> QED
    BY <1>2, <1>b, <2>1, TellsStory DEF RunGoesOn
<1>3. ASSUME NEW kind \in AssistantKinds, LastReply(kind) PROVE Story
  <2>1. Emits(<<Item(kind)>>) /\ AllOf(<<Item(kind)>>, {kind})
    BY <1>3, <1>a, RunTells DEF RunGoesOn
  <2>2. {kind} \cap SummaryKinds = {}
    BY DEF SummaryKinds, AssistantKinds, FailureKinds
  <2>3. Says(<<Item(kind)>>)
    BY <1>3, <1>b, <2>1, <2>2, EmitsStory DEF RunGoesOn
  <2> QED
    BY <2>3 DEF Story
<1>4. CASE EndRun
  <2>1. Log' = Log /\ messages' = messages /\ UNCHANGED current
    BY <1>4, LogEnded DEF EndRun
  <2> QED
    BY <2>1 DEF Story, Rests
<1>5. CASE ContinueSwallowed
  BY <1>5, RestsStory DEF ContinueSwallowed
<1>6. CASE Continue
  <2>1. Tells({"user"}) /\ {"user"} \cap SummaryKinds = {}
    BY <1>6, <1>a, RunTells DEF SummaryKinds
  <2> QED
    BY <1>6, <1>b, <2>1, TellsStory
<1> QED
  BY <1>1, <1>2, <1>3, <1>4, <1>5, <1>6 DEF RunGoesOn

\* The reply that the end of a run speaks of is the last message.
LEMMA EndReply ==
  ASSUME TypeOK, EventsInOrder, FinalReply, HandleNext, Head(events).type = "agent_end"
  PROVE  EndsWith(lastAssistant)
<1>1. ~streaming /\ Pend(events) = <<>> /\ events # <<>>
  BY EndRead
<1> QED
  BY <1>1 DEF FinalReply, Over

LEMMA HandlerStory ==
  ASSUME TypeOK, EventsInOrder, FinalReply,
         \/ HandleStart \/ HandleUser \/ HandleResult \/ HandleAssistant \/ HandleEndRetry
         \/ HandleEnd \/ SleepEnds
  PROVE  Story
<1> USE DEF agentVars, retryVars, compactVars, viewVars, fileVars, handlerVars
<1>1. CASE HandleStart \/ HandleUser \/ HandleResult \/ HandleAssistant
  <2>1. /\ HandleNext /\ UNCHANGED <<current, messages>>
        /\ \/ Head(events).type = "message" /\ files' = AppendEntry(Head(events).item)
           \/ Head(events).type # "message" /\ files' = files
    BY <1>1 DEF HandleStart, HandleUser, HandleResult, HandleAssistant
  <2>2. Log' = Log
    BY <2>1, LogHandled
  <2> QED
    BY <2>1, <2>2 DEF Story, Rests
<1>2. CASE HandleEndRetry \/ HandleEnd
  <2>1. HandleNext /\ Head(events).type = "agent_end" /\ UNCHANGED <<files, current>>
    BY <1>2 DEF HandleEndRetry, HandleEnd
  <2>2. Log' = Log
    BY <2>1, LogHandled
  <2>3. EndsWith(lastAssistant)
    BY <2>1, EndReply
  <2>4. messages' = messages \/ (messages' = DropReply(messages) /\ IsRemovable(lastAssistant))
    <3>1. CASE HandleEndRetry
      BY <3>1 DEF HandleEndRetry, IsRetryable, IsRemovable, RemovableKinds, FailureKinds
    <3>2. CASE HandleEnd
      <4> DEFINE reason == CompactionReason(lastAssistant, TRUE)
      <4>1. messages' = messages \/ (reason = "overflow" /\ messages' = DropReply(messages))
        BY <3>2 DEF HandleEnd, BeginCompaction
      <4>2. reason = "overflow" => lastAssistant.kind \in {"overflow", "silent"}
        BY DEF CompactionReason
      <4> HIDE DEF reason
      <4> QED
        BY <4>1, <4>2 DEF IsRemovable, RemovableKinds, FailureKinds
    <3> QED
      BY <1>2, <3>1, <3>2
  <2>5. CASE messages' = messages
    BY <2>1, <2>2, <2>5 DEF Story, Rests
  <2>6. CASE messages' = DropReply(messages) /\ IsRemovable(lastAssistant)
    BY <2>1, <2>2, <2>3, <2>6, DropsStory DEF EndsWith
  <2> QED
    BY <2>4, <2>5, <2>6
<1>3. CASE SleepEnds
  BY <1>3, RestsStory DEF SleepEnds
<1> QED
  BY <1>1, <1>2, <1>3

LEMMA AdminStory ==
  ASSUME TypeOK, Phases, Calm,
         \/ RecordBash \/ \E operation \in {"new", "switch", "compact"} : AdminBegin(operation)
         \/ NewSession \/ SwitchSession \/ ManualCompact
  PROVE  Story \/ Grown
<1> USE DEF agentVars, retryVars, compactVars, viewVars, fileVars, handlerVars
<1>a. messages \in Seq(Items)
  BY LogIs
<1>1. CASE RecordBash
  <2> DEFINE bash == Item("bash")
  <2>1. bash \in Items /\ bash.kind = "bash"
    BY ItemIs DEF Kinds, Item
  <2>2. /\ UNCHANGED <<events, current>> /\ disturbed' = (disturbed \/ (~streaming /\ ~Quiet))
        /\ \/ UNCHANGED <<messages, files>>
           \/ ~streaming /\ messages' = Append(messages, bash) /\ files' = AppendEntry(bash)
    BY <1>1 DEF RecordBash, Disturb
  <2> HIDE DEF bash
  <2>3. CASE UNCHANGED <<messages, files>>
    BY <2>2, <2>3, RestsStory
  <2>4. CASE ~streaming /\ messages' = Append(messages, bash) /\ files' = AppendEntry(bash)
    <3>1. messages' = messages \o <<bash>> /\ <<bash>> \in Seq(Items)
      <4>1. messages \o <<bash>> = Append(messages, bash)
        BY <1>a, <2>1, OneMore
      <4> QED
        BY <2>1, <2>4, <4>1
    <3>2. CASE Quiet
      <4>1. Log' = Log \o <<bash>>
        BY <2>1, <2>2, <2>4, <3>2, LogAppended DEF Quiet
      <4>2. Summaryless(<<bash>>)
        <5>1. AllOf(<<bash>>, {bash.kind})
          BY <2>1, AllOfFew
        <5> QED
          BY <2>1, <5>1, AllOfIs DEF SummaryKinds
      <4>3. Says(<<bash>>)
        BY <2>2, <3>1, <4>1, <4>2 DEF Says
      <4> QED
        BY <4>3 DEF Story
    <3>3. CASE ~Quiet
      BY <2>2, <2>4, <3>1, <3>3 DEF Grown
    <3> QED
      BY <3>2, <3>3
  <2> QED
    BY <2>2, <2>3, <2>4
<1>2. CASE ManualCompact \/ \E operation \in {"new", "switch", "compact"} : AdminBegin(operation)
  BY <1>2, RestsStory DEF ManualCompact, AdminBegin
<1>3. CASE NewSession
  <2>1. /\ messages' = <<>> /\ files' = Append(files, <<>>) /\ current' = Len(files) + 1
        /\ UNCHANGED events /\ admin # "none"
    BY <1>3 DEF NewSession
  <2>2. events = <<>> /\ Pend(<<>>) = <<>>
    BY <2>1, PendEmpty DEF Calm
  <2>3. files'[current'] = <<>> /\ current' # current
    <3>1. files \in Seq(Seq(Items)) /\ current \in 1..Len(files)
      BY DEF TypeOK
    <3> QED
      BY <2>1, <3>1
  <2>4. Log' = <<>> \o <<>>
    BY <2>1, <2>2, <2>3 DEF Log, entries
  <2>5. Leaves
    BY <2>1, <2>3, <2>4 DEF Leaves
  <2> QED
    BY <2>5 DEF Story
<1>4. CASE SwitchSession
  <2>1. PICK s \in DOMAIN files : current' = s /\ messages' = BuildContext(files[s])
    BY <1>4 DEF SwitchSession
  <2>2. UNCHANGED <<events, files>> /\ admin # "none"
    BY <1>4 DEF SwitchSession
  <2>3. events = <<>> /\ Pend(<<>>) = <<>>
    BY <2>2, PendEmpty DEF Calm
  <2>4. files[s] \in Seq(Items)
    BY DEF TypeOK
  <2>5. Log' = files[s] \o <<>>
    BY <2>1, <2>2, <2>3 DEF Log, entries
  <2> DEFINE es == files[s]
  <2>6. es \in Seq(Items) /\ Log' = es \o <<>>
    BY <2>4, <2>5
  <2> HIDE DEF es
  <2>7. Log' = es
    BY <2>6
  <2>8. current' = current => Log' = Log
    <3>1. current' = current => es = entries
      BY <2>1 DEF es, entries
    <3>2. Log = entries
      BY <2>3, LogIs
    <3> QED
      BY <2>7, <3>1, <3>2
  <2>9. Returns
    BY <2>1, <2>6, <2>7, <2>8 DEF Returns, es
  <2> QED
    BY <2>9 DEF Story
<1> QED
  BY <1>1, <1>2, <1>3, <1>4

LEMMA StepStory ==
  ASSUME TypeOK, Phases, Calm, EventsInOrder, Sorts, FinalReply, SessionStep
  PROVE  Story \/ Grown
<1> USE DEF agentVars, retryVars, compactVars, viewVars, fileVars, handlerVars, RestVars
<1>1. CASE AbortCompactions \/ QueueMessage(Item("user")) \/ Steers \/ Replaces \/ Clears \/ Stops \/ Idles
  <2>1. UNCHANGED <<events, files, current, messages>>
    BY <1>1 DEF AbortCompactions, QueueMessage, Steers, Replaces, Clears, Stops, Idles
  <2> QED
    BY <2>1, RestsStory
<1> QED
  BY <1>1, CompactsStory, CallerStory, RunStory, HandlerStory, AdminStory
     DEF SessionStep, SessionAction, RunGoesOn

\* The reply of a run stays its last message.
LEMMA FinalKept ==
  ASSUME TypeOK, Phases, Phases', Calm, EventsInOrder, FinalReply, ~disturbed', SessionStep
  PROVE  FinalReply'
<1> USE DEF agentVars, retryVars, compactVars, viewVars, fileVars, handlerVars, RunVars, ReplyVars,
            RestVars
<1>a. streaming' = streaming /\ ~streaming /\ events' = <<>> => FinalReply'
  BY FinalIdle
<1>b. streaming' = TRUE /\ ending' = "none" => FinalReply'
  BY FinalIdle
<1>c. ~streaming => ending = "none"
  BY DEF Phases, Runs
<1>1. CASE \/ AbortCompactions \/ QueueMessage(Item("user")) \/ Steers \/ Replaces \/ Clears \/ Stops
           \/ Idles \/ SleepEnds \/ ContinueSwallowed \/ ManualCompact
           \/ \E operation \in {"new", "switch", "compact"} : AdminBegin(operation)
  <2>1. UNCHANGED <<messages, events, lastAssistant, ending, streaming>>
    BY <1>1 DEF AbortCompactions, QueueMessage, Steers, Replaces, Clears, Stops, Idles, SleepEnds,
       ContinueSwallowed, ManualCompact, AdminBegin
  <2> QED
    BY <2>1, FinalSame
<1>2. ASSUME NEW w \in Workers, Compacts(w) PROVE FinalReply'
  <2>1. CASE PrepareCompaction(w)
    BY <2>1, FinalSame DEF PrepareCompaction
  <2>2. CASE StopCompaction(w) \/ \E waiting \in BOOLEAN : FinishCompactionWith(w, waiting)
    <3>1. compaction[w].phase # "none" /\ UNCHANGED <<streaming, events>>
      BY <2>2 DEF StopCompaction, FinishCompactionWith
    <3>2. ~streaming /\ events = <<>>
      BY <3>1, SumsAlone
    <3> QED
      BY <1>a, <3>1, <3>2
  <2> QED
    BY <1>2, <2>1, <2>2 DEF Compacts
<1>3. ASSUME NEW c \in Callers, BeginsPrompt(c) \/ PromptCheck(c) \/ StartsPrompt(c) \/ GivesUpPrompt(c)
      PROVE  FinalReply'
  <2>1. CASE BeginsPrompt(c)
    <3>1. ~streaming /\ UNCHANGED <<streaming, events>> /\ Quiet
      BY <2>1 DEF BeginsPrompt, PromptBeginWith, Disturb
    <3> QED
      BY <1>a, <3>1 DEF Quiet
  <2>2. CASE PromptCheck(c)
    <3>1. Busy(c) /\ UNCHANGED <<streaming, events>>
      BY <2>2 DEF PromptCheck, Busy
    <3> QED
      BY <1>a, <3>1 DEF Calm
  <2>3. CASE StartsPrompt(c)
    <3>1. ~streaming /\ streaming' = TRUE /\ UNCHANGED ending
      BY <2>3 DEF StartsPrompt, PromptStartWith
    <3> QED
      BY <1>b, <1>c, <3>1
  <2>4. CASE GivesUpPrompt(c)
    BY <2>4, FinalSame DEF GivesUpPrompt, PromptThrows
  <2> QED
    BY <1>3, <2>1, <2>2, <2>3, <2>4
<1>4. CASE ReplyAndGoOn \/ ReplyAndDeliver \/ Continue
  <2>1. streaming' = TRUE /\ ending' = "none"
    <3>1. CASE ReplyAndGoOn \/ ReplyAndDeliver
      BY <3>1 DEF ReplyAndGoOn, ReplyAndDeliver, TypeOK
    <3>2. CASE Continue
      BY <1>c, <3>2 DEF Continue, MayContinue
    <3> QED
      BY <1>4, <3>1, <3>2
  <2> QED
    BY <1>b, <2>1
<1>5. ASSUME NEW kind \in AssistantKinds, LastReply(kind) PROVE FinalReply'
  <2>1. connected
    BY <1>5, RunConnected DEF RunGoesOn
  <2> QED
    BY <1>5, <2>1, FinalSaid
<1>6. CASE EndRun
  <2>1. Pend(events') = Pend(events) /\ UNCHANGED <<messages, lastAssistant>>
        /\ ending # "none" /\ ending' = "none"
    BY <1>6, LogEnded DEF EndRun
  <2>2. EndsWith(IF Pend(events) = <<>> THEN lastAssistant ELSE Pend(events)[Len(Pend(events))])
    BY <2>1 DEF FinalReply, Over
  <2> QED
    BY <2>1, <2>2 DEF FinalReply, EndsWith, EndsWithAssistant
<1>7. CASE HandleStart \/ HandleUser \/ HandleResult \/ HandleAssistant
  <2>1. /\ HandleNext /\ UNCHANGED <<messages, ending, streaming>>
        /\ \/ Head(events).type # "message" /\ lastAssistant' = lastAssistant
           \/ Head(events).type = "message" /\ IsAssistant(Head(events).item)
              /\ lastAssistant' = Head(events).item
           \/ Head(events).type = "message" /\ ~IsAssistant(Head(events).item)
              /\ lastAssistant' = lastAssistant
    BY <1>7 DEF HandleStart, HandleUser, HandleResult, HandleAssistant, IsAssistant, AssistantKinds,
       FailureKinds
  <2> QED
    BY <2>1, FinalHandled
<1>8. CASE HandleEndRetry \/ HandleEnd
  <2>1. HandleNext /\ Head(events).type = "agent_end" /\ UNCHANGED streaming
    BY <1>8 DEF HandleEndRetry, HandleEnd
  <2> QED
    BY <1>a, <2>1, EndRead
<1>9. CASE RecordBash
  <2>1. UNCHANGED <<streaming, events, ending, lastAssistant>>
        /\ (messages' = messages \/ (~streaming /\ Quiet))
    BY <1>9 DEF RecordBash, Disturb
  <2> QED
    BY <1>a, <2>1, FinalSame DEF Quiet
<1>10. CASE NewSession \/ SwitchSession
  <2>1. admin # "none" /\ UNCHANGED <<streaming, events>> /\ ~streaming
    BY <1>10 DEF NewSession, SwitchSession
  <2> QED
    BY <1>a, <2>1 DEF Calm
<1> QED
  BY <1>1, <1>2, <1>3, <1>4, <1>5, <1>6, <1>7, <1>8, <1>9, <1>10 DEF SessionStep, SessionAction

-----------------------------------------------------------------------------
(* The retries *)

\* A failure that may be retried is the last message that waits for the handler.
LastFails ==
  \A i \in 1..Len(Pend(events)) : Pend(events)[i].kind = "retryable" =>
    i = Len(Pend(events)) /\ (ending = "retryable" \/ ~streaming)

LEMMA LastFailsSame ==
  ASSUME LastFails, UNCHANGED <<events, ending, streaming>>
  PROVE  LastFails'
BY DEF LastFails

LEMMA LastFailsIdle ==
  ASSUME events' = <<>>
  PROVE  LastFails'
<1>1. Len(Pend(events')) = 0 /\ 1..0 = {}
  BY PendEmpty
<1> QED
  BY <1>1 DEF LastFails

\* While a run goes on nothing that waits failed.
LEMMA NoneFails ==
  ASSUME TypeOK, LastFails, (streaming /\ ending = "none") \/ events = <<>>
  PROVE  Without(Pend(events), "retryable")
<1>1. CASE events = <<>>
  <2>1. Len(Pend(events)) = 0 /\ 1..0 = {}
    BY <1>1, PendEmpty
  <2> QED
    BY <2>1 DEF Without
<1>2. CASE streaming /\ ending = "none"
  BY <1>2 DEF LastFails, Without
<1> QED
  BY <1>1, <1>2

LEMMA WithoutJoin ==
  ASSUME NEW s \in Seq(Items), NEW t \in Seq(Items), NEW kind, Without(s, kind), Without(t, kind)
  PROVE  Without(s \o t, kind)
<1> DEFINE st == s \o t
<1>1. /\ Len(st) = Len(s) + Len(t)
      /\ \A i \in 1..Len(s) : st[i] = s[i]
      /\ \A i \in 1..Len(s) + Len(t) : i \in 1..Len(s) \/ (i - Len(s) \in 1..Len(t) /\ st[i] = t[i - Len(s)])
  BY JoinIs
<1> HIDE DEF st
<1>2. ASSUME NEW i \in 1..Len(st) PROVE st[i].kind # kind
  <2>1. CASE i \in 1..Len(s)
    BY <1>1, <2>1 DEF Without
  <2>2. CASE i \notin 1..Len(s)
    BY <1>1, <2>2 DEF Without
  <2> QED
    BY <2>1, <2>2
<1> QED
  BY <1>2 DEF Without, st

LEMMA SaysFails ==
  ASSUME TypeOK, LastFails, NEW items, Emits(items), UNCHANGED <<files, current>>,
         (streaming /\ ending = "none") \/ events = <<>>, Without(items, "retryable")
  PROVE  LastFails' /\ Without(Pend(events'), "retryable")
<1>1. items \in Seq(Items) /\ Pend(events') = Pend(events) \o items /\ Pend(events) \in Seq(Items)
  BY LogSaid, LogIs
<1>2. Without(Pend(events), "retryable")
  BY NoneFails
<1>3. Without(Pend(events) \o items, "retryable")
  BY <1>1, <1>2, WithoutJoin
<1> QED
  BY <1>1, <1>3 DEF LastFails, Without

LEMMA FailureFails ==
  ASSUME TypeOK, LastFails, NEW x \in Items, Emits(<<x>>), UNCHANGED <<files, current>>,
         streaming, ending = "none", ending' = "retryable"
  PROVE  LastFails'
<1> DEFINE old == Pend(events)
           new == Pend(events')
<1>1. new = old \o <<x>> /\ old \in Seq(Items)
  BY LogSaid, LogIs
<1>2. Without(old, "retryable")
  BY NoneFails
<1> HIDE DEF old, new
<1>3. Len(new) = Len(old) + 1 /\ Len(old) \in Nat /\ \A i \in 1..Len(old) : new[i] = old[i]
  BY <1>1, OneMore
<1>4. ASSUME NEW i \in 1..Len(new), new[i].kind = "retryable" PROVE i = Len(new)
  BY <1>2, <1>3, <1>4 DEF Without
<1> QED
  BY <1>4 DEF LastFails, new

LEMMA HandledFails ==
  ASSUME TypeOK, LastFails, HandleNext, UNCHANGED <<ending, streaming>>
  PROVE  LastFails'
<1> DEFINE old == Pend(events)
           new == Pend(events')
           one == <<Head(events).item>>
<1>1. CASE Head(events).type # "message"
  <2>1. new = old
    BY <1>1, PendNext
  <2> QED
    BY <2>1 DEF LastFails
<1>2. CASE Head(events).type = "message"
  <2>1. old = one \o new /\ new \in Seq(Items) /\ one \in Seq(Items) /\ Len(one) = 1
    BY <1>2, PendNext
  <2> HIDE DEF one, old, new
  <2>2. Len(old) = 1 + Len(new) /\ Len(new) \in Nat
        /\ \A i \in 1..Len(new) : old[1 + i] = new[i] /\ 1 + i \in 1..1 + Len(new)
    <3> DEFINE all == one \o new
    <3>1. /\ Len(all) = Len(one) + Len(new) /\ Len(new) \in Nat
          /\ \A i \in 1..Len(new) : all[Len(one) + i] = new[i] /\ Len(one) + i \in 1..Len(one) + Len(new)
      BY <2>1, JoinIs
    <3>2. all = old
      BY <2>1
    <3> HIDE DEF all
    <3> QED
      BY <2>1, <3>1, <3>2
  <2>3. ASSUME NEW i \in 1..Len(new), new[i].kind = "retryable"
        PROVE  i = Len(new) /\ (ending = "retryable" \/ ~streaming)
    <3>1. 1 + i \in 1..Len(old) /\ old[1 + i].kind = "retryable"
      BY <2>2, <2>3
    <3>2. 1 + i = Len(old) /\ (ending = "retryable" \/ ~streaming)
      BY <3>1 DEF LastFails, old
    <3> QED
      BY <2>2, <3>2
  <2> QED
    BY <2>3 DEF LastFails, new
<1> QED
  BY <1>1, <1>2

LEMMA LastFailsKept ==
  ASSUME TypeOK, Phases, Calm, Sorts, EventsInOrder, LastFails, ~disturbed', SessionStep
  PROVE  LastFails'
<1> USE DEF agentVars, retryVars, compactVars, viewVars, fileVars, handlerVars, RunVars, ReplyVars,
            RestVars
<1>a. RunGoesOn \/ RunBegins => connected /\ UNCHANGED <<files, current>>
  BY RunConnected DEF RunGoesOn, RunBegins, ReplyAndGoOn, ReplyAndDeliver, LastReply, Continue, StartsPrompt,
     PromptStartWith
<1>b. \A items, kinds : AllOf(items, kinds) /\ "retryable" \notin kinds => Without(items, "retryable")
  BY AllOfIs
<1>1. CASE \/ AbortCompactions \/ QueueMessage(Item("user")) \/ Steers \/ Replaces \/ Clears \/ Stops
           \/ Idles \/ SleepEnds \/ ContinueSwallowed \/ ManualCompact \/ RecordBash
           \/ NewSession \/ SwitchSession
           \/ \E operation \in {"new", "switch", "compact"} : AdminBegin(operation)
  <2>1. UNCHANGED <<events, ending, streaming>>
    BY <1>1 DEF AbortCompactions, QueueMessage, Steers, Replaces, Clears, Stops, Idles, SleepEnds,
       ContinueSwallowed, ManualCompact, AdminBegin, RecordBash, NewSession, SwitchSession
  <2> QED
    BY <2>1, LastFailsSame
<1>2. ASSUME NEW w \in Workers, Compacts(w) PROVE LastFails'
  <2>1. UNCHANGED <<events, ending, streaming>>
    BY <1>2 DEF Compacts, PrepareCompaction, StopCompaction, FinishCompactionWith
  <2> QED
    BY <2>1, LastFailsSame
<1>3. ASSUME NEW c \in Callers, BeginsPrompt(c) \/ PromptCheck(c) \/ GivesUpPrompt(c)
      PROVE  LastFails'
  <2>1. UNCHANGED <<events, ending, streaming>>
    BY <1>3 DEF BeginsPrompt, PromptBeginWith, PromptCheck, GivesUpPrompt, PromptThrows
  <2> QED
    BY <2>1, LastFailsSame
<1>4. ASSUME NEW c \in Callers, StartsPrompt(c) PROVE LastFails'
  <2>1. PICK user : UserItem(user) /\ PromptStartWith(c, user)
    BY <1>4 DEF StartsPrompt
  <2>2. Emits(<<user>>) /\ AllOf(<<user>>, {"user"})
    BY <1>4, <1>a, <2>1, RunTells DEF RunBegins
  <2>3. Busy(c)
    BY <2>1 DEF PromptStartWith, Busy
  <2>4. events = <<>>
    BY <2>3 DEF Calm
  <2> QED
    BY <1>4, <1>a, <1>b, <2>2, <2>4, SaysFails DEF RunBegins
<1>5. CASE Continue
  <2>1. Tells({"user"})
    BY <1>5, <1>a, RunTells DEF RunBegins
  <2>2. events = <<>>
    <3>1. ~streaming /\ timers > 0 /\ timers \in Nat
      BY <1>5 DEF Continue, MayContinue, TypeOK
    <3> QED
      BY <3>1 DEF Calm
  <2> QED
    BY <1>5, <1>a, <1>b, <2>1, <2>2, SaysFails DEF RunBegins, Tells
<1>6. CASE ReplyAndGoOn \/ ReplyAndDeliver
  <2>1. Tells({"ok", "result"}) \/ Tells({"ok", "user"})
    BY <1>6, <1>a, RunTells DEF RunGoesOn
  <2>2. streaming /\ ending = "none"
    BY <1>6 DEF ReplyAndGoOn, ReplyAndDeliver
  <2> QED
    BY <1>6, <1>a, <1>b, <2>1, <2>2, SaysFails DEF RunGoesOn, Tells
<1>7. ASSUME NEW kind \in AssistantKinds, LastReply(kind) PROVE LastFails'
  <2>1. Emits(<<Item(kind)>>) /\ AllOf(<<Item(kind)>>, {kind}) /\ Item(kind) \in Items
    BY <1>7, <1>a, RunTells DEF RunGoesOn
  <2>2. streaming /\ ending = "none" /\ ending' = kind
    BY <1>7 DEF LastReply
  <2>3. CASE kind = "retryable"
    BY <1>7, <1>a, <2>1, <2>2, <2>3, FailureFails DEF RunGoesOn
  <2>4. CASE kind # "retryable"
    BY <1>7, <1>a, <1>b, <2>1, <2>2, <2>4, SaysFails DEF RunGoesOn
  <2> QED
    BY <2>3, <2>4
<1>8. CASE EndRun
  <2>1. Pend(events') = Pend(events) /\ streaming' = FALSE
    BY <1>8, LogEnded DEF EndRun
  <2> QED
    BY <2>1 DEF LastFails
<1>9. CASE HandleStart \/ HandleUser \/ HandleResult \/ HandleAssistant \/ HandleEndRetry \/ HandleEnd
  <2>1. HandleNext /\ UNCHANGED <<ending, streaming>>
    BY <1>9 DEF HandleStart, HandleUser, HandleResult, HandleAssistant, HandleEndRetry, HandleEnd
  <2> QED
    BY <2>1, HandledFails
<1> QED
  BY <1>1, <1>2, <1>3, <1>4, <1>5, <1>6, <1>7, <1>8, <1>9 DEF SessionStep, SessionAction

\* The run that goes on, or that is to go on, follows no more failures than
\* the attempts counted; one that fails, or whose end waits, one more.
Awaited ==
  \/ streaming /\ ending # "retryable"
  \/ ~streaming /\ timers = 1
  \/ handler = "sleeping"
Failing == ending = "retryable" \/ (~streaming /\ events # <<>>)
Retries ==
  /\ FewEverywhere(Log)
  /\ Awaited => Few(Log, retryAttempt)
  /\ Failing => Few(Log, retryAttempt + 1)

LEMMA RetriesAdd ==
  ASSUME TypeOK, TypeOK', Retries, NEW more \in Seq(Items), Without(more, "retryable"),
         Log' = Log \o more,
         \/ more # <<>>
         \/ retryAttempt' = retryAttempt /\ (Awaited' => Awaited) /\ (Failing' => Failing)
         \/ ~Awaited' /\ ~Failing'
  PROVE  Retries'
<1> DEFINE a == retryAttempt'
           b == retryAttempt' + 1
           new == Log \o more
<1>1. a \in Nat /\ b \in Nat /\ Log \in Seq(Items)
  <2>1. retryAttempt' \in 0..MaxRetries
    BY DEF TypeOK
  <2>2. \A k \in 0..MaxRetries : k \in Nat /\ k + 1 \in Nat
    BY ASAssumption
  <2>3. Log \in Seq(Items)
    BY LogIs
  <2>4. a \in Nat /\ b \in Nat
    BY <2>1, <2>2, Zenon
  <2> QED
    BY <2>3, <2>4
<1>2. /\ more # <<>> => Few(new, a) /\ Few(new, b)
      /\ Few(Log, a) => Few(new, a)
      /\ Few(Log, b) => Few(new, b)
      /\ FewEverywhere(Log) => FewEverywhere(new)
  <2> HIDE DEF a, b
  <2> QED
    BY <1>1, FewAdd
<1>3. FewEverywhere(new)
  BY <1>2 DEF Retries
<1>4. Awaited' => Few(new, a)
  BY <1>2 DEF Retries
<1>5. Failing' => Few(new, b)
  BY <1>2 DEF Retries
<1> QED
  BY <1>3, <1>4, <1>5 DEF Retries

LEMMA RetriesRest ==
  ASSUME Retries, Log' = Log,
         \/ retryAttempt' = retryAttempt /\ (Awaited' => Awaited) /\ (Failing' => Failing)
         \/ ~Awaited' /\ ~Failing'
  PROVE  Retries'
BY DEF Retries

LEMMA CompactsRetries ==
  ASSUME TypeOK, TypeOK', Phases, Calm, Retries, NEW w \in Workers, Compacts(w)
  PROVE  Retries'
<1> USE DEF agentVars, retryVars, compactVars, viewVars, fileVars, handlerVars
<1>1. CASE PrepareCompaction(w)
  <2>1. UNCHANGED <<events, files, current, retryAttempt, streaming, ending, timers, handler>>
    BY <1>1 DEF PrepareCompaction
  <2> QED
    BY <2>1, LogStays, RetriesRest DEF Awaited, Failing
<1>2. CASE StopCompaction(w)
  <2>1. UNCHANGED <<events, files, current, retryAttempt, streaming, ending, timers>>
        /\ (handler' = handler \/ handler' = "free")
    BY <1>2 DEF StopCompaction, Release
  <2> QED
    BY <2>1, LogStays, RetriesRest DEF Awaited, Failing
<1>3. ASSUME NEW waiting \in BOOLEAN, FinishCompactionWith(w, waiting) PROVE Retries'
  <2> DEFINE c == compaction[w]
             item == Summary(c)
  <2>1. /\ files' = AppendEntry(item) /\ UNCHANGED <<events, current>> /\ c.phase # "none"
    BY <1>3 DEF FinishCompactionWith
  <2>2. item \in Items /\ item.kind \in SummaryKinds
    BY SummaryIs DEF SummaryKinds
  <2>3. events = <<>>
    BY <2>1, SumsAlone
  <2> HIDE DEF item
  <2>4. Log' = Log \o <<item>>
    BY <2>1, <2>2, <2>3, LogAppended
  <2>5. Without(<<item>>, "retryable") /\ <<item>> \in Seq(Items) /\ <<item>> # <<>>
    <3>1. AllOf(<<item>>, {item.kind})
      BY <2>2, AllOfFew
    <3>2. Without(<<item>>, "retryable")
      BY <2>2, <3>1, AllOfIs DEF SummaryKinds
    <3> QED
      BY <2>2, <3>2
  <2> QED
    BY <2>4, <2>5, RetriesAdd
<1> QED
  BY <1>1, <1>2, <1>3 DEF Compacts

LEMMA SaysRetries ==
  ASSUME TypeOK, TypeOK', Retries, NEW kinds, Tells(kinds), "retryable" \notin kinds,
         UNCHANGED <<files, current, retryAttempt>>, (Awaited' => Awaited) \/ messages' # messages,
         ~Failing'
  PROVE  Retries'
<1>1. PICK items : Emits(items) /\ AllOf(items, kinds)
  BY DEF Tells
<1>2. items \in Seq(Items) /\ messages' = messages \o items /\ Log' = Log \o items
  BY <1>1, LogSaid
<1>3. Without(items, "retryable")
  BY <1>1, AllOfIs
<1>4. items = <<>> => messages' = messages
  <2>1. messages \in Seq(Items)
    BY LogIs
  <2> QED
    BY <1>2, <2>1
<1> QED
  BY <1>2, <1>3, <1>4, RetriesAdd

LEMMA CallerRetries ==
  ASSUME TypeOK, TypeOK', Phases, Calm, Sorts, Retries, ~disturbed', NEW c \in Callers,
         BeginsPrompt(c) \/ PromptCheck(c) \/ StartsPrompt(c) \/ GivesUpPrompt(c)
  PROVE  Retries'
<1> USE DEF agentVars, retryVars, compactVars, viewVars, fileVars, handlerVars
<1>1. CASE BeginsPrompt(c)
  <2>1. PICK more : UserItems(more) /\ PromptBeginWith(c, more)
    BY <1>1 DEF BeginsPrompt
  <2>2. /\ files' = [files EXCEPT ![current] = entries \o pendingBash] /\ Quiet
        /\ UNCHANGED <<events, current, retryAttempt, streaming, ending, timers, handler>>
    BY <2>1 DEF PromptBeginWith, entries, Disturb
  <2>3. pendingBash \in Seq(Items) /\ Without(pendingBash, "retryable")
    <3>1. pendingBash \in Seq(Items)
      BY DEF TypeOK
    <3>2. \A i \in 1..Len(pendingBash) : pendingBash[i] \in ToSet(pendingBash)
      BY <3>1, InSet
    <3> QED
      BY <3>1, <3>2 DEF Sorts, Without
  <2>4. Log' = Log \o pendingBash
    BY <2>2, <2>3, LogWritten DEF Quiet
  <2> QED
    BY <2>2, <2>3, <2>4, RetriesAdd DEF Awaited, Failing
<1>2. CASE PromptCheck(c) \/ GivesUpPrompt(c)
  <2>1. UNCHANGED <<events, files, current, retryAttempt, streaming, ending, timers, handler>>
    BY <1>2 DEF PromptCheck, GivesUpPrompt, PromptThrows
  <2> QED
    BY <2>1, LogStays, RetriesRest DEF Awaited, Failing
<1>3. CASE StartsPrompt(c)
  <2>1. PICK user : UserItem(user) /\ PromptStartWith(c, user)
    BY <1>3 DEF StartsPrompt
  <2>2. UNCHANGED <<files, current, retryAttempt>> /\ Emits(<<user>>) /\ AllOf(<<user>>, {"user"})
        /\ user \in Items
    BY <1>3, <2>1, RunConnected, RunTells DEF RunBegins, PromptStartWith
  <2>3. Log' = Log \o <<user>>
    BY <2>2, LogSaid
  <2>4. Without(<<user>>, "retryable") /\ <<user>> \in Seq(Items) /\ <<user>> # <<>>
    <3>1. Without(<<user>>, "retryable")
      BY <2>2, AllOfIs
    <3> QED
      BY <2>2, <3>1
  <2> QED
    BY <2>3, <2>4, RetriesAdd
<1> QED
  BY <1>1, <1>2, <1>3

LEMMA RunRetries ==
  ASSUME TypeOK, TypeOK', Phases, Calm, Sorts, LastFails, LastFails', Retries, ~disturbed',
         RunGoesOn \/ EndRun \/ ContinueSwallowed \/ Continue
  PROVE  Retries'
<1> USE DEF agentVars, retryVars, compactVars, viewVars, fileVars, handlerVars, RunVars, ReplyVars
<1>a. RunGoesOn \/ Continue => connected /\ UNCHANGED <<files, current, retryAttempt>>
  <2>1. RunGoesOn \/ Continue => connected
    BY RunConnected DEF RunBegins
  <2> QED
    BY <2>1 DEF RunGoesOn, ReplyAndGoOn, ReplyAndDeliver, LastReply, Continue
<1>b. retryAttempt \in Nat /\ retryAttempt <= MaxRetries
  <2>1. retryAttempt \in 0..MaxRetries /\ MaxRetries \in Nat
    BY ASAssumption DEF TypeOK
  <2> QED
    BY <2>1
<1>1. CASE ReplyAndGoOn \/ ReplyAndDeliver
  <2>1. Tells({"ok", "result"}) \/ Tells({"ok", "user"})
    BY <1>1, <1>a, RunTells DEF RunGoesOn
  <2>3. Awaited /\ ~Failing'
    <3>1. streaming /\ ending = "none" /\ UNCHANGED <<streaming, ending>>
      BY <1>1 DEF ReplyAndGoOn, ReplyAndDeliver
    <3> QED
      BY <3>1 DEF Awaited, Failing
  <2> QED
    BY <1>1, <1>a, <2>1, <2>3, SaysRetries DEF RunGoesOn
<1>2. ASSUME NEW kind \in AssistantKinds, LastReply(kind) PROVE Retries'
  <2> DEFINE item == Item(kind)
  <2>1. Emits(<<item>>) /\ AllOf(<<item>>, {kind}) /\ item \in Items
    BY <1>2, <1>a, RunTells DEF RunGoesOn
  <2>2. streaming /\ ending = "none" /\ ending' = kind /\ streaming' = streaming /\ handler' = handler
    BY <1>2 DEF LastReply
  <2> HIDE DEF item
  <2>3. Log' = Log \o <<item>> /\ Log \in Seq(Items) /\ <<item>> # <<>> /\ <<item>> \in Seq(Items)
    <3>1. Log' = Log \o <<item>> /\ Log \in Seq(Items)
      BY <1>2, <1>a, <2>1, LogSaid, LogIs DEF RunGoesOn
    <3> QED
      BY <2>1, <3>1
  <2>4. CASE kind = "retryable"
    <3>1. ~Awaited'
      BY <2>2, <2>4 DEF Awaited, Calm
    <3>2. Few(Log, retryAttempt)
      BY <2>2 DEF Retries, Awaited
    <3>3. Few(Log \o <<item>>, retryAttempt + 1) /\ FewEverywhere(Log \o <<item>>)
      BY <1>b, <2>1, <2>3, <3>2, FewOne DEF Retries
    <3>4. retryAttempt' = retryAttempt
      BY <1>2, <1>a DEF RunGoesOn
    <3> QED
      BY <2>3, <3>1, <3>3, <3>4 DEF Retries
  <2>5. CASE kind # "retryable"
    <3>1. Without(<<item>>, "retryable")
      BY <2>1, <2>5, AllOfIs
    <3> QED
      BY <2>3, <3>1, RetriesAdd
  <2> QED
    BY <2>4, <2>5
<1>3. CASE EndRun
  <2>1. Log' = Log /\ retryAttempt' = retryAttempt /\ streaming /\ streaming' = FALSE /\ timers' = timers
        /\ handler' = handler
    BY <1>3, LogEnded DEF EndRun
  <2>2. ~(timers > 0)
    BY <1>3 DEF EndRun, Disturb
  <2>3. ~Awaited'
    BY <2>1, <2>2 DEF Awaited, Calm
  <2>4. Few(Log, retryAttempt + 1)
    <3>1. CASE ending = "retryable"
      BY <3>1 DEF Retries, Failing
    <3>2. CASE ending # "retryable"
      <4>1. Few(Log, retryAttempt)
        BY <2>1, <3>2 DEF Retries, Awaited
      <4> QED
        BY <1>b, <4>1, LogIs, FewMore
    <3> QED
      BY <3>1, <3>2
  <2> QED
    BY <2>1, <2>3, <2>4 DEF Retries
<1>4. CASE ContinueSwallowed
  <2>1. UNCHANGED <<events, files, current, retryAttempt, streaming, ending, handler>> /\ timers' = timers - 1
        /\ timers > 0
    BY <1>4 DEF ContinueSwallowed
  <2>2. timers' = 0
    BY <2>1 DEF Calm
  <2> QED
    BY <2>1, <2>2, LogStays, RetriesRest DEF Awaited, Failing
<1>5. CASE Continue
  <2>1. Tells({"user"})
    BY <1>5, <1>a, RunTells
  <2>2. ~streaming /\ timers > 0 /\ streaming' = TRUE /\ ending' = ending
    BY <1>5 DEF Continue, MayContinue
  <2>3. Awaited
    BY <2>2 DEF Awaited, Calm
  <2>4. ~Failing'
    BY <2>2 DEF Failing, Phases, Runs
  <2> QED
    BY <1>5, <1>a, <2>1, <2>3, <2>4, SaysRetries
<1> QED
  BY <1>1, <1>2, <1>3, <1>4, <1>5 DEF RunGoesOn

\* A reply that is no failure waits: what comes after it is at most one failure.
LEMMA AnswerEndsRetries ==
  ASSUME TypeOK, HandleNext, LastFails, Retries, Head(events).type = "message",
         Head(events).item.kind # "retryable"
  PROVE  Few(Log, 1) /\ (Without(Pend(events), "retryable") => Few(Log, 0))
<1> DEFINE waits == Pend(events)
           rest == Pend(events')
           item == Head(events).item
           es == entries
           one == <<item>>
           front == Front(waits)
           last == Last(waits)
<1>1. /\ waits = one \o rest /\ rest \in Seq(Items) /\ item \in Items /\ es \in Seq(Items)
      /\ waits \in Seq(Items) /\ Log = es \o waits
  <2>1. /\ waits = one \o rest /\ rest \in Seq(Items) /\ item \in Items
    BY PendNext
  <2>2. es \in Seq(Items) /\ waits \in Seq(Items)
    BY LogIs
  <2> QED
    BY <2>1, <2>2 DEF Log
<1>2. waits # <<>> /\ Len(waits) \in Nat \ {0} /\ waits[1] = item
  <2> HIDE DEF es, waits, rest, item
  <2>1. one \in Seq(Items) /\ Len(one) = 1 /\ one[1] = item /\ 1 \in 1..Len(one)
    BY <1>1
  <2> HIDE DEF one
  <2> DEFINE all == one \o rest
  <2>a. one \in Seq(Items) /\ rest \in Seq(Items)
    BY <1>1, <2>1
  <2>b. Len(all) = Len(one) + Len(rest) /\ Len(rest) \in Nat
    BY <2>a, JoinIs
  <2>c. all[1] = one[1]
    BY <2>1, <2>a, JoinIs
  <2>2. Len(all) = Len(one) + Len(rest) /\ Len(rest) \in Nat /\ all[1] = one[1]
    BY <2>b, <2>c
  <2>3. all = waits
    BY <1>1
  <2> HIDE DEF all
  <2>4. Len(waits) \in Nat \ {0} /\ waits[1] = item
    BY <2>1, <2>2, <2>3
  <2> QED
    BY <2>4
<1>3. ASSUME Without(waits, "retryable") PROVE Few(es \o waits, 0)
  <2> HIDE DEF es, waits
  <2> QED
    BY <1>1, <1>2, <1>3, FewAdd
<1>4. Few(es \o waits, 1)
  <2>1. CASE Without(waits, "retryable")
    <3>1. Few(es \o waits, 0) /\ es \o waits \in Seq(Items)
      BY <1>1, <1>3, <2>1, LogIs
    <3> DEFINE all == es \o waits
    <3>2. all \in Seq(Items) /\ Few(all, 0) /\ 0 \in Nat /\ 1 \in Nat /\ 0 <= 1
      BY <3>1
    <3> HIDE DEF all
    <3>3. Few(all, 1)
      BY <3>2, FewMore
    <3> QED
      BY <3>3 DEF all
  <2>2. CASE ~Without(waits, "retryable")
    <3>1. PICK i \in 1..Len(waits) : waits[i].kind = "retryable"
      BY <2>2 DEF Without
    <3>2. \A j \in 1..Len(waits) : waits[j].kind = "retryable" => j = Len(waits)
      BY DEF LastFails
    <3> HIDE DEF es, waits
    <3>3. Len(waits) > 1
      BY <1>2, <3>1, <3>2 DEF item
    <3>4. /\ front \in Seq(Items) /\ last \in Items /\ Len(front) = Len(waits) - 1
          /\ Longer(waits, front, last)
      BY <1>1, <1>2, DropReplyIs
    <3> HIDE DEF front, last
    <3>5. waits = front \o <<last>> /\ front # <<>> /\ \A j \in 1..Len(front) : front[j] = waits[j]
      <4>1. \A j \in 1..Len(front) : front[j] = waits[j]
        BY <3>4 DEF Longer
      <4>2. Len(waits) = Len(front) + 1 /\ waits[Len(front) + 1] = last
        BY <3>4 DEF Longer
      <4> DEFINE all == front \o <<last>>
      <4>3. /\ all \in Seq(Items) /\ Len(all) = Len(front) + 1 /\ Len(front) \in Nat
            /\ all[Len(front) + 1] = last /\ \A j \in 1..Len(front) : all[j] = front[j]
        BY <3>4, OneMore
      <4> HIDE DEF all
      <4>4. \A j \in 1..Len(waits) : waits[j] = all[j]
        BY <4>1, <4>2, <4>3
      <4>5. waits = all
        BY <1>1, <4>2, <4>3, <4>4, SeqEqual
      <4>6. Len(front) # 0
        BY <3>3, <3>4
      <4> QED
        BY <4>1, <4>5, <4>6 DEF all
    <3>6. Without(front, "retryable")
      BY <1>2, <3>2, <3>4, <3>5 DEF Without
    <3>7. Few(es \o front, 0) /\ es \o front \in Seq(Items)
      BY <1>1, <3>4, <3>5, <3>6, FewAdd
    <3> DEFINE ef == es \o front
               l == <<last>>
    <3>8. Few(ef \o l, 0 + 1)
      <4> HIDE DEF ef
      <4> QED
        BY <3>4, <3>7, FewOne DEF ef
    <3>9. ef \o l = es \o (front \o l)
      <4>1. l \in Seq(Items)
        BY <3>4
      <4> HIDE DEF l
      <4>2. Associates(es, front, l)
        BY <1>1, <3>4, <4>1, JoinAssociates, Zenon
      <4> QED
        BY <4>2 DEF Associates
    <3>10. Few(ef \o l, 1)
      <4> DEFINE all == ef \o l
      <4>1. Few(all, 0 + 1) /\ 0 + 1 = 1
        BY <3>8
      <4> HIDE DEF all
      <4> QED
        BY <4>1 DEF all
    <3> HIDE DEF ef
    <3> QED
      BY <3>5, <3>9, <3>10
  <2> QED
    BY <2>1, <2>2
<1> QED
  BY <1>1, <1>3, <1>4

LEMMA HandlerRetries ==
  ASSUME TypeOK, TypeOK', Phases, Calm, EventsInOrder, LastFails, LastFails', Retries,
         \/ HandleStart \/ HandleUser \/ HandleResult \/ HandleAssistant \/ HandleEndRetry
         \/ HandleEnd \/ SleepEnds
  PROVE  Retries'
<1> USE DEF agentVars, retryVars, compactVars, viewVars, fileVars, handlerVars
<1>a. HandleNext => handler = "free" /\ (~streaming => timers = 0) /\ events # <<>>
  BY DEF HandleNext, Calm
<1>1. CASE HandleStart \/ HandleUser \/ HandleResult
  <2>1. /\ HandleNext /\ UNCHANGED <<current, retryAttempt, streaming, ending, timers, handler>>
        /\ \/ Head(events).type = "message" /\ files' = AppendEntry(Head(events).item)
           \/ Head(events).type # "message" /\ files' = files
    BY <1>1 DEF HandleStart, HandleUser, HandleResult
  <2>2. Log' = Log
    BY <2>1, LogHandled
  <2>3. (Awaited' => Awaited) /\ (Failing' => Failing)
    BY <1>a, <2>1 DEF Awaited, Failing
  <2> QED
    BY <2>1, <2>2, <2>3, RetriesRest
<1>2. CASE HandleAssistant
  <2> DEFINE item == Head(events).item
  <2>1. /\ HandleNext /\ UNCHANGED <<current, streaming, ending, timers, handler>>
        /\ Head(events).type = "message" /\ files' = AppendEntry(item)
        /\ \/ EndsRetries(item) /\ retryAttempt' = 0
           \/ ~EndsRetries(item) /\ retryAttempt' = retryAttempt
    BY <1>2 DEF HandleAssistant, ResolveRetry
  <2>2. Log' = Log
    BY <2>1, LogHandled
  <2>3. (Awaited' => Awaited) /\ (Failing' => Failing)
    BY <1>a, <2>1 DEF Awaited, Failing
  <2>4. CASE retryAttempt' = retryAttempt
    BY <2>2, <2>3, <2>4, RetriesRest
  <2>5. CASE EndsRetries(item) /\ retryAttempt' = 0
    <3>1. item.kind # "retryable"
      BY <2>5 DEF EndsRetries, FailureKinds
    <3>2. Few(Log, 1) /\ (Without(Pend(events), "retryable") => Few(Log, 0))
      BY <2>1, <3>1, AnswerEndsRetries
    <3>3. Awaited' => Without(Pend(events), "retryable")
      <4>1. Awaited' => streaming /\ ending # "retryable"
        BY <1>a, <2>1 DEF Awaited
      <4> QED
        BY <4>1 DEF LastFails, Without
    <3>4. retryAttempt' = 0 /\ retryAttempt' + 1 = 1
      BY <2>5
    <3> QED
      BY <2>2, <3>2, <3>3, <3>4 DEF Retries
  <2> QED
    BY <2>1, <2>4, <2>5
<1>3. CASE HandleEndRetry \/ HandleEnd
  <2>1. HandleNext /\ Head(events).type = "agent_end" /\ UNCHANGED <<files, current, streaming, ending, timers>>
    BY <1>3 DEF HandleEndRetry, HandleEnd
  <2>2. Log' = Log
    BY <2>1, LogHandled
  <2>3. ~streaming /\ events' = <<>> /\ events # <<>>
    BY <2>1, EndRead
  <2>4. ending = "none"
    BY <2>3 DEF Phases, Runs
  <2>5. ~Failing' /\ (Awaited' => handler' = "sleeping")
    BY <1>a, <2>1, <2>3, <2>4 DEF Awaited, Failing
  <2>6. Few(Log, retryAttempt + 1)
    BY <2>3 DEF Retries, Failing
  <2>7. handler' = "sleeping" => retryAttempt' = retryAttempt + 1
    BY <1>a, <1>3, <2>1 DEF HandleEndRetry, HandleEnd, StopRetrying
  <2> QED
    BY <2>2, <2>5, <2>6, <2>7 DEF Retries
<1>4. CASE SleepEnds
  <2>1. UNCHANGED <<events, files, current, retryAttempt, streaming, ending>> /\ handler = "sleeping"
    BY <1>4 DEF SleepEnds
  <2> QED
    BY <2>1, LogStays, RetriesRest DEF Awaited, Failing
<1> QED
  BY <1>1, <1>2, <1>3, <1>4

\* What a session operation writes, and the file that it goes to.
LEMMA SwitchLog ==
  ASSUME TypeOK, Calm, SwitchSession
  PROVE  /\ \E s \in DOMAIN files : current' = s /\ Log' = files[s] /\ entries' = files[s]
         /\ UNCHANGED <<events, files, overflowTried, retryAttempt, streaming, ending, timers, handler, pc,
                        compaction>>
         /\ events = <<>> /\ ~streaming /\ timers = 0 /\ handler = "free" /\ \A c \in Callers : pc[c] = "idle"
<1> USE DEF agentVars, retryVars, compactVars, viewVars, fileVars, handlerVars
<1>1. PICK s \in DOMAIN files : current' = s /\ messages' = BuildContext(files[s])
  BY DEF SwitchSession
<1>2. /\ UNCHANGED <<events, files, overflowTried, retryAttempt, streaming, ending, timers, handler, pc, compaction>>
      /\ admin # "none" /\ ~streaming
  BY DEF SwitchSession
<1>3. Pend(<<>>) = <<>> /\ files[s] \in Seq(Items)
  BY PendEmpty DEF TypeOK
<1>4. events = <<>> /\ timers = 0 /\ handler = "free" /\ \A c \in Callers : pc[c] = "idle"
  BY <1>2 DEF Calm
<1> DEFINE es == files[s]
<1>5. entries' = es /\ Log' = es \o <<>> /\ es \in Seq(Items)
  BY <1>1, <1>2, <1>3, <1>4 DEF Log, entries
<1> HIDE DEF es
<1>6. es \o <<>> = es
  BY <1>5
<1> QED
  BY <1>1, <1>2, <1>4, <1>5, <1>6 DEF es

LEMMA NewLog ==
  ASSUME TypeOK, Calm, NewSession
  PROVE  /\ Log' = <<>> /\ entries' = <<>>
         /\ UNCHANGED <<events, overflowTried, retryAttempt, streaming, ending, timers, handler, pc, compaction>>
         /\ events = <<>> /\ ~streaming /\ timers = 0 /\ handler = "free" /\ \A c \in Callers : pc[c] = "idle"
<1> USE DEF agentVars, retryVars, compactVars, viewVars, fileVars, handlerVars
<1>1. /\ files' = Append(files, <<>>) /\ current' = Len(files) + 1
      /\ UNCHANGED <<events, overflowTried, retryAttempt, streaming, ending, timers, handler, pc, compaction>>
      /\ admin # "none" /\ ~streaming
  BY DEF NewSession
<1>2. events = <<>> /\ timers = 0 /\ handler = "free" /\ \A c \in Callers : pc[c] = "idle"
  BY <1>1 DEF Calm
<1>3. files'[current'] = <<>>
  <2>1. files \in Seq(Seq(Items))
    BY DEF TypeOK
  <2> QED
    BY <1>1, <2>1
<1>4. Log' = <<>> \o <<>>
  BY <1>1, <1>2, <1>3, PendEmpty DEF Log, entries
<1> QED
  BY <1>1, <1>2, <1>3, <1>4 DEF entries

LEMMA BashLog ==
  ASSUME TypeOK, ~disturbed', RecordBash
  PROVE  /\ UNCHANGED <<events, current, overflowTried, retryAttempt, streaming, ending, timers, handler, pc,
                        compaction, admin>>
         /\ \/ UNCHANGED files
            \/ Quiet /\ Log' = Log \o <<Item("bash")>> /\ entries' = Log'
         /\ Item("bash") \in Items /\ AllOf(<<Item("bash")>>, {"bash"})
<1> USE DEF agentVars, retryVars, compactVars, viewVars, fileVars, handlerVars
<1> DEFINE bash == Item("bash")
<1>1. bash \in Items /\ bash.kind = "bash"
  BY ItemIs DEF Kinds, Item
<1>2. /\ UNCHANGED <<events, current, overflowTried, retryAttempt, streaming, ending, timers, handler, pc,
                     compaction, admin>>
      /\ UNCHANGED files \/ (files' = AppendEntry(bash) /\ Quiet)
  BY DEF RecordBash, Disturb
<1> HIDE DEF bash
<1>3. CASE UNCHANGED files
  <2>1. AllOf(<<bash>>, {bash.kind})
    BY <1>1, AllOfFew
  <2> QED
    BY <1>1, <1>2, <1>3, <2>1 DEF bash
<1>4. CASE files' = AppendEntry(bash) /\ Quiet
  <2>1. AllOf(<<bash>>, {bash.kind})
    BY <1>1, AllOfFew
  <2>2. Log' = Log \o <<bash>> /\ entries' = Log'
    BY <1>1, <1>2, <1>4, LogAppended DEF Quiet
  <2> QED
    BY <1>1, <1>2, <1>4, <2>1, <2>2 DEF bash
<1> QED
  BY <1>2, <1>3, <1>4

LEMMA AdminRetries ==
  ASSUME TypeOK, TypeOK', Phases, Calm, Retries, \A s \in DOMAIN files : Fine(files[s]), ~disturbed',
         \/ RecordBash \/ \E operation \in {"new", "switch", "compact"} : AdminBegin(operation)
         \/ NewSession \/ SwitchSession \/ ManualCompact
  PROVE  Retries'
<1> USE DEF agentVars, retryVars, compactVars, viewVars, fileVars, handlerVars
<1>a. ~streaming => ending = "none"
  BY DEF Phases, Runs
<1>1. CASE RecordBash
  <2> DEFINE item == Item("bash")
  <2>1. /\ UNCHANGED <<events, current, retryAttempt, streaming, ending, timers, handler>>
        /\ \/ UNCHANGED files
           \/ Quiet /\ Log' = Log \o <<item>>
        /\ item \in Items /\ AllOf(<<item>>, {"bash"})
    BY <1>1, BashLog
  <2> HIDE DEF item
  <2>2. CASE UNCHANGED files
    BY <2>1, <2>2, LogStays, RetriesRest DEF Awaited, Failing
  <2>3. CASE Log' = Log \o <<item>>
    <3>1. Without(<<item>>, "retryable") /\ <<item>> \in Seq(Items) /\ <<item>> # <<>>
      <4>1. Without(<<item>>, "retryable")
        BY <2>1, AllOfIs
      <4> QED
        BY <2>1, <4>1
    <3> QED
      BY <2>3, <3>1, RetriesAdd
  <2> QED
    BY <2>1, <2>2, <2>3
<1>2. CASE \E operation \in {"new", "switch", "compact"} : AdminBegin(operation)
  <2>1. UNCHANGED <<events, files, current, streaming, ending, timers>> /\ AbortRetryEffects /\ Quiet
    BY <1>2 DEF AdminBegin, AbortEffects, Disturb
  <2>2. ~Awaited' /\ ~Failing'
    BY <1>a, <2>1 DEF Quiet, Awaited, Failing, AbortRetryEffects
  <2> QED
    BY <2>1, <2>2, LogStays, RetriesRest
<1>3. CASE NewSession
  <2>1. Log' = <<>> /\ ~Awaited' /\ ~Failing'
    BY <1>3, <1>a, NewLog DEF Awaited, Failing
  <2>2. FewEverywhere(<<>>)
    <3>1. Len(<<>>) = 0 /\ 1..0 = {}
      OBVIOUS
    <3> QED
      BY <3>1 DEF FewEverywhere
  <2> QED
    BY <2>1, <2>2 DEF Retries
<1>4. CASE SwitchSession
  <2>1. PICK s \in DOMAIN files : Log' = files[s]
    BY <1>4, SwitchLog
  <2>2. ~Awaited' /\ ~Failing'
    BY <1>4, <1>a, SwitchLog DEF Awaited, Failing
  <2> QED
    BY <2>1, <2>2 DEF Retries, Fine
<1>5. CASE ManualCompact
  <2>1. UNCHANGED <<events, files, current, retryAttempt, streaming, ending, timers, handler>>
    BY <1>5 DEF ManualCompact
  <2> QED
    BY <2>1, LogStays, RetriesRest DEF Awaited, Failing
<1> QED
  BY <1>1, <1>2, <1>3, <1>4, <1>5

LEMMA RetriesKept ==
  ASSUME TypeOK, TypeOK', Phases, Calm, Sorts, EventsInOrder, LastFails, Retries,
         \A s \in DOMAIN files : Fine(files[s]), ~disturbed', SessionStep
  PROVE  LastFails' /\ Retries'
<1> USE DEF agentVars, retryVars, compactVars, viewVars, fileVars, handlerVars, RestVars
<1>1. LastFails'
  BY LastFailsKept
<1>2. CASE AbortCompactions \/ QueueMessage(Item("user")) \/ Steers \/ Replaces \/ Clears \/ Idles
  <2>1. UNCHANGED <<events, files, current, retryAttempt, streaming, ending, timers, handler>>
    BY <1>2 DEF AbortCompactions, QueueMessage, Steers, Replaces, Clears, Idles
  <2> QED
    BY <1>1, <2>1, LogStays, RetriesRest DEF Awaited, Failing
<1>3. CASE Stops
  <2>1. UNCHANGED <<events, files, current, streaming, ending, timers>> /\ AbortRetryEffects
    BY <1>3 DEF Stops
  <2>2. Log' = Log
    BY <2>1, LogStays
  <2>3. CASE handler = "sleeping"
    <3>1. ~streaming /\ events = <<>> /\ timers = 0 /\ handler' = "free" /\ ending = "none"
      BY <2>1, <2>3 DEF AbortRetryEffects, Calm, Phases, Runs
    <3>2. ~Awaited' /\ ~Failing'
      BY <2>1, <3>1 DEF Awaited, Failing
    <3> QED
      BY <1>1, <2>2, <3>2, RetriesRest
  <2>4. CASE handler # "sleeping"
    <3>1. UNCHANGED <<handler, retryAttempt>>
      BY <2>1, <2>4 DEF AbortRetryEffects
    <3>2. (Awaited' => Awaited) /\ (Failing' => Failing)
      BY <2>1, <3>1 DEF Awaited, Failing
    <3> QED
      BY <1>1, <2>2, <3>1, <3>2, RetriesRest
  <2> QED
    BY <2>3, <2>4
<1>4. CASE \E w \in Workers : Compacts(w)
  BY <1>1, <1>4, CompactsRetries
<1>5. CASE \E c \in Callers : BeginsPrompt(c) \/ PromptCheck(c) \/ StartsPrompt(c) \/ GivesUpPrompt(c)
  BY <1>1, <1>5, CallerRetries
<1>6. CASE \/ ReplyAndGoOn \/ ReplyAndDeliver \/ EndRun \/ \E kind \in AssistantKinds : LastReply(kind)
           \/ ContinueSwallowed \/ Continue
  BY <1>1, <1>6, RunRetries DEF RunGoesOn
<1>7. CASE \/ HandleStart \/ HandleUser \/ HandleResult \/ HandleAssistant \/ HandleEndRetry \/ HandleEnd
           \/ SleepEnds
  BY <1>1, <1>7, HandlerRetries
<1>8. CASE \/ RecordBash \/ \E operation \in {"new", "switch", "compact"} : AdminBegin(operation)
           \/ NewSession \/ SwitchSession \/ ManualCompact
  BY <1>1, <1>8, AdminRetries
<1> QED
  BY <1>2, <1>3, <1>4, <1>5, <1>6, <1>7, <1>8 DEF SessionStep, SessionAction

-----------------------------------------------------------------------------
(* The rescues *)

\* Nothing goes on with the session before somebody prompts it.
Resting ==
  ~streaming /\ events = <<>> /\ handler = "free" /\ (timers = 1 => \E c \in Callers : Busy(c))
\* A rescue that nothing answered is the last one, or the next overflow waits
\* for a prompt to see it.
Rescued == Open(Log) = {} \/ overflowTried \/ (Resting /\ Dormant(Log))
\* While a rescue is under way no other is without an answer.
Rescuing ==
  \A w \in Workers : InProgress(w) /\ compaction[w].reason = "overflow" =>
    overflowTried /\ Open(entries) = {}
Rescues == RescuesApart(Log) /\ Rescued /\ Rescuing

LEMMA RescuedAdd ==
  ASSUME TypeOK, RescuesApart(Log), Rescued, NEW more \in Seq(Items), Without(more, "rescue"),
         Log' = Log \o more,
         \/ \E i \in 1..Len(more) : IsAnswer(more[i])
         \/ overflowTried' = overflowTried /\ ~Resting
         \/ overflowTried' = overflowTried /\ Resting' /\ Without(more, "overflow")
  PROVE  RescuesApart(Log)' /\ Rescued'
<1> DEFINE new == Log \o more
<1>1. /\ RescuesApart(Log) => RescuesApart(new)
      /\ Open(new) \subseteq Open(Log)
      /\ (\E i \in 1..Len(more) : IsAnswer(more[i])) => Open(new) = {}
      /\ Dormant(Log) /\ Without(more, "overflow") => Dormant(new)
  BY LogIs, RescuesAdd
<1> HIDE DEF new
<1>2. Open(new) = {} \/ overflowTried' \/ (Resting' /\ Dormant(new))
  BY <1>1 DEF Rescued
<1>3. Log' = new
  BY DEF new
<1> QED
  BY <1>1, <1>2, <1>3 DEF Rescued

LEMMA RescuedRest ==
  ASSUME RescuesApart(Log), Rescued, Log' = Log, overflowTried' = overflowTried,
         Resting => Resting'
  PROVE  RescuesApart(Log)' /\ Rescued'
BY DEF Rescued

LEMMA RescuingNone ==
  ASSUME \A w \in Workers : ~InProgress(w)'
  PROVE  Rescuing'
BY DEF Rescuing

LEMMA RescuingSame ==
  ASSUME Rescuing, entries' = entries, overflowTried' = overflowTried,
         \A w \in Workers : InProgress(w)' /\ compaction'[w].reason = "overflow" =>
           InProgress(w) /\ compaction[w].reason = "overflow"
  PROVE  Rescuing'
BY DEF Rescuing

LEMMA NobodyCompacts ==
  ASSUME TypeOK, Calm, streaming \/ events # <<>> \/ Quiet \/ timers = 1
  PROVE  \A w \in Workers : ~InProgress(w)
<1>1. handler # "compacting" /\ admin # "compacting"
  BY DEF Calm, Quiet
<1>2. \A c \in Callers : pc[c] # "compacting"
  BY DEF Calm, Quiet, Busy
<1> QED
  BY <1>1, <1>2 DEF InProgress

LEMMA NobodyBegins ==
  ASSUME \A w \in Workers : ~InProgress(w), handler' # "compacting" \/ handler' = handler,
         admin' # "compacting" \/ admin' = admin,
         \A c \in Callers : pc'[c] = "compacting" => pc[c] = "compacting"
  PROVE  \A w \in Workers : ~InProgress(w)'
BY WorkersAre DEF InProgress

LEMMA OneCompacts ==
  ASSUME TypeOK, Calm, NEW w \in Workers, NEW v \in Workers, InProgress(w), InProgress(v)
  PROVE  v = w
<1>1. \A c \in Callers : pc[c] = "compacting" => handler = "free" /\ admin = "none" /\ \A d \in Callers : d # c => pc[d] = "idle"
  BY DEF Calm, Busy
<1>2. handler = "compacting" => admin = "none"
  BY DEF Calm
<1> QED
  BY <1>1, <1>2, WorkersAre DEF InProgress

\* The compaction that ends was the only one.
LEMMA ReleaseAlone ==
  ASSUME TypeOK, Phases, Calm, NEW w \in Workers, compaction[w].phase # "none", Release(w)
  PROVE  /\ \A v \in Workers : ~InProgress(v)'
         /\ InProgress(w)
         /\ w \in Callers => \E c \in Callers : Busy(c)'
<1> USE PhaseTypes, WorkersAre
<1>1. InProgress(w)
  BY DEF Phases, Underway
<1>2. /\ handler' = IF w = "handler" THEN "free" ELSE handler
      /\ pc' = IF w \in Callers THEN [pc EXCEPT ![w] = "starting"] ELSE pc
      /\ admin' = IF w = "manual" THEN "none" ELSE admin
  BY DEF Release
<1>3. ASSUME NEW v \in Workers PROVE ~InProgress(v)'
  <2>1. CASE v = w
    BY <1>2, <2>1 DEF InProgress
  <2>2. CASE v # w
    <3>1. ~InProgress(v)
      BY <1>1, <2>2, OneCompacts
    <3> QED
      BY <1>2, <2>2, <3>1 DEF InProgress
  <2> QED
    BY <2>1, <2>2
<1>4. w \in Callers => Busy(w)'
  BY <1>2 DEF Busy
<1> QED
  BY <1>1, <1>3, <1>4

LEMMA CompactsRescues ==
  ASSUME TypeOK, Phases, Calm, Rescues, NEW w \in Workers, Compacts(w)
  PROVE  Rescues'
<1> USE DEF agentVars, retryVars, compactVars, viewVars, fileVars, handlerVars
<1>a. RescuesApart(Log) /\ Rescued /\ Rescuing
  BY DEF Rescues
<1>1. CASE PrepareCompaction(w)
  <2>1. /\ UNCHANGED <<events, files, current, overflowTried, streaming, timers, handler, pc, admin>>
        /\ \E n : compaction' = [compaction EXCEPT ![w].phase = "summarising", ![w].first = n]
    BY <1>1 DEF PrepareCompaction
  <2>2. \A v \in Workers : InProgress(v)' = InProgress(v) /\ compaction'[v].reason = compaction[v].reason
    BY <2>1, PhaseTypes DEF InProgress, Compactions
  <2>3. Log' = Log /\ entries' = entries
    BY <2>1, LogStays
  <2>4. Rescuing'
    BY <1>a, <2>1, <2>2, <2>3, RescuingSame
  <2>5. Resting => Resting'
    BY <2>1 DEF Resting, Busy
  <2> QED
    BY <1>a, <2>1, <2>3, <2>4, <2>5, RescuedRest DEF Rescues
<1>2. CASE StopCompaction(w)
  <2>1. /\ UNCHANGED <<events, files, current, overflowTried, streaming, timers>>
        /\ compaction[w].phase # "none" /\ Release(w)
    BY <1>2 DEF StopCompaction
  <2>2. /\ \A v \in Workers : ~InProgress(v)'
        /\ InProgress(w)
        /\ w \in Callers => \E c \in Callers : Busy(c)'
    BY <2>1, ReleaseAlone
  <2>3. Resting => Resting'
    <3>1. handler' = "free" \/ handler' = handler
      BY <2>1 DEF Release
    <3>2. w = "handler" => handler # "free"
      BY <2>2, WorkersAre DEF InProgress
    <3>3. w = "manual" => timers = 0
      BY <2>2, WorkersAre DEF InProgress, Calm
    <3> QED
      BY <2>1, <2>2, <3>1, <3>2, <3>3, WorkersAre DEF Resting
  <2> QED
    BY <1>a, <2>1, <2>2, <2>3, LogStays, RescuedRest, RescuingNone DEF Rescues
<1>3. ASSUME NEW waiting \in BOOLEAN, FinishCompactionWith(w, waiting) PROVE Rescues'
  <2> DEFINE c == compaction[w]
             item == Summary(c)
  <2>1. /\ files' = AppendEntry(item) /\ UNCHANGED <<events, current, overflowTried, streaming>>
        /\ c.phase # "none" /\ Release(w)
        /\ timers' = timers + IF Kicks(c, waiting) THEN 1 ELSE 0
    BY <1>3 DEF FinishCompactionWith
  <2>2. item \in Items /\ item.kind = IF c.reason = "overflow" THEN "rescue" ELSE "summary"
    BY SummaryIs
  <2>3. events = <<>> /\ ~streaming
    BY <2>1, SumsAlone
  <2>4. Log = entries /\ Log \in Seq(Items)
    BY <2>3, LogIs
  <2>5. /\ \A v \in Workers : ~InProgress(v)'
        /\ InProgress(w)
        /\ w \in Callers => \E d \in Callers : Busy(d)'
    BY <2>1, ReleaseAlone
  <2> HIDE DEF item
  <2>6. Log' = Log \o <<item>>
    BY <2>1, <2>2, <2>3, LogAppended
  <2>7. CASE c.reason = "overflow"
    <3>1. overflowTried /\ Open(entries) = {}
      BY <1>a, <2>5, <2>7 DEF Rescuing
    <3>2. RescuesApart(Log \o <<item>>)
      BY <1>a, <2>2, <2>4, <3>1, RescuesOne
    <3> QED
      BY <2>1, <2>5, <2>6, <3>1, <3>2, RescuingNone DEF Rescues, Rescued
  <2>8. CASE c.reason # "overflow"
    <3>1. Without(<<item>>, "rescue") /\ Without(<<item>>, "overflow") /\ <<item>> \in Seq(Items)
      <4>1. AllOf(<<item>>, {"summary"})
        BY <2>2, <2>8, AllOfFew
      <4> QED
        BY <2>2, <4>1, AllOfIs
    <3>2. ~Resting \/ Resting'
      <4>1. handler' = "free" \/ handler' = handler
        BY <2>1 DEF Release
      <4>2. w = "handler" => handler # "free"
        BY <2>5, WorkersAre DEF InProgress
      <4>3. w = "manual" => timers' = 0
        <5>1. w = "manual" => timers = 0
          BY <2>5, WorkersAre DEF InProgress, Calm
        <5>2. w = "manual" => c.reason = "manual"
          BY <2>5 DEF Phases, Underway, ReasonsOf
        <5> QED
          BY <2>1, <5>1, <5>2 DEF Kicks
      <4> QED
        BY <2>1, <2>3, <2>5, <4>1, <4>2, <4>3, WorkersAre DEF Resting
    <3>3. RescuesApart(Log)' /\ Rescued'
      BY <1>a, <2>1, <2>6, <3>1, <3>2, RescuedAdd
    <3> QED
      BY <2>5, <3>3, RescuingNone DEF Rescues
  <2> QED
    BY <2>7, <2>8
<1> QED
  BY <1>1, <1>2, <1>3 DEF Compacts

\* A prompt begins a rescue for an overflow that came after all rescues.
LEMMA OverflowAnswers ==
  ASSUME TypeOK, Within, Past, Rescued, events = <<>>, ~overflowTried, NEW skip,
         CompactionReason(LastAssistantIn(messages), skip) = "overflow"
  PROVE  Open(entries) = {}
<1> DEFINE m == LastAssistantIn(messages)
           es == entries
           l == LatestSummary(es)
<1>1. es \in Seq(Items) /\ Log = es /\ messages \in Seq(Items) /\ DOMAIN es = 1..Len(es) /\ Len(es) \in Nat
  <2>1. es \in Seq(Items) /\ Log = es /\ messages \in Seq(Items)
    BY LogIs
  <2> HIDE DEF es
  <2> QED
    BY <2>1
<1>2. m.kind \in {"overflow", "silent"} /\ ~FromBeforeCompaction(m)
  BY DEF CompactionReason
<1>3. m \in ToSet(es)
  <2>1. m # NoItem
    BY <1>2 DEF NoItem
  <2>2. \E i \in DOMAIN messages : IsAssistant(messages[i])
    BY <2>1 DEF LastAssistantIn
  <2>3. PICK i \in DOMAIN messages : m = messages[i]
    BY <1>1, <2>2, LastAssistantIs
  <2>4. i \in 1..Len(messages)
    BY <1>1, <2>3
  <2>5. m \in ToSet(messages)
    BY <1>1, <2>3, <2>4, InSet
  <2> QED
    BY <1>1, <2>5 DEF Within
<1>4. PICK j \in 1..Len(es) : m = es[j]
  BY <1>1, <1>3, InSet
<1>5. SummaryLast(es)
  BY DEF Past, TypeOK, entries
<1>6. SUFFICES ASSUME NEW i \in Open(es) PROVE FALSE
  OBVIOUS
<1>7. i \in 1..Len(es) /\ es[i].kind = "rescue" /\ \A k \in i..Len(es) : ~IsAnswer(es[k])
  BY <1>6 DEF Open, Unanswered
<1>8. Dormant(es)
  BY <1>1, <1>6 DEF Rescued
<1>9. j < i
  <2>1. \A k \in i..Len(es) : es[k].kind # "overflow"
    BY <1>6, <1>8 DEF Dormant
  <2>2. \A k \in i..Len(es) : es[k].kind # "silent"
    BY <1>7 DEF IsAnswer, AssistantKinds, FailureKinds
  <2>3. j \notin i..Len(es)
    BY <1>2, <1>4, <2>1, <2>2
  <2> QED
    BY <1>1, <1>4, <1>7, <2>3
<1>10. i \in Summaries(es)
  BY <1>1, <1>7 DEF Summaries, SummaryKinds
<1>11. i <= l /\ l \in 1..Len(es) /\ l # 0 /\ es[l].kind \in SummaryKinds
  <2>1. /\ l \in 0..Len(es) /\ (l = 0 <=> Summaries(es) = {})
        /\ (l # 0 => es[l].kind \in SummaryKinds) /\ \A k \in Summaries(es) : k <= l
    <3> HIDE DEF es
    <3> QED
      BY <1>1, LatestSummaryIs
  <2>2. l # 0 /\ i <= l
    BY <1>10, <2>1
  <2>3. l \in 1..Len(es)
    BY <1>1, <2>1, <2>2
  <2> QED
    BY <2>1, <2>2, <2>3
<1>12. es[j].n < es[l].n
  BY <1>1, <1>4, <1>5, <1>7, <1>9, <1>11 DEF SummaryLast
<1> QED
  BY <1>2, <1>4, <1>11, <1>12 DEF FromBeforeCompaction

LEMMA CallerRescues ==
  ASSUME TypeOK, Phases, Calm, Sorts, Past, Within, Rescues, ~disturbed', NEW c \in Callers,
         BeginsPrompt(c) \/ PromptCheck(c) \/ StartsPrompt(c) \/ GivesUpPrompt(c)
  PROVE  Rescues'
<1> USE DEF agentVars, retryVars, compactVars, viewVars, fileVars, handlerVars
<1> USE PhaseTypes, WorkersAre
<1>a. RescuesApart(Log) /\ Rescued /\ Rescuing
  BY DEF Rescues
<1>1. CASE BeginsPrompt(c)
  <2>1. PICK more : UserItems(more) /\ PromptBeginWith(c, more)
    BY <1>1 DEF BeginsPrompt
  <2>2. /\ files' = [files EXCEPT ![current] = entries \o pendingBash] /\ Quiet
        /\ UNCHANGED <<events, current, overflowTried, streaming, timers, handler, admin>>
        /\ pc' = [pc EXCEPT ![c] = "checking"]
    BY <2>1 DEF PromptBeginWith, entries, Disturb
  <2>3. pendingBash \in Seq(Items) /\ Without(pendingBash, "rescue") /\ Without(pendingBash, "overflow")
    <3>1. pendingBash \in Seq(Items)
      BY DEF TypeOK
    <3>2. \A i \in 1..Len(pendingBash) : pendingBash[i] \in ToSet(pendingBash)
      BY <3>1, InSet
    <3> QED
      BY <3>1, <3>2 DEF Sorts, Without
  <2>4. Log' = Log \o pendingBash
    BY <2>2, <2>3, LogWritten DEF Quiet
  <2>5. Resting'
    BY <2>2 DEF Quiet, Resting
  <2>6. \A w \in Workers : ~InProgress(w)'
    BY <2>2, NobodyCompacts, NobodyBegins
  <2> QED
    BY <1>a, <2>2, <2>3, <2>4, <2>5, <2>6, RescuedAdd, RescuingNone DEF Rescues
<1>2. CASE PromptCheck(c)
  <2> DEFINE reason == CompactionReason(LastAssistantIn(messages), FALSE)
  <2>1. /\ UNCHANGED <<events, files, current, streaming, timers, handler, admin>>
        /\ pc[c] = "checking"
        /\ \/ reason = "none" /\ pc' = [pc EXCEPT ![c] = "starting"] /\ UNCHANGED overflowTried
           \/ /\ reason # "none" /\ pc' = [pc EXCEPT ![c] = "compacting"]
              /\ compaction' = [compaction EXCEPT ![c] =
                                  [NoCompaction EXCEPT !.phase = "key", !.reason = reason]]
              /\ overflowTried' = (overflowTried \/ reason = "overflow")
    BY <1>2 DEF PromptCheck, BeginCompaction
  <2>2. Busy(c) /\ Busy(c)'
    BY <2>1 DEF Busy
  <2>3. events = <<>> /\ ~streaming /\ handler = "free" /\ admin = "none" /\ \A d \in Callers : d # c => pc[d] = "idle"
    BY <2>2 DEF Calm
  <2>4. Log' = Log /\ entries' = entries
    BY <2>1, LogStays
  <2>5. Resting'
    BY <2>1, <2>2, <2>3 DEF Resting
  <2>6. \A w \in Workers : InProgress(w)' => w = c /\ reason # "none"
    BY <2>1, <2>3 DEF InProgress
  <2>7. reason = "overflow" => ~overflowTried
    BY DEF CompactionReason
  <2>8. reason = "overflow" => Open(entries) = {}
    BY <1>a, <2>3, <2>7, OverflowAnswers
  <2> HIDE DEF reason
  <2>9. RescuesApart(Log)' /\ Rescued'
    BY <1>a, <2>1, <2>4, <2>5 DEF Rescued
  <2>10. Rescuing'
    <3> SUFFICES ASSUME NEW w \in Workers, InProgress(w)', compaction'[w].reason = "overflow"
                 PROVE  overflowTried' /\ Open(entries)' = {}
      BY DEF Rescuing
    <3>1. w = c /\ reason # "none"
      BY <2>6
    <3>2. compaction'[c].reason = reason
      BY <2>1, <3>1 DEF NoCompaction
    <3> QED
      BY <2>1, <2>4, <2>8, <3>1, <3>2
  <2> QED
    BY <2>9, <2>10 DEF Rescues
<1>3. CASE StartsPrompt(c)
  <2>1. PICK user : UserItem(user) /\ PromptStartWith(c, user)
    BY <1>3 DEF StartsPrompt
  <2>2. UNCHANGED <<files, current>> /\ Emits(<<user>>) /\ AllOf(<<user>>, {"user"}) /\ user \in Items
    BY <1>3, <2>1, RunConnected, RunTells DEF RunBegins, PromptStartWith
  <2>3. Log' = Log \o <<user>>
    BY <2>2, LogSaid
  <2> DEFINE more == <<user>>
  <2>4. Without(more, "rescue") /\ more \in Seq(Items) /\ \E i \in 1..Len(more) : IsAnswer(more[i])
    <3>1. Without(more, "rescue")
      BY <2>2, AllOfIs
    <3>2. more \in Seq(Items) /\ Len(more) = 1 /\ more[1] = user /\ 1 \in 1..1
      BY <2>2
    <3>3. IsAnswer(user)
      BY <2>1 DEF UserItem, ItemsOf, IsAnswer, FailureKinds
    <3> HIDE DEF more
    <3> QED
      BY <3>1, <3>2, <3>3
  <2> HIDE DEF more
  <2>5. RescuesApart(Log)' /\ Rescued'
    BY <1>a, <2>3, <2>4, RescuedAdd DEF more
  <2>6. \A w \in Workers : ~InProgress(w)'
    <3>1. /\ UNCHANGED <<handler, admin>> /\ pc' = [pc EXCEPT ![c] = "running"] /\ pc[c] = "starting"
      BY <2>1 DEF PromptStartWith
    <3>2. handler = "free" /\ admin = "none" /\ \A d \in Callers : d # c => pc[d] = "idle"
      BY <3>1 DEF Calm, Busy
    <3> QED
      BY <3>1, <3>2 DEF InProgress
  <2> QED
    BY <2>5, <2>6, RescuingNone DEF Rescues
<1>4. CASE GivesUpPrompt(c)
  <2>1. /\ UNCHANGED <<events, files, current, overflowTried, streaming, timers, handler, admin>>
        /\ pc[c] \in {"checking", "starting"} /\ pc' = [pc EXCEPT ![c] = "idle"]
        /\ pc[c] = "starting" => streaming
    BY <1>4 DEF GivesUpPrompt, PromptThrows
  <2>2. Busy(c)
    BY <2>1 DEF Busy
  <2>3. /\ ~streaming /\ events = <<>> /\ handler = "free" /\ admin = "none" /\ timers # 1
        /\ \A d \in Callers : d # c => pc[d] = "idle"
    BY <2>1, <2>2 DEF Calm
  <2>4. Resting' /\ Log' = Log
    BY <2>1, <2>3, LogStays DEF Resting
  <2>5. \A w \in Workers : ~InProgress(w)'
    BY <2>1, <2>3 DEF InProgress
  <2> QED
    BY <1>a, <2>1, <2>4, <2>5, RescuedRest, RescuingNone DEF Rescues
<1> QED
  BY <1>1, <1>2, <1>3, <1>4

LEMMA SaysRescues ==
  ASSUME TypeOK, RescuesApart(Log), Rescued, NEW items, NEW kinds, Emits(items), AllOf(items, kinds),
         UNCHANGED <<files, current, overflowTried>>, kinds \cap SummaryKinds = {},
         ~Resting \/ \E i \in 1..Len(items) : IsAnswer(items[i])
  PROVE  RescuesApart(Log)' /\ Rescued'
<1>1. items \in Seq(Items) /\ Log' = Log \o items
  BY LogSaid
<1>2. Without(items, "rescue")
  <2>1. "rescue" \notin kinds
    BY DEF SummaryKinds
  <2> QED
    BY <2>1, AllOfIs
<1> QED
  BY <1>1, <1>2, RescuedAdd

LEMMA RunRescues ==
  ASSUME TypeOK, Phases, Calm, Sorts, Rescues, ~disturbed',
         RunGoesOn \/ EndRun \/ ContinueSwallowed \/ Continue
  PROVE  Rescues'
<1> USE DEF agentVars, retryVars, compactVars, viewVars, fileVars, handlerVars, RunVars, ReplyVars
<1> USE PhaseTypes, WorkersAre
<1>a. RescuesApart(Log) /\ Rescued /\ Rescuing
  BY DEF Rescues
<1>b. RunGoesOn \/ Continue => connected /\ UNCHANGED <<files, current, overflowTried, handler, admin, pc>>
  <2>1. RunGoesOn \/ Continue => connected
    BY RunConnected DEF RunBegins
  <2> QED
    BY <2>1 DEF RunGoesOn, ReplyAndGoOn, ReplyAndDeliver, LastReply, Continue
<1>c. RunGoesOn \/ EndRun => streaming
  BY DEF RunGoesOn, ReplyAndGoOn, ReplyAndDeliver, LastReply, EndRun
<1>f. timers > 0 => timers = 1
  BY DEF Calm
<1>d. RunGoesOn \/ EndRun \/ Continue => ~Resting
  <2>1. streaming => ~Resting
    BY DEF Resting
  <2>2. Continue => ~Resting
    <3>1. Continue => timers > 0 /\ disturbed' = (disturbed \/ \E c \in Callers : pc[c] \notin {"idle", "retryWait"})
      BY DEF Continue, Disturb
    <3>2. Continue => timers = 1 /\ \A c \in Callers : ~Busy(c)
      BY <1>f, <3>1 DEF Busy
    <3> QED
      BY <3>2 DEF Resting
  <2> QED
    BY <1>c, <2>1, <2>2
<1>e. \A w \in Workers : ~InProgress(w)
  <2>1. streaming \/ timers = 1
    BY <1>c, <1>f DEF ContinueSwallowed, Continue
  <2> QED
    BY <2>1, NobodyCompacts
<1>1. CASE RunGoesOn \/ Continue
  <2>1. \E items, kinds : Emits(items) /\ AllOf(items, kinds) /\ kinds \cap SummaryKinds = {}
    <3>1. CASE ReplyAndGoOn
      <4>1. Tells({"ok", "result"}) /\ {"ok", "result"} \cap SummaryKinds = {}
        BY <1>b, <3>1, RunTells DEF RunGoesOn, SummaryKinds
      <4> QED
        BY <4>1 DEF Tells
    <3>2. CASE ReplyAndDeliver
      <4>1. Tells({"ok", "user"}) /\ {"ok", "user"} \cap SummaryKinds = {}
        BY <1>b, <3>2, RunTells DEF RunGoesOn, SummaryKinds
      <4> QED
        BY <4>1 DEF Tells
    <3>3. ASSUME NEW kind \in AssistantKinds, LastReply(kind)
          PROVE  \E items, kinds : Emits(items) /\ AllOf(items, kinds) /\ kinds \cap SummaryKinds = {}
      <4>1. Emits(<<Item(kind)>>) /\ AllOf(<<Item(kind)>>, {kind})
        BY <1>b, <3>3, RunTells DEF RunGoesOn
      <4>2. {kind} \cap SummaryKinds = {}
        BY DEF SummaryKinds, AssistantKinds, FailureKinds
      <4> QED
        BY <4>1, <4>2
    <3>4. CASE Continue
      <4>1. Tells({"user"}) /\ {"user"} \cap SummaryKinds = {}
        BY <1>b, <3>4, RunTells DEF SummaryKinds
      <4> QED
        BY <4>1 DEF Tells
    <3> QED
      BY <1>1, <3>1, <3>2, <3>3, <3>4 DEF RunGoesOn
  <2>2. RescuesApart(Log)' /\ Rescued'
    BY <1>1, <1>a, <1>b, <1>d, <2>1, SaysRescues
  <2>3. \A w \in Workers : ~InProgress(w)'
    BY <1>1, <1>b, <1>e, NobodyBegins
  <2> QED
    BY <2>2, <2>3, RescuingNone DEF Rescues
<1>2. CASE EndRun
  <2>1. Log' = Log /\ UNCHANGED <<overflowTried, handler, admin>>
        /\ \A c \in Callers : pc'[c] = "compacting" => pc[c] = "compacting"
    BY <1>2, LogEnded DEF EndRun
  <2>2. \A w \in Workers : ~InProgress(w)'
    BY <1>e, <2>1, NobodyBegins
  <2> QED
    BY <1>2, <1>a, <1>d, <2>1, <2>2, RescuedRest, RescuingNone DEF Rescues
<1>3. CASE ContinueSwallowed
  <2>1. UNCHANGED <<events, files, current, overflowTried, streaming, handler, pc, admin>> /\ timers' = timers - 1
        /\ timers > 0
    BY <1>3 DEF ContinueSwallowed
  <2>2. timers' = 0
    BY <2>1 DEF Calm
  <2>3. Resting => Resting'
    BY <2>1, <2>2 DEF Resting
  <2>4. \A w \in Workers : ~InProgress(w)'
    BY <1>e, <2>1, NobodyBegins
  <2> QED
    BY <1>a, <2>1, <2>3, <2>4, LogStays, RescuedRest, RescuingNone DEF Rescues
<1> QED
  BY <1>1, <1>2, <1>3

\* A message that waits and answers comes after every rescue.
LEMMA AnswerHandled ==
  ASSUME TypeOK, Sorts, HandleNext, Head(events).type = "message", IsAnswer(Head(events).item)
  PROVE  Open(Log) = {}
<1> DEFINE waits == Pend(events)
           item == Head(events).item
<1>1. waits \in Seq(Items) /\ entries \in Seq(Items) /\ item \in ToSet(waits)
  BY PendNext, LogIs
<1>2. Without(waits, "rescue")
  <2>1. \A x \in ToSet(waits) : x.kind # "rescue"
    BY DEF Sorts, SummaryKinds
  <2>2. \A i \in 1..Len(waits) : waits[i] \in ToSet(waits)
    BY <1>1, InSet
  <2> QED
    BY <2>1, <2>2 DEF Without
<1>3. \E i \in 1..Len(waits) : IsAnswer(waits[i])
  <2>1. PICK i \in 1..Len(waits) : item = waits[i]
    BY <1>1, InSet
  <2> QED
    BY <2>1
<1> HIDE DEF waits
<1>4. Open(entries \o waits) = {}
  BY <1>1, <1>2, <1>3, RescuesAdd
<1> QED
  BY <1>4 DEF Log, waits

LEMMA HandlerRescues ==
  ASSUME TypeOK, Phases, Calm, EventsInOrder, Sorts, Rescues,
         \/ HandleStart \/ HandleUser \/ HandleResult \/ HandleAssistant \/ HandleEndRetry
         \/ HandleEnd \/ SleepEnds
  PROVE  Rescues'
<1> USE DEF agentVars, retryVars, compactVars, viewVars, fileVars, handlerVars
<1> USE PhaseTypes, WorkersAre
<1>a. RescuesApart(Log) /\ Rescued /\ Rescuing
  BY DEF Rescues
<1>b. HandleNext => ~Resting /\ \A w \in Workers : ~InProgress(w)
  BY NobodyCompacts DEF HandleNext, Resting
<1>1. CASE HandleStart \/ HandleUser \/ HandleResult \/ HandleAssistant
  <2>1. /\ HandleNext /\ UNCHANGED <<current, handler, admin>>
        /\ \/ Head(events).type = "message" /\ files' = AppendEntry(Head(events).item)
           \/ Head(events).type # "message" /\ files' = files
        /\ \A c \in Callers : pc'[c] = "compacting" => pc[c] = "compacting"
        /\ \/ overflowTried' = overflowTried
           \/ Head(events).type = "message" /\ IsAnswer(Head(events).item)
    <3>1. CASE HandleStart \/ HandleResult
      BY <3>1 DEF HandleStart, HandleResult
    <3>2. CASE HandleUser
      BY <3>2 DEF HandleUser, IsAnswer, FailureKinds
    <3>3. CASE HandleAssistant
      <4>1. \A c \in Callers : pc'[c] = "compacting" => pc[c] = "compacting"
        BY <3>3 DEF HandleAssistant, ResolveRetry, Woken
      <4>2. overflowTried \in BOOLEAN
        BY DEF TypeOK
      <4> QED
        BY <3>3, <4>1, <4>2 DEF HandleAssistant, IsAnswer, IsAssistant
    <3> QED
      BY <1>1, <3>1, <3>2, <3>3
  <2>2. Log' = Log
    BY <2>1, LogHandled
  <2>3. \A w \in Workers : ~InProgress(w)'
    BY <1>b, <2>1, NobodyBegins
  <2>4. RescuesApart(Log)' /\ Rescued'
    <3>1. CASE overflowTried' = overflowTried
      BY <1>a, <1>b, <2>1, <2>2, <3>1, RescuedRest
    <3>2. CASE Head(events).type = "message" /\ IsAnswer(Head(events).item)
      <4>1. Open(Log) = {}
        BY <2>1, <3>2, AnswerHandled
      <4> QED
        BY <1>a, <2>2, <4>1 DEF Rescued
    <3> QED
      BY <2>1, <3>1, <3>2
  <2> QED
    BY <2>3, <2>4, RescuingNone DEF Rescues
<1>2. CASE HandleEndRetry
  <2>1. /\ HandleNext /\ Head(events).type = "agent_end" /\ UNCHANGED <<files, current, overflowTried, admin>>
        /\ handler' # "compacting"
        /\ \A c \in Callers : pc'[c] = "compacting" => pc[c] = "compacting"
    BY <1>2 DEF HandleEndRetry, StopRetrying, ResolveRetry, Woken, HandleNext
  <2>2. Log' = Log
    BY <2>1, LogHandled
  <2>3. \A w \in Workers : ~InProgress(w)'
    BY <1>b, <2>1, NobodyBegins
  <2> QED
    BY <1>a, <1>b, <2>1, <2>2, <2>3, RescuedRest, RescuingNone DEF Rescues
<1>3. CASE HandleEnd
  <2> DEFINE reason == CompactionReason(lastAssistant, TRUE)
  <2>1. /\ HandleNext /\ Head(events).type = "agent_end" /\ UNCHANGED <<files, current, admin, pc>>
        /\ \/ reason = "none" /\ UNCHANGED <<handler, overflowTried>>
           \/ /\ compaction' = [compaction EXCEPT !["handler"] =
                                  [NoCompaction EXCEPT !.phase = "key", !.reason = reason]]
              /\ overflowTried' = (overflowTried \/ reason = "overflow")
    BY <1>3 DEF HandleEnd, BeginCompaction
  <2>2. Log' = Log
    BY <2>1, LogHandled
  <2>3. Log = entries /\ entries' = entries
    <3>1. Pend(events) = <<>> /\ entries \in Seq(Items)
      BY <2>1, EndRead, LogIs
    <3>2. entries \o <<>> = entries
      BY <3>1
    <3> QED
      BY <2>1, <3>1, <3>2 DEF Log, entries
  <2>4. reason = "overflow" => ~overflowTried
    BY DEF CompactionReason
  <2> HIDE DEF reason
  <2>5. Open(Log) = {} \/ overflowTried
    BY <1>a, <1>b, <2>1 DEF Rescued
  <2>6. RescuesApart(Log)' /\ Rescued'
    <3>1. overflowTried => overflowTried'
      BY <2>1
    <3> QED
      BY <1>a, <2>2, <2>5, <3>1 DEF Rescued
  <2>7. CASE UNCHANGED handler
    <3>1. \A w \in Workers : ~InProgress(w)'
      BY <1>b, <2>1, <2>7, NobodyBegins
    <3> QED
      BY <2>6, <3>1, RescuingNone DEF Rescues
  <2>8. CASE /\ compaction' = [compaction EXCEPT !["handler"] =
                                 [NoCompaction EXCEPT !.phase = "key", !.reason = reason]]
             /\ overflowTried' = (overflowTried \/ reason = "overflow")
    <3> SUFFICES ASSUME NEW w \in Workers, InProgress(w)', compaction'[w].reason = "overflow"
                 PROVE  overflowTried' /\ Open(entries)' = {}
      BY <2>6 DEF Rescues, Rescuing
    <3>1. w = "handler"
      BY <1>b, <2>1 DEF InProgress
    <3>2. compaction'["handler"].reason = reason
      BY <2>8 DEF NoCompaction
    <3> QED
      BY <2>3, <2>4, <2>5, <2>8, <3>1, <3>2
  <2> QED
    BY <2>1, <2>7, <2>8
<1>4. CASE SleepEnds
  <2>1. UNCHANGED <<events, files, current, overflowTried, admin, pc, compaction>> /\ handler = "sleeping"
        /\ handler' = "free"
    BY <1>4 DEF SleepEnds
  <2>2. ~Resting
    BY <2>1 DEF Resting
  <2>3. Log' = Log /\ entries' = entries
    BY <2>1, LogStays
  <2>4. \A w \in Workers : InProgress(w)' => InProgress(w)
    BY <2>1 DEF InProgress
  <2> QED
    BY <1>a, <2>1, <2>2, <2>3, <2>4, RescuedRest, RescuingSame DEF Rescues
<1> QED
  BY <1>1, <1>2, <1>3, <1>4

LEMMA AdminRescues ==
  ASSUME TypeOK, Phases, Calm, Rescues, \A s \in DOMAIN files : Fine(files[s]), ~disturbed',
         \/ RecordBash \/ \E operation \in {"new", "switch", "compact"} : AdminBegin(operation)
         \/ NewSession \/ SwitchSession \/ ManualCompact
  PROVE  Rescues'
<1> USE DEF agentVars, retryVars, compactVars, viewVars, fileVars, handlerVars
<1> USE PhaseTypes, WorkersAre
<1>a. RescuesApart(Log) /\ Rescued /\ Rescuing
  BY DEF Rescues
<1>1. CASE RecordBash
  <2> DEFINE item == Item("bash")
  <2>1. /\ UNCHANGED <<events, current, overflowTried, streaming, timers, handler, pc, compaction, admin>>
        /\ \/ UNCHANGED files
           \/ Quiet /\ Log' = Log \o <<item>>
        /\ item \in Items /\ AllOf(<<item>>, {"bash"})
    BY <1>1, BashLog
  <2> HIDE DEF item
  <2>2. Resting => Resting'
    BY <2>1 DEF Resting, Busy
  <2>3. \A w \in Workers : InProgress(w)' => InProgress(w)
    BY <2>1 DEF InProgress
  <2>4. CASE UNCHANGED files
    <3>1. Log' = Log /\ entries' = entries
      BY <2>1, <2>4, LogStays
    <3> QED
      BY <1>a, <2>1, <2>2, <2>3, <3>1, RescuedRest, RescuingSame DEF Rescues
  <2>5. CASE Quiet /\ Log' = Log \o <<item>>
    <3>1. Without(<<item>>, "rescue") /\ Without(<<item>>, "overflow") /\ <<item>> \in Seq(Items)
      <4>1. Without(<<item>>, "rescue") /\ Without(<<item>>, "overflow")
        BY <2>1, AllOfIs
      <4> QED
        BY <2>1, <4>1
    <3>2. Resting'
      BY <2>1, <2>5 DEF Quiet, Resting
    <3>3. \A w \in Workers : ~InProgress(w)'
      BY <2>1, <2>5, NobodyCompacts, NobodyBegins
    <3> QED
      BY <1>a, <2>1, <2>5, <3>1, <3>2, <3>3, RescuedAdd, RescuingNone DEF Rescues
  <2> QED
    BY <2>1, <2>4, <2>5
<1>2. ASSUME NEW operation \in {"new", "switch", "compact"}, AdminBegin(operation) PROVE Rescues'
  <2>1. UNCHANGED <<events, files, current, overflowTried, streaming, timers>> /\ AbortRetryEffects /\ Quiet
        /\ admin' = operation
    BY <1>2 DEF AdminBegin, AbortEffects, Disturb
  <2>2. Resting'
    BY <2>1 DEF Quiet, Resting, AbortRetryEffects
  <2>3. \A w \in Workers : ~InProgress(w)'
    <3>1. handler' # "compacting" /\ \A c \in Callers : pc'[c] = "compacting" => pc[c] = "compacting"
      BY <2>1 DEF AbortRetryEffects, ResolveRetry, Woken, Quiet
    <3> QED
      BY <2>1, <3>1, NobodyCompacts, NobodyBegins
  <2> QED
    BY <1>a, <2>1, <2>2, <2>3, LogStays, RescuedRest, RescuingNone DEF Rescues
<1>b. \A es : Len(es) = 0 => Open(es) = {} /\ RescuesApart(es)
  <2>1. 1..0 = {}
    OBVIOUS
  <2> QED
    BY <2>1 DEF Open, RescuesApart
<1>3. CASE NewSession
  <2>1. /\ Log' = <<>> /\ UNCHANGED <<handler, pc>> /\ handler = "free"
        /\ \A c \in Callers : pc[c] = "idle"
    BY <1>3, NewLog
  <2>2. admin' = "none"
    BY <1>3 DEF NewSession
  <2>3. \A w \in Workers : ~InProgress(w)'
    BY <2>1, <2>2 DEF InProgress
  <2>4. Open(Log)' = {} /\ RescuesApart(Log)'
    BY <1>b, <2>1
  <2> QED
    BY <2>3, <2>4, RescuingNone DEF Rescues, Rescued
<1>4. CASE SwitchSession
  <2>1. PICK s \in DOMAIN files : current' = s /\ Log' = files[s]
    BY <1>4, SwitchLog
  <2>2. /\ UNCHANGED <<events, files, streaming, timers, handler, pc>> /\ events = <<>> /\ ~streaming
        /\ timers = 0 /\ handler = "free" /\ \A c \in Callers : pc[c] = "idle"
    BY <1>4, SwitchLog
  <2>3. admin' = "none" /\ ~EndsInOverflow(files[s])
    BY <1>4, <2>1 DEF SwitchSession, Disturb
  <2>4. Resting'
    BY <2>2 DEF Resting
  <2>5. Dormant(files[s])
    <3> DEFINE es == files[s]
    <3>1. es \in Seq(Items) /\ DOMAIN es = 1..Len(es) /\ Len(es) \in Nat
      <4>1. es \in Seq(Items)
        BY DEF TypeOK
      <4> HIDE DEF es
      <4> QED
        BY <4>1
    <3> SUFFICES ASSUME NEW i \in Open(es), NEW j \in i..Len(es), es[j].kind = "overflow" PROVE FALSE
      BY DEF Dormant
    <3>2. i \in 1..Len(es) /\ \A k \in i..Len(es) : ~IsAnswer(es[k])
      BY DEF Open, Unanswered
    <3>3. j \in DOMAIN es /\ \A k \in j..Len(es) : ~IsAnswer(es[k])
      BY <3>1, <3>2
    <3> QED
      BY <2>3, <3>3 DEF EndsInOverflow
  <2>6. \A w \in Workers : ~InProgress(w)'
    BY <2>2, <2>3 DEF InProgress
  <2> QED
    BY <2>1, <2>4, <2>5, <2>6, RescuingNone DEF Rescues, Rescued, Fine
<1>5. CASE ManualCompact
  <2>1. /\ UNCHANGED <<events, files, current, overflowTried, streaming, timers, handler, pc>>
        /\ admin # "none" /\ admin' = "compacting"
        /\ compaction' = [compaction EXCEPT !["manual"] =
                            [NoCompaction EXCEPT !.phase = "key", !.reason = "manual"]]
    BY <1>5 DEF ManualCompact
  <2>2. handler = "free" /\ \A c \in Callers : pc[c] = "idle"
    BY <2>1 DEF Calm
  <2>3. Resting => Resting'
    BY <2>1 DEF Resting, Busy
  <2>4. \A w \in Workers : InProgress(w)' => w = "manual"
    BY <2>1, <2>2 DEF InProgress
  <2>5. compaction'["manual"].reason = "manual"
    BY <2>1 DEF NoCompaction
  <2>6. Rescuing'
    BY <2>4, <2>5 DEF Rescuing
  <2> QED
    BY <1>a, <2>1, <2>3, <2>6, LogStays, RescuedRest DEF Rescues
<1> QED
  BY <1>1, <1>2, <1>3, <1>4, <1>5

LEMMA RescuesKept ==
  ASSUME TypeOK, Phases, Calm, Sorts, Past, EventsInOrder, Within, Rescues,
         \A s \in DOMAIN files : Fine(files[s]), ~disturbed', SessionStep
  PROVE  Rescues'
<1> USE DEF agentVars, retryVars, compactVars, viewVars, fileVars, handlerVars, RestVars
<1> USE PhaseTypes, WorkersAre
<1>a. RescuesApart(Log) /\ Rescued /\ Rescuing
  BY DEF Rescues
<1>1. CASE QueueMessage(Item("user")) \/ Steers \/ Replaces \/ Clears \/ Idles \/ AbortCompactions
  <2>1. /\ UNCHANGED <<events, files, current, overflowTried, streaming, timers, handler, pc, admin>>
        /\ \A w \in Workers : compaction'[w].reason = compaction[w].reason
    <3>1. CASE QueueMessage(Item("user")) \/ Steers \/ Replaces \/ Clears \/ Idles
      BY <3>1 DEF QueueMessage, Steers, Replaces, Clears, Idles
    <3>2. CASE AbortCompactions
      BY <3>2 DEF AbortCompactions, Compactions
    <3> QED
      BY <1>1, <3>1, <3>2
  <2>2. Resting => Resting'
    BY <2>1 DEF Resting, Busy
  <2>3. \A w \in Workers : InProgress(w)' => InProgress(w)
    BY <2>1 DEF InProgress
  <2>4. Log' = Log /\ entries' = entries
    BY <2>1, LogStays
  <2> QED
    BY <1>a, <2>1, <2>2, <2>3, <2>4, RescuedRest, RescuingSame DEF Rescues
<1>2. CASE Stops
  <2>1. /\ UNCHANGED <<events, files, current, overflowTried, streaming, timers, admin, compaction>>
        /\ handler' = handler \/ (handler' = "free" /\ handler = "sleeping")
        /\ \A c \in Callers : pc'[c] = pc[c] \/ (pc'[c] = "idle" /\ pc[c] = "retryWait")
    BY <1>2 DEF Stops, AbortRetryEffects, ResolveRetry, Woken
  <2>2. Resting => Resting'
    BY <2>1 DEF Resting, Busy
  <2>3. \A w \in Workers : InProgress(w)' => InProgress(w)
    BY <2>1 DEF InProgress
  <2>4. Log' = Log /\ entries' = entries
    BY <2>1, LogStays
  <2> QED
    BY <1>a, <2>1, <2>2, <2>3, <2>4, RescuedRest, RescuingSame DEF Rescues
<1>3. CASE \E w \in Workers : Compacts(w)
  BY <1>3, CompactsRescues
<1>4. CASE \E c \in Callers : BeginsPrompt(c) \/ PromptCheck(c) \/ StartsPrompt(c) \/ GivesUpPrompt(c)
  BY <1>4, CallerRescues
<1>5. CASE \/ ReplyAndGoOn \/ ReplyAndDeliver \/ EndRun \/ \E kind \in AssistantKinds : LastReply(kind)
           \/ ContinueSwallowed \/ Continue
  BY <1>5, RunRescues DEF RunGoesOn
<1>6. CASE \/ HandleStart \/ HandleUser \/ HandleResult \/ HandleAssistant \/ HandleEndRetry \/ HandleEnd
           \/ SleepEnds
  BY <1>6, HandlerRescues
<1>7. CASE \/ RecordBash \/ \E operation \in {"new", "switch", "compact"} : AdminBegin(operation)
           \/ NewSession \/ SwitchSession \/ ManualCompact
  BY <1>7, AdminRescues
<1> QED
  BY <1>1, <1>2, <1>3, <1>4, <1>5, <1>6, <1>7 DEF SessionStep, SessionAction

\* What is written begins the log, so no file has more failures or rescues.
LEMMA FilesKept ==
  ASSUME TypeOK, TypeOK', Retries', Rescues', \A s \in DOMAIN files : Fine(files[s]), Sources
  PROVE  \A s \in DOMAIN files' : Fine(files'[s])
<1>1. Fine(Log')
  BY DEF Retries, Rescues, Fine
<1>2. Fine(entries')
  <2>1. entries' \in Seq(Items)
    BY SMTT(20), ZenonT(20) DEF TypeOK, entries
  <2>2. Pend(events') \in Seq(Items)
    <3>1. events' \in Seq(Events)
      BY DEF TypeOK, Events, EventTypes
    <3> QED
      BY <3>1, PendJoin
  <2> DEFINE es == entries'
             waits == Pend(events')
  <2>3. es \in Seq(Items) /\ waits \in Seq(Items) /\ Fine(es \o waits)
    BY <1>1, <2>1, <2>2 DEF Log
  <2> HIDE DEF es, waits
  <2>4. Fine(es)
    BY <2>3, FineBegins
  <2> QED
    BY <2>4 DEF es
<1>a. files \in Seq(Seq(Items)) /\ current \in DOMAIN files /\ DOMAIN files = 1..Len(files)
  BY DEF TypeOK
<1>3. CASE files' = files
  BY <1>3
<1>4. CASE NewSession
  <2>1. files' = Append(files, <<>>) /\ current' = Len(files) + 1
    BY <1>4 DEF NewSession
  <2>2. \A s \in DOMAIN files' : s = current' \/ (s \in DOMAIN files /\ files'[s] = files[s])
    BY <1>a, <2>1
  <2> QED
    BY <1>2, <2>2 DEF entries
<1>5. ASSUME NEW more, Written(more), current' = current,
             files' = [files EXCEPT ![current] = entries \o more]
      PROVE  \A s \in DOMAIN files' : Fine(files'[s])
  <2>1. \A s \in DOMAIN files' : s = current' \/ (s \in DOMAIN files /\ files'[s] = files[s])
    BY <1>5
  <2> QED
    BY <1>2, <2>1 DEF entries
<1> QED
  BY <1>3, <1>4, <1>5 DEF Sources, FilesFrom

-----------------------------------------------------------------------------
(* The messages shown as queued *)

\* The messages of the user whose events wait.
UserItemsOf == ItemsOf({"user"})
Users == Only(Pend(events), UserItemsOf)

\* Of the messages whose events wait, X are not shown any more; what is shown
\* is the others and the messages that are queued.
Delivered(waits, seen, rest) ==
  \E X, D \in Seq(Items) :
    waits = X \o D /\ seen = D \o rest /\ ToSet(X) \cap ToSet(seen) = {}
Mirrored == Delivered(Users, shown, queued)

LEMMA JoinEmpty ==
  ASSUME NEW s \in Seq(Items)
  PROVE  s \o <<>> = s /\ <<>> \o s = s /\ <<>> \in Seq(Items)
OBVIOUS

LEMMA DeliveredNone ==
  ASSUME NEW s \in Seq(Items)
  PROVE  /\ Delivered(<<>>, s, s) /\ Delivered(s, <<>>, <<>>)
         /\ \A seen : Delivered(<<>>, seen, s) => seen = s
<1> DEFINE none == <<>>
<1>1. none \in Seq(Items) /\ none \o none = none /\ none \o s = s /\ s \o none = s /\ ToSet(none) = {}
  BY JoinEmpty, SetOfOne
<1>2. \A X, D \in Seq(Items) : none = X \o D => D = none
  <2>1. ASSUME NEW X \in Seq(Items), NEW D \in Seq(Items), none = X \o D PROVE D = none
    <3>1. Len(X \o D) = Len(X) + Len(D) /\ Len(X) \in Nat /\ Len(D) \in Nat
      BY JoinIs
    <3>2. Len(none) = 0
      OBVIOUS
    <3> DEFINE both == X \o D
    <3>3. Len(both) = 0
      BY <2>1, <3>2
    <3>4. Len(both) = Len(X) + Len(D)
      BY <3>1
    <3>6. Len(X) \in Nat /\ Len(D) \in Nat
      BY <3>1
    <3> DEFINE l == Len(X)
               m == Len(D)
    <3>7. l + m = 0 /\ l \in Nat /\ m \in Nat
      BY <3>3, <3>4, <3>6
    <3> HIDE DEF l, m
    <3>8. m = 0
      BY <3>7
    <3>5. Len(D) = 0
      BY <3>8 DEF m
    <3> QED
      BY <3>5, EmptySeq DEF none
  <2> QED
    BY <2>1
<1> HIDE DEF none
<1>3. Delivered(none, s, s) /\ Delivered(s, none, none)
  BY <1>1 DEF Delivered
<1>4. ASSUME NEW seen, Delivered(none, seen, s) PROVE seen = s
  BY <1>1, <1>2, <1>4 DEF Delivered
<1> QED
  BY <1>3, <1>4 DEF none

\* A message that is queued and shown.
LEMMA DeliveredMore ==
  ASSUME NEW waits \in Seq(Items), NEW seen \in Seq(Items), NEW rest \in Seq(Items),
         NEW more \in Seq(Items), Delivered(waits, seen, rest), ToSet(waits) \cap ToSet(more) = {}
  PROVE  Delivered(waits, seen \o more, rest \o more)
<1>1. PICK X, D \in Seq(Items) : waits = X \o D /\ seen = D \o rest /\ ToSet(X) \cap ToSet(seen) = {}
  BY DEF Delivered
<1>2. Associates(D, rest, more)
  BY <1>1, JoinAssociates, Zenon
<1>3. seen \o more = D \o (rest \o more)
  BY <1>1, <1>2 DEF Associates
<1>4. ToSet(X) \subseteq ToSet(waits)
  BY <1>1, SetOfJoin
<1>5. ToSet(seen \o more) = ToSet(seen) \cup ToSet(more)
  BY SetOfJoin
<1>6. ToSet(X) \cap ToSet(seen \o more) = {}
  BY <1>1, <1>4, <1>5
<1> QED
  BY <1>1, <1>3, <1>6 DEF Delivered

\* The first message of the queue is delivered.
LEMMA DeliveredNext ==
  ASSUME NEW waits \in Seq(Items), NEW seen \in Seq(Items), NEW x \in Items,
         NEW rest \in Seq(Items), Delivered(waits, seen, <<x>> \o rest)
  PROVE  Delivered(waits \o <<x>>, seen, rest)
<1> DEFINE one == <<x>>
<1>1. one \in Seq(Items) /\ Delivered(waits, seen, one \o rest)
  OBVIOUS
<1> HIDE DEF one
<1>2. PICK X, D \in Seq(Items) : /\ waits = X \o D /\ seen = D \o (one \o rest)
                                /\ ToSet(X) \cap ToSet(seen) = {}
  BY <1>1 DEF Delivered
<1>3. Associates(D, one, rest) /\ Associates(X, D, one)
  BY <1>1, <1>2, JoinAssociates, Zenon
<1>4. seen = (D \o one) \o rest /\ waits \o one = X \o (D \o one)
  BY <1>2, <1>3 DEF Associates
<1>5. D \o one \in Seq(Items)
  BY <1>1, <1>2, JoinIs
<1>6. Delivered(waits \o one, seen, rest)
  BY <1>2, <1>4, <1>5 DEF Delivered
<1> QED
  BY <1>6 DEF one

\* A message that was not queued is said.
LEMMA DeliveredNew ==
  ASSUME NEW x \in Items, NEW s \in Seq(Items), x \notin ToSet(s)
  PROVE  Delivered(<<x>>, s, s)
<1> DEFINE one == <<x>>
           none == <<>>
<1>b. ToSet(one) = {x}
  BY SetOfOne
<1>a. one \in Seq(Items) /\ ToSet(one) = {x}
  BY <1>b
<1> HIDE DEF one
<1>1. one \in Seq(Items) /\ none \in Seq(Items) /\ one \o none = one /\ none \o s = s /\ ToSet(one) = {x}
  BY <1>a, JoinEmpty
<1> HIDE DEF one, none
<1>2. Delivered(one, s, s)
  BY <1>1 DEF Delivered
<1> QED
  BY <1>2 DEF one

\* The event of a message is handled.
LEMMA DeliveredRead ==
  ASSUME NEW x \in Items, NEW waits \in Seq(Items), NEW seen \in Seq(Items), NEW rest \in Seq(Items),
         Delivered(<<x>> \o waits, seen, rest)
  PROVE  Delivered(waits, RemoveFirst(seen, x), rest)
<1> DEFINE one == <<x>>
           none == <<>>
<1>d. one \in Seq(Items) /\ Delivered(one \o waits, seen, rest)
  OBVIOUS
<1>a. /\ one \in Seq(Items) /\ none \in Seq(Items) /\ Delivered(one \o waits, seen, rest) /\ ToSet(none) = {}
      /\ none \o waits = waits
  BY <1>d, JoinEmpty, SetOfOne
<1>b. \A s, t \in Seq(Items) : one \o s = one \o t => s = t
  <2>1. \A s \in Seq(Items) : Tail(one \o s) = s
    OBVIOUS
  <2> HIDE DEF one
  <2> QED
    BY <2>1
<1>c. \A t \in Seq(Items) : one \o t # <<>> /\ Head(one \o t) = x /\ Tail(one \o t) = t
  OBVIOUS
<1> HIDE DEF one
<1>1. PICK X, D \in Seq(Items) : /\ one \o waits = X \o D /\ seen = D \o rest
                                /\ ToSet(X) \cap ToSet(seen) = {}
  BY <1>a DEF Delivered
<1>2. CASE X = none
  <2>1. D = one \o waits
    <3>1. none \o D = D
      BY <1>1, JoinEmpty
    <3> QED
      BY <1>1, <1>2, <3>1
  <2>2. seen = one \o (waits \o rest) /\ waits \o rest \in Seq(Items)
    <3>1. Associates(one, waits, rest)
      BY <1>a, JoinAssociates, Zenon
    <3>2. waits \o rest \in Seq(Items)
      BY JoinIs
    <3> QED
      BY <1>1, <2>1, <3>1, <3>2 DEF Associates
  <2>3. seen # <<>> /\ Head(seen) = x /\ Tail(seen) = waits \o rest
    BY <1>c, <2>2
  <2>4. RemoveFirst(seen, x) = waits \o rest
    BY <2>3, RemoveFirstIs
  <2> DEFINE kept == RemoveFirst(seen, x)
  <2>5. none \o waits = waits /\ kept = waits \o rest /\ ToSet(none) \cap ToSet(kept) = {}
    BY <1>a, <2>4
  <2> HIDE DEF kept, none
  <2>6. Delivered(waits, kept, rest)
    BY <1>a, <2>5 DEF Delivered
  <2> QED
    BY <2>6 DEF kept
<1>3. CASE X # none
  <2> DEFINE first == Head(X)
             more == Tail(X)
             begins == <<first>>
  <2>1. first \in Items /\ more \in Seq(Items) /\ X = begins \o more /\ begins \in Seq(Items)
    BY <1>3, HeadFirst
  <2>2. first \in ToSet(X) /\ ToSet(more) \subseteq ToSet(X)
    BY <1>3, InSet
  <2>3. \A t \in Seq(Items) : Head(begins \o t) = first /\ Tail(begins \o t) = t
    BY <2>1
  <2> HIDE DEF begins, more, first
  <2>4. one \o waits = begins \o (more \o D) /\ more \o D \in Seq(Items)
    <3>1. Associates(begins, more, D)
      BY <1>1, <2>1, JoinAssociates, Zenon
    <3>2. more \o D \in Seq(Items)
      BY <1>1, <2>1, JoinIs
    <3> QED
      BY <1>1, <2>1, <3>1, <3>2 DEF Associates
  <2>5. first = x /\ waits = more \o D
    <3> DEFINE others == more \o D
    <3>1. Head(one \o waits) = x /\ Tail(one \o waits) = waits
      BY <1>c
    <3>2. Head(begins \o others) = first /\ Tail(begins \o others) = others
      BY <2>3, <2>4
    <3>3. one \o waits = begins \o others
      BY <2>4
    <3> HIDE DEF others
    <3>4. first = x /\ waits = others
      BY <3>1, <3>2, <3>3
    <3> QED
      BY <3>4 DEF others
  <2>6. \A i \in 1..Len(seen) : seen[i] # x
    <3>1. x \notin ToSet(seen)
      BY <1>1, <2>2, <2>5
    <3> QED
      BY <3>1, InSet
  <2>7. RemoveFirst(seen, x) = seen
    BY <2>6, RemoveFirstIs
  <2>8. ToSet(more) \cap ToSet(seen) = {}
    BY <1>1, <2>2
  <2> QED
    BY <1>1, <2>1, <2>5, <2>7, <2>8 DEF Delivered
<1> QED
  BY <1>2, <1>3

LEMMA OnlyNone ==
  ASSUME NEW s \in Seq(Items), NEW S, ToSet(s) \cap S = {}
  PROVE  Only(s, S) = <<>>
<1> DEFINE q == Only(s, S)
<1>1. q \in Seq(Items) /\ ToSet(q) = {}
  BY OnlyType, SetOfOnly
<1> HIDE DEF q
<1>2. q # <<>> => Head(q) \in ToSet(q)
  BY <1>1, InSet
<1> QED
  BY <1>1, <1>2 DEF q

LEMMA UsersIs ==
  ASSUME TypeOK
  PROVE  /\ Pend(events) \in Seq(Items) /\ Users \in Seq(Items)
         /\ ToSet(Users) \subseteq ToSet(Pend(events))
         /\ events = <<>> => Users = <<>>
<1>1. Pend(events) \in Seq(Items)
  BY ListTypes
<1>2. Users \in Seq(Items) /\ ToSet(Users) \subseteq ToSet(Pend(events))
  <2> DEFINE waits == Pend(events)
  <2>1. waits \in Seq(Items)
    BY <1>1
  <2> HIDE DEF waits
  <2>2. Only(waits, UserItemsOf) \in Seq(Items) /\ ToSet(Only(waits, UserItemsOf)) \subseteq ToSet(waits)
    BY <2>1, OnlyType, SetOfOnly
  <2> QED
    BY <2>2 DEF waits, Users
<1>3. events = <<>> => Users = <<>>
  BY PendEmpty, OnlyEmpty DEF Users
<1> QED
  BY <1>1, <1>2, <1>3

LEMMA UsersSaid ==
  ASSUME TypeOK, NEW items, Emits(items)
  PROVE  items \in Seq(Items) /\ Users' = Users \o Only(items, UserItemsOf)
<1>1. PICK new : NewEvents(new, items) /\ events' = events \o new
  BY DEF Emits
<1>2. new \in Seq(Events) /\ items \in Seq(Items) /\ Pend(new) = items
  BY <1>1 DEF NewEvents
<1>3. Pend(events \o new) = Pend(events) \o Pend(new) /\ Pend(events) \in Seq(Items)
  BY <1>2, LogIs, PendJoin DEF Joins
<1> DEFINE waits == Pend(events)
<1>4. Pend(events') = waits \o items
  BY <1>1, <1>2, <1>3, Zenon
<1>5. Users' = Only(waits \o items, UserItemsOf) /\ Users = Only(waits, UserItemsOf)
  BY <1>4 DEF Users, UserItemsOf
<1>6. waits \in Seq(Items)
  BY <1>3
<1> HIDE DEF waits
<1>7. Only(waits \o items, UserItemsOf) = Only(waits, UserItemsOf) \o Only(items, UserItemsOf)
  BY <1>2, <1>6, OnlyJoin
<1> QED
  BY <1>2, <1>5, <1>7

LEMMA UsersHandled ==
  ASSUME TypeOK, HandleNext
  PROVE  /\ (Head(events).type # "message" \/ Head(events).item.kind # "user") => Users' = Users
         /\ (Head(events).type = "message" /\ Head(events).item.kind = "user") =>
              Users = <<Head(events).item>> \o Users' /\ Head(events).item \in Items
         /\ Users' \in Seq(Items)
<1> DEFINE item == Head(events).item
           rest == Pend(events')
           one == <<item>>
<1>1. /\ rest \in Seq(Items)
      /\ Head(events).type # "message" => rest = Pend(events)
      /\ Head(events).type = "message" => Pend(events) = one \o rest /\ item \in Items
  BY PendNext
<1>2. Users' = Only(rest, UserItemsOf) /\ Users = Only(Pend(events), UserItemsOf)
  BY DEF Users, UserItemsOf
<1>3. item \in Items => one \in Seq(Items) /\ (item \in UserItemsOf <=> item.kind = "user")
  BY DEF Items, ItemsOf, UserItemsOf
<1>4. Only(one, UserItemsOf) = IF item \in UserItemsOf THEN one ELSE <<>>
  BY OnlyOne
<1> HIDE DEF item, rest, one
<1>5. Only(rest, UserItemsOf) \in Seq(Items)
  BY <1>1, OnlyType
<1>6. CASE Head(events).type = "message"
  <2>1. Only(one \o rest, UserItemsOf) = Only(one, UserItemsOf) \o Only(rest, UserItemsOf)
    BY <1>1, <1>3, <1>6, OnlyJoin
  <2>2. <<>> \o Only(rest, UserItemsOf) = Only(rest, UserItemsOf)
    BY <1>5, JoinEmpty
  <2>3. Users = Only(one, UserItemsOf) \o Users'
    BY <1>1, <1>2, <1>6, <2>1
  <2>4. item.kind # "user" => Users = Users'
    BY <1>1, <1>2, <1>3, <1>4, <1>6, <2>2, <2>3
  <2>5. item.kind = "user" => Users = one \o Users'
    BY <1>1, <1>3, <1>4, <1>6, <2>3
  <2> QED
    BY <1>1, <1>2, <1>5, <1>6, <2>4, <2>5 DEF item, one
<1>7. CASE Head(events).type # "message"
  BY <1>1, <1>2, <1>5, <1>7 DEF item, one
<1> QED
  BY <1>6, <1>7 DEF item, one

LEMMA MirroredSame ==
  ASSUME Mirrored, Users' = Users, UNCHANGED <<queued, shown>>
  PROVE  Mirrored'
BY DEF Mirrored, Delivered

\* While no event waits, the two lists are the same.
LEMMA MirroredRest ==
  ASSUME TypeOK, TypeOK', Mirrored, events = <<>>, UNCHANGED events
  PROVE  /\ shown = queued
         /\ shown' = queued' => Mirrored'
<1>1. Users = <<>> /\ Users' = <<>>
  BY UsersIs, PendEmpty, OnlyEmpty DEF Users
<1>2. queued \in Seq(Items) /\ queued' \in Seq(Items)
  BY DEF TypeOK
<1>3. shown = queued
  BY <1>1, <1>2, DeliveredNone DEF Mirrored
<1>4. ASSUME shown' = queued' PROVE Mirrored'
  <2> DEFINE rest == queued'
  <2>1. rest \in Seq(Items) /\ Users' = <<>> /\ shown' = rest /\ queued' = rest
    BY <1>1, <1>2, <1>4
  <2> HIDE DEF rest
  <2>2. Delivered(<<>>, rest, rest)
    BY <2>1, DeliveredNone
  <2>3. Delivered(Users', shown', queued')
    BY <2>1, <2>2
  <2> QED
    BY <2>3 DEF Mirrored, Delivered
<1> QED
  BY <1>3, <1>4

\* Neither list has anything left.
LEMMA MirroredClear ==
  ASSUME TypeOK', shown' = <<>>, queued' = <<>>
  PROVE  Mirrored'
<1> DEFINE waits == Users'
<1>1. waits \in Seq(Items)
  <2>1. events' \in Seq(Events)
    BY DEF TypeOK, Events, EventTypes
  <2> DEFINE pending == Pend(events')
  <2>2. pending \in Seq(Items)
    BY <2>1, PendJoin
  <2>3. Users' = Only(pending, UserItemsOf)
    BY DEF Users, UserItemsOf
  <2> HIDE DEF pending
  <2> QED
    BY <2>2, <2>3, OnlyType
<1>2. Users' = waits
  OBVIOUS
<1> HIDE DEF waits
<1>3. Delivered(waits, <<>>, <<>>)
  BY <1>1, DeliveredNone
<1>4. Delivered(Users', shown', queued')
  BY <1>2, <1>3
<1> QED
  BY <1>4 DEF Mirrored, Delivered

\* A message of the user that is queued and shown is not one whose event waits.
LEMMA MirroredQueued ==
  ASSUME TypeOK, Past, Mirrored, NEW item \in Items, item.n = clock + 1, UNCHANGED events,
         queued' = Append(queued, item), shown' = Append(shown, item)
  PROVE  Mirrored'
<1> DEFINE one == <<item>>
<1>1. one \in Seq(Items)
  OBVIOUS
<1>2. ToSet(one) = {item}
  BY SetOfOne
<1>3. queued \in Seq(Items) /\ shown \in Seq(Items) /\ clock \in Nat
  BY DEF TypeOK
<1>4. queued' = queued \o one /\ shown' = shown \o one
  BY <1>3, OneMore
<1> HIDE DEF one
<1>5. item \notin ToSet(Users)
  <2>1. \A x \in ToSet(Users) : x.n <= clock
    BY UsersIs DEF Past, Waiting
  <2> QED
    BY <1>3, <2>1
<1>6. Users \in Seq(Items) /\ Users' = Users
  BY UsersIs DEF Users, UserItemsOf
<1>7. Delivered(Users, shown \o one, queued \o one)
  BY <1>1, <1>2, <1>3, <1>5, <1>6, DeliveredMore DEF Mirrored
<1>8. Delivered(Users', shown', queued')
  BY <1>4, <1>6, <1>7
<1> QED
  BY <1>8 DEF Mirrored, Delivered

\* What a run says that is not of the user.
LEMMA MirroredSays ==
  ASSUME TypeOK, Mirrored, NEW items, Emits(items), \A x \in ToSet(items) : x.kind # "user",
         UNCHANGED <<queued, shown>>
  PROVE  Mirrored'
<1>1. items \in Seq(Items) /\ Users' = Users \o Only(items, UserItemsOf)
  BY UsersSaid
<1>2. Only(items, UserItemsOf) = <<>>
  <2>1. ToSet(items) \cap UserItemsOf = {}
    BY DEF UserItemsOf, ItemsOf
  <2> QED
    BY <1>1, <2>1, OnlyNone
<1>3. Users' = Users
  BY <1>1, <1>2, UsersIs, JoinEmpty
<1> QED
  BY <1>3, MirroredSame

\* The first message of the queue is said.
LEMMA MirroredNext ==
  ASSUME TypeOK, Sorts, Mirrored, queued # <<>>, NEW items, Emits(items),
         Only(items, UserItemsOf) = <<Head(queued)>>, queued' = Tail(queued), shown' = shown
  PROVE  Mirrored'
<1> DEFINE item == Head(queued)
           rest == Tail(queued)
<1>1. item \in Items /\ rest \in Seq(Items) /\ queued = <<item>> \o rest
  BY HeadFirst DEF TypeOK
<1>2. Users' = Users \o <<item>>
  BY UsersSaid
<1>3. Users \in Seq(Items) /\ shown \in Seq(Items)
  BY UsersIs DEF TypeOK
<1>4. queued' = rest
  OBVIOUS
<1> HIDE DEF item, rest
<1>5. Delivered(Users, shown, <<item>> \o rest)
  BY <1>1 DEF Mirrored
<1>6. Delivered(Users \o <<item>>, shown, rest)
  BY <1>1, <1>3, <1>5, DeliveredNext
<1>7. Delivered(Users', shown', queued')
  BY <1>2, <1>4, <1>6
<1> QED
  BY <1>7 DEF Mirrored, Delivered

\* Of a reply and the message that is delivered after it, only this is of the user.
LEMMA OnlyUser ==
  ASSUME NEW x \in Items, NEW y \in Items, x.kind # "user", y.kind = "user"
  PROVE  Only(<<x, y>>, UserItemsOf) = <<y>> /\ Only(<<y>>, UserItemsOf) = <<y>>
<1> DEFINE one == <<x>>
           two == <<y>>
<1>6. one \in Seq(Items) /\ two \in Seq(Items)
  OBVIOUS
<1>7. <<x, y>> = one \o two
  BY PairIs
<1>1. one \in Seq(Items) /\ two \in Seq(Items) /\ <<x, y>> = one \o two /\ <<>> \o two = two
  BY <1>6, <1>7, JoinEmpty
<1>2. x \notin UserItemsOf /\ y \in UserItemsOf
  BY DEF UserItemsOf, Items, ItemsOf
<1>3. Only(one, UserItemsOf) = <<>>
  BY <1>2, OnlyOne
<1>4. Only(two, UserItemsOf) = two
  BY <1>2, OnlyOne
<1> HIDE DEF one, two
<1>5. Only(one \o two, UserItemsOf) = Only(one, UserItemsOf) \o Only(two, UserItemsOf)
  BY <1>1, OnlyJoin
<1> QED
  BY <1>1, <1>3, <1>4, <1>5 DEF two

LEMMA RunMirrored ==
  ASSUME TypeOK, Phases, Calm, Sorts, Mirrored, RunGoesOn \/ Continue
  PROVE  Mirrored'
<1> USE DEF agentVars, viewVars, RunVars, ReplyVars
<1>a. connected /\ queued \in Seq(Items)
  BY RunConnected DEF TypeOK, RunBegins
<1>b. \A kind \in Kinds : Item(kind) \in Items /\ Item(kind).kind = kind
  BY ItemIs DEF Item
<1>c. "ok" \in Kinds /\ AssistantKinds \subseteq Kinds /\ "user" \notin AssistantKinds
  BY DEF Kinds, AssistantKinds, FailureKinds
<1>d. queued # <<>> => Head(queued) \in Items /\ Head(queued).kind = "user"
  BY <1>a, InSet, HeadFirst DEF Sorts
<1>1. CASE ReplyAndGoOn
  <2>1. PICK result \in Items : result.kind = "result" /\ Emits(<<Item("ok"), result>>)
    BY <1>1, <1>a, RunEmits
  <2> DEFINE reply == Item("ok")
             items == <<reply, result>>
  <2>2. reply.kind = "ok" /\ Emits(items)
    BY <1>b, <1>c, <2>1
  <2> HIDE DEF reply
  <2>3. ToSet(items) = {reply, result}
    BY SetOfOne
  <2> HIDE DEF items
  <2>4. \A x \in ToSet(items) : x.kind # "user"
    BY <2>1, <2>2, <2>3
  <2>5. UNCHANGED <<queued, shown>>
    BY <1>1 DEF ReplyAndGoOn
  <2> QED
    BY <2>2, <2>4, <2>5, MirroredSays
<1>2. CASE ReplyAndDeliver
  <2> DEFINE reply == Item("ok")
             user == Head(queued)
             items == <<reply, user>>
  <2>1. Emits(items) /\ queued # <<>> /\ queued' = Tail(queued) /\ shown' = shown
    BY <1>2, <1>a, RunEmits DEF ReplyAndDeliver
  <2>2. reply \in Items /\ reply.kind # "user" /\ user \in Items /\ user.kind = "user"
    BY <1>b, <1>c, <1>d, <2>1
  <2> HIDE DEF reply
  <2>3. Only(items, UserItemsOf) = <<user>>
    BY <2>2, OnlyUser
  <2> HIDE DEF items
  <2> QED
    BY <2>1, <2>3, MirroredNext
<1>3. ASSUME NEW kind \in AssistantKinds, LastReply(kind) PROVE Mirrored'
  <2> DEFINE reply == Item(kind)
             items == <<reply>>
  <2>1. Emits(items) /\ UNCHANGED <<queued, shown>>
    BY <1>3, <1>a, RunEmits DEF LastReply
  <2>2. reply.kind # "user"
    BY <1>b, <1>c
  <2> HIDE DEF reply
  <2>3. ToSet(items) = {reply}
    BY SetOfOne
  <2> HIDE DEF items
  <2>4. \A x \in ToSet(items) : x.kind # "user"
    BY <2>2, <2>3
  <2> QED
    BY <2>1, <2>4, MirroredSays
<1>4. CASE Continue
  <2>1. CASE EndsWithAssistant(messages)
    <3> DEFINE user == Head(queued)
               items == <<user>>
    <3>1. Emits(items) /\ queued # <<>> /\ queued' = Tail(queued) /\ shown' = shown
      BY <1>4, <1>a, <2>1, RunEmits DEF Continue
    <3>2. user \in Items /\ user.kind = "user"
      BY <1>d, <3>1
    <3>3. Only(items, UserItemsOf) = <<user>>
      <4>1. user \in UserItemsOf
        BY <3>2 DEF UserItemsOf, Items, ItemsOf
      <4> HIDE DEF user
      <4> QED
        BY <4>1, OnlyOne
    <3> HIDE DEF items
    <3> QED
      BY <3>1, <3>3, MirroredNext
  <2>2. CASE ~EndsWithAssistant(messages)
    <3> DEFINE items == <<>>
    <3>1. Emits(items) /\ UNCHANGED <<queued, shown>>
      BY <1>4, <1>a, <2>2, RunEmits DEF Continue
    <3>2. ToSet(items) = {}
      BY SetOfOne
    <3> HIDE DEF items
    <3> QED
      BY <3>1, <3>2, MirroredSays
  <2> QED
    BY <2>1, <2>2
<1> QED
  BY <1>1, <1>2, <1>3, <1>4 DEF RunGoesOn

LEMMA CallerMirrored ==
  ASSUME TypeOK, TypeOK', Phases, Calm, Mirrored, ~disturbed, ~disturbed', NEW c \in Callers,
         BeginsPrompt(c) \/ PromptCheck(c) \/ StartsPrompt(c) \/ GivesUpPrompt(c)
  PROVE  Mirrored'
<1> USE DEF agentVars, viewVars
<1> USE PhaseTypes, WorkersAre
<1>1. CASE BeginsPrompt(c)
  <2>1. PICK more : /\ queued' = queued \o more /\ shown' = shown \o more /\ UNCHANGED events
                    /\ disturbed' = (disturbed \/ ~Quiet)
    BY <1>1 DEF BeginsPrompt, PromptBeginWith, Disturb
  <2>2. events = <<>>
    BY <2>1 DEF Quiet
  <2>3. shown = queued
    BY <2>1, <2>2, MirroredRest
  <2> QED
    BY <2>1, <2>2, <2>3, MirroredRest
<1>2. CASE PromptCheck(c)
  <2>1. UNCHANGED <<events, queued, shown>>
    BY <1>2 DEF PromptCheck
  <2> QED
    BY <2>1, MirroredSame DEF Users
<1>3. CASE StartsPrompt(c)
  <2>1. PICK user : /\ UserItem(user) /\ PromptStartWith(c, user)
                    /\ \A i \in 1..Len(queued) : queued[i] # user
    BY <1>3 DEF StartsPrompt
  <2>2. /\ pc[c] = "starting" /\ UNCHANGED <<queued, shown>>
    BY <2>1 DEF PromptStartWith
  <2>3. events = <<>> /\ admin = "none"
    BY <2>2 DEF Calm, Busy
  <2>4. user \in Items /\ user \in UserItemsOf
    BY <2>1 DEF UserItem, Items, ItemsOf, Kinds, UserItemsOf
  <2>5. connected
    BY <2>3 DEF Phases, Listens
  <2> DEFINE items == <<user>>
  <2>6. Emits(items)
    BY <2>1, <2>4, <2>5, RunEmits
  <2>7. Only(items, UserItemsOf) = items
    BY <2>4, OnlyOne
  <2>8. items \in Seq(Items)
    BY <2>4
  <2>9. queued \in Seq(Items) /\ user \notin ToSet(queued)
    <3>1. queued \in Seq(Items)
      BY DEF TypeOK
    <3> QED
      BY <2>1, <3>1, InSet
  <2>10. Delivered(items, queued, queued)
    BY <2>4, <2>9, DeliveredNew
  <2> HIDE DEF items
  <2>11. Users' = items
    <3>1. Users' = Users \o items /\ Users = <<>>
      BY <2>3, <2>6, <2>7, UsersSaid, UsersIs
    <3> QED
      BY <2>8, <3>1, JoinEmpty
  <2>12. shown = queued
    <3>1. Users = <<>>
      BY <2>3, UsersIs
    <3> QED
      BY <2>9, <3>1, DeliveredNone DEF Mirrored
  <2>13. Delivered(Users', shown', queued')
    BY <2>2, <2>10, <2>11, <2>12
  <2> QED
    BY <2>13 DEF Mirrored, Delivered
<1>4. CASE GivesUpPrompt(c)
  <2>1. events' = events /\ (UNCHANGED <<queued, shown>> \/ (queued' = <<>> /\ shown' = <<>>))
    BY <1>4 DEF GivesUpPrompt, PromptThrows
  <2> QED
    BY <2>1, MirroredSame, MirroredClear DEF Users
<1> QED
  BY <1>1, <1>2, <1>3, <1>4

LEMMA HandlerMirrored ==
  ASSUME TypeOK, Mirrored,
         \/ HandleStart \/ HandleUser \/ HandleResult \/ HandleAssistant \/ HandleEndRetry
         \/ HandleEnd \/ SleepEnds
  PROVE  Mirrored'
<1> USE DEF agentVars, viewVars
<1>1. CASE HandleUser
  <2> DEFINE item == Head(events).item
  <2>1. /\ HandleNext /\ Head(events).type = "message" /\ item.kind = "user"
        /\ shown' = RemoveFirst(shown, item) /\ queued' = queued
    BY <1>1 DEF HandleUser
  <2>2. Users = <<item>> \o Users' /\ item \in Items /\ Users' \in Seq(Items)
    BY <2>1, UsersHandled
  <2> DEFINE waits == Users'
             seen == shown'
  <2>3. shown \in Seq(Items) /\ queued \in Seq(Items)
    BY DEF TypeOK
  <2>4. Delivered(<<item>> \o waits, shown, queued) /\ waits \in Seq(Items) /\ item \in Items
        /\ seen = RemoveFirst(shown, item)
    BY <2>1, <2>2 DEF Mirrored
  <2> HIDE DEF waits, item, seen
  <2>5. Delivered(waits, seen, queued)
    BY <2>3, <2>4, DeliveredRead
  <2>6. Delivered(Users', shown', queued')
    BY <2>1, <2>5 DEF waits, seen
  <2> QED
    BY <2>6 DEF Mirrored, Delivered
<1>2. CASE HandleStart \/ HandleResult \/ HandleAssistant \/ HandleEndRetry \/ HandleEnd
  <2>1. /\ HandleNext /\ UNCHANGED <<queued, shown>>
        /\ Head(events).type # "message" \/ Head(events).item.kind # "user"
    <3>1. "user" \notin AssistantKinds
      BY DEF AssistantKinds, FailureKinds
    <3> QED
      BY <1>2, <3>1 DEF HandleStart, HandleResult, HandleAssistant, HandleEndRetry, HandleEnd, IsAssistant
  <2>2. Users' = Users
    BY <2>1, UsersHandled
  <2> QED
    BY <2>1, <2>2, MirroredSame
<1>3. CASE SleepEnds
  <2>1. UNCHANGED <<events, queued, shown>>
    BY <1>3 DEF SleepEnds
  <2> QED
    BY <2>1, MirroredSame DEF Users
<1> QED
  BY <1>1, <1>2, <1>3

LEMMA AdminMirrored ==
  ASSUME TypeOK, TypeOK', Calm, Home, Mirrored,
         \/ RecordBash \/ \E operation \in {"new", "switch", "compact"} : AdminBegin(operation)
         \/ NewSession \/ SwitchSession \/ ManualCompact
  PROVE  Mirrored'
<1> USE DEF agentVars, viewVars
<1>1. CASE RecordBash \/ ManualCompact \/ \E operation \in {"new", "switch", "compact"} : AdminBegin(operation)
  <2>1. UNCHANGED <<events, queued, shown>>
    BY <1>1 DEF RecordBash, ManualCompact, AdminBegin
  <2> QED
    BY <2>1, MirroredSame DEF Users
<1>2. CASE NewSession
  <2>1. shown' = <<>> /\ queued' = <<>>
    BY <1>2 DEF NewSession
  <2> QED
    BY <2>1, MirroredClear
<1>3. CASE SwitchSession
  <2>1. shown' = <<>> /\ queued' = queued /\ admin = "switch"
    BY <1>3 DEF SwitchSession
  <2>2. queued = <<>>
    BY <2>1 DEF Home
  <2> QED
    BY <2>1, <2>2, MirroredClear
<1> QED
  BY <1>1, <1>2, <1>3

LEMMA MirroredKept ==
  ASSUME TypeOK, TypeOK', Phases, Calm, Sorts, Home, Past, Mirrored, ~disturbed, ~disturbed', SessionStep
  PROVE  Mirrored'
<1> USE DEF agentVars, viewVars, RestVars, RunVars
<1>1. CASE Idles \/ Stops \/ AbortCompactions \/ EndRun \/ ContinueSwallowed
  <2>1. UNCHANGED <<queued, shown>>
    BY <1>1 DEF Idles, Stops, AbortCompactions, EndRun, ContinueSwallowed
  <2>2. Pend(events') = Pend(events)
    <3>1. CASE EndRun
      BY <3>1, LogEnded
    <3>2. CASE Idles \/ Stops \/ AbortCompactions \/ ContinueSwallowed
      BY <3>2 DEF Idles, Stops, AbortCompactions, ContinueSwallowed
    <3> QED
      BY <1>1, <3>1, <3>2
  <2>3. Users' = Users
    BY <2>2 DEF Users, UserItemsOf
  <2> QED
    BY <2>1, <2>3, MirroredSame
<1>2. CASE \E w \in Workers : Compacts(w)
  <2>1. PICK w \in Workers : Compacts(w)
    BY <1>2
  <2>2. UNCHANGED <<events, queued, shown>>
    BY <2>1 DEF Compacts, PrepareCompaction, StopCompaction, FinishCompactionWith
  <2> QED
    BY <2>2, MirroredSame DEF Users
<1>3. CASE QueueMessage(Item("user"))
  <2> DEFINE item == Item("user")
  <2>1. item \in Items /\ item.n = clock + 1
    BY ItemIs DEF Kinds, Item
  <2>2. queued' = Append(queued, item) /\ shown' = Append(shown, item) /\ UNCHANGED events
    BY <1>3 DEF QueueMessage
  <2> HIDE DEF item
  <2> QED
    BY <2>1, <2>2, MirroredQueued
<1>4. CASE Steers
  <2>1. PICK more : queued' = queued \o more /\ shown' = shown \o more
    BY <1>4 DEF Steers
  <2>2. events = <<>> /\ UNCHANGED events
    BY <1>4 DEF Steers
  <2>3. shown = queued
    BY <2>2, MirroredRest
  <2> QED
    BY <2>1, <2>2, <2>3, MirroredRest
<1>5. CASE Replaces
  BY <1>5 DEF Replaces
<1>6. CASE Clears
  BY <1>6, MirroredClear DEF Clears
<1>7. CASE \E c \in Callers : BeginsPrompt(c) \/ PromptCheck(c) \/ StartsPrompt(c) \/ GivesUpPrompt(c)
  BY <1>7, CallerMirrored
<1>8. CASE ReplyAndGoOn \/ ReplyAndDeliver \/ (\E kind \in AssistantKinds : LastReply(kind)) \/ Continue
  BY <1>8, RunMirrored DEF RunGoesOn
<1>9. CASE \/ HandleStart \/ HandleUser \/ HandleResult \/ HandleAssistant \/ HandleEndRetry \/ HandleEnd
           \/ SleepEnds
  BY <1>9, HandlerMirrored
<1>10. CASE \/ RecordBash \/ \E operation \in {"new", "switch", "compact"} : AdminBegin(operation)
            \/ NewSession \/ SwitchSession \/ ManualCompact
  BY <1>10, AdminMirrored
<1> QED
  BY <1>1, <1>2, <1>3, <1>4, <1>5, <1>6, <1>7, <1>8, <1>9, <1>10 DEF SessionStep, SessionAction

-----------------------------------------------------------------------------
(* What the session's copies and its log say, and the theorems *)

\* What holds as long as nothing disturbed the session: the agent's messages
\* are what the log gives back, neither recovery goes on for ever, and the
\* messages shown as queued are those the agent holds.
Agrees ==
  /\ Mirror /\ Within /\ FinalReply /\ LastFails
  /\ Retries /\ Rescues /\ Mirrored
  /\ \A s \in DOMAIN files : Fine(files[s])
SessionHistory == SessionInvariant /\ (~disturbed => Agrees)

LEMMA NothingSaid ==
  /\ FewEverywhere(<<>>) /\ RescuesApart(<<>>) /\ Open(<<>>) = {} /\ Fine(<<>>)
<1> DEFINE none == <<>>
<1>1. Len(none) = 0 /\ 1..0 = {}
  OBVIOUS
<1> HIDE DEF none
<1>2. FewEverywhere(none) /\ RescuesApart(none) /\ Open(none) = {}
  BY <1>1, Zenon DEF FewEverywhere, RescuesApart, Open
<1> QED
  BY <1>2 DEF Fine, none

LEMMA HistoryInit == Init => SessionHistory
<1> SUFFICES ASSUME Init PROVE SessionHistory
  OBVIOUS
<1>1. SessionInvariant
  BY InvariantInit
<1>2. TypeOK
  BY <1>1 DEF SessionInvariant
<1>3. /\ messages = <<>> /\ events = <<>> /\ entries = <<>> /\ queued = <<>> /\ shown = <<>>
      /\ ~streaming /\ ending = "none" /\ timers = 0 /\ handler = "free" /\ admin = "none"
      /\ \A c \in Callers : pc[c] = "idle"
      /\ \A s \in DOMAIN files : files[s] = <<>>
  BY DEF Init, entries
<1>4. Pend(events) = <<>> /\ Log = <<>>
  BY <1>2, <1>3, LogIs
<1>5. Mirror /\ Within
  <2>1. BuildContext(<<>>) = <<>>
    <3> DEFINE none == <<>>
    <3>1. DOMAIN none = {}
      OBVIOUS
    <3>2. Summaries(none) = {}
      BY <3>1 DEF Summaries
    <3> HIDE DEF none
    <3>3. LatestSummary(none) = 0
      BY <3>2 DEF LatestSummary
    <3>4. BuildContext(none) = none
      BY <3>3 DEF BuildContext
    <3> QED
      BY <3>4 DEF none
  <2> QED
    BY <1>3, <1>4, <2>1 DEF Mirror, Within
<1>6. FinalReply /\ LastFails
  <2>1. Len(<<>>) = 0 /\ 1..0 = {}
    OBVIOUS
  <2>2. LastFails
    BY <1>4, <2>1, Zenon DEF LastFails
  <2>3. FinalReply
    BY <1>3 DEF FinalReply, Over
  <2> QED
    BY <2>2, <2>3
<1>7. Retries
  BY <1>3, <1>4, NothingSaid DEF Retries, Awaited, Failing
<1>8. Rescues
  BY <1>3, <1>4, NothingSaid DEF Rescues, Rescued, Rescuing, InProgress
<1>9. Mirrored
  <2>1. Users = <<>> /\ <<>> \in Seq(Items)
    BY <1>2, <1>3, UsersIs
  <2> QED
    BY <1>3, <2>1, DeliveredNone DEF Mirrored
<1> QED
  BY <1>1, <1>3, <1>5, <1>6, <1>7, <1>8, <1>9, NothingSaid DEF SessionHistory, Agrees

LEMMA HistoryKept ==
  ASSUME SessionHistory, SessionStep
  PROVE  SessionHistory'
<1>1. SessionInvariant /\ SessionInvariant'
  BY InvariantKept DEF SessionHistory
<1>2. TypeOK /\ Phases /\ TypeOK' /\ Phases' /\ Time
  BY <1>1 DEF SessionInvariant, SessionStep
<1>3. ASSUME ~disturbed' PROVE Agrees'
  <2>1. ~disturbed /\ Settled /\ Agrees
    BY <1>1, <1>3, StaysDisturbed DEF SessionHistory, SessionInvariant
  <2>2. Calm /\ EventsInOrder /\ Sorts /\ Home /\ Past
    BY <2>1 DEF Settled
  <2>3. /\ Mirror /\ Within /\ FinalReply /\ LastFails /\ Retries /\ Rescues /\ Mirrored
        /\ \A s \in DOMAIN files : Fine(files[s])
    BY <2>1 DEF Agrees
  <2>4. Sources
    BY <1>2, <2>2, StepSources
  <2>5. Story
    <3>1. Story \/ Grown
      BY <1>2, <2>2, <2>3, StepStory
    <3> QED
      BY <1>3, <3>1 DEF Grown
  <2>6. Mirror' /\ Within'
    BY <1>2, <2>3, <2>5, StoryKeeps
  <2>7. FinalReply'
    BY <1>2, <1>3, <2>2, <2>3, FinalKept
  <2>8. LastFails' /\ Retries'
    BY <1>2, <1>3, <2>2, <2>3, RetriesKept
  <2>9. Rescues'
    BY <1>2, <1>3, <2>2, <2>3, RescuesKept
  <2>10. Mirrored'
    BY <1>2, <1>3, <2>1, <2>2, <2>3, MirroredKept
  <2>11. \A s \in DOMAIN files' : Fine(files'[s])
    BY <1>2, <2>3, <2>4, <2>8, <2>9, FilesKept
  <2> QED
    BY <2>6, <2>7, <2>8, <2>9, <2>10, <2>11 DEF Agrees
<1> QED
  BY <1>1, <1>3 DEF SessionHistory

LEMMA HistoryBounds == SessionHistory => RecoveryBounded
<1> SUFFICES ASSUME SessionHistory, ~disturbed, NEW s \in DOMAIN files
             PROVE  /\ \A i \in DOMAIN files[s] : i + MaxRetries + 1 <= Len(files[s]) =>
                         \E j \in i..i + MaxRetries + 1 : files[s][j].kind # "retryable"
                    /\ \A i, j \in DOMAIN files[s] :
                         (i < j /\ files[s][i].kind = "rescue" /\ files[s][j].kind = "rescue") =>
                           \E k \in i..j : IsAnswer(files[s][k])
  BY DEF RecoveryBounded, RetryBounded, OverflowOnce
<1> DEFINE es == files[s]
<1>1. Fine(es)
  BY DEF SessionHistory, Agrees
<1>2. es \in Seq(Items)
  BY DEF SessionHistory, SessionInvariant, TypeOK
<1> HIDE DEF es
<1>3. DOMAIN es = 1..Len(es)
  BY <1>2
<1>4. /\ \A i \in DOMAIN es : i + MaxRetries + 1 <= Len(es) =>
           \E j \in i..i + MaxRetries + 1 : es[j].kind # "retryable"
      /\ \A i, j \in DOMAIN es :
           (i < j /\ es[i].kind = "rescue" /\ es[j].kind = "rescue") =>
             \E k \in i..j : IsAnswer(es[k])
  BY <1>1, <1>3 DEF Fine, FewEverywhere, RescuesApart
<1> QED
  BY <1>4 DEF es

LEMMA HistoryAgrees == SessionHistory => CopiesAgree
<1> SUFFICES ASSUME SessionHistory, ~disturbed PROVE ContextMatchesFile /\ QueueMirror
  BY DEF CopiesAgree
<1>1. TypeOK /\ Mirror /\ Mirrored
  BY DEF SessionHistory, SessionInvariant, Agrees
<1>2. ContextMatchesFile
  BY <1>1, LogIs DEF ContextMatchesFile, Quiet, Mirror
<1>3. ASSUME events = <<>> PROVE shown = queued
  <2>1. Users = <<>> /\ queued \in Seq(Items)
    BY <1>1, <1>3, UsersIs DEF TypeOK
  <2> QED
    BY <1>1, <2>1, DeliveredNone DEF Mirrored
<1> QED
  BY <1>2, <1>3 DEF QueueMirror

LEMMA HistoryRemoves ==
  ASSUME SessionHistory, SessionStep, ~disturbed, messages # <<>>, messages' = Front(messages),
         current' = current
  PROVE  IsRemovable(Last(messages))
<1>1. TypeOK /\ Phases /\ Calm /\ EventsInOrder /\ Sorts /\ Past /\ FinalReply /\ Mirror
  BY DEF SessionHistory, SessionInvariant, Settled, Agrees
<1>2. Story \/ Grown
  BY <1>1, StepStory
<1>3. ASSUME NEW more \in Seq(Items), messages' = messages \o more PROVE FALSE
  <2>1. messages \in Seq(Items)
    BY <1>1, LogIs
  <2>2. Len(messages') = Len(messages) + Len(more) /\ Len(messages) \in Nat /\ Len(more) \in Nat
    BY <1>3, <2>1, JoinIs
  <2>3. Len(messages') = Len(messages) - 1
    BY <2>1, DropReplyIs
  <2> QED
    BY <2>2, <2>3
<1> QED
  BY <1>1, <1>2, <1>3, StoryDrops DEF Grown

\* The session keeps this invariant in every behaviour: what the agent's
\* messages, the log, the recoveries and the displayed queue say of each other
\* (_processAgentEvent, _handleRetryableError, _checkCompaction,
\* _runAutoCompaction, _queueSteer).
THEOREM SessionRemembers == Spec => []SessionHistory
<1>1. SessionHistory /\ [Next]_vars => SessionHistory'
  <2>1. ASSUME SessionHistory, [Next]_vars PROVE SessionStep
    BY <2>1, NextIsStep, StutterIsStep DEF SessionHistory, SessionInvariant
  <2> QED
    BY <2>1, HistoryKept
<1> QED
  BY HistoryInit, <1>1, PTL DEF Spec

\* All copies of the state of a session agree once everything has settled: the
\* agent's messages and the file, its queue and the displayed one, as long as
\* nothing disturbed the session (_processAgentEvent, buildSessionContext,
\* _queueSteer, clearQueue).
THEOREM SessionAgrees == Spec => []CopiesAgree
BY SessionRemembers, HistoryAgrees, PTL

\* Neither recovery goes on for ever, for any number of retries: no file has
\* more than MaxRetries retries in a row, nor two rescues without an answer
\* between them, as long as nothing disturbed the session
\* (_handleRetryableError, _overflowRecoveryAttempted).
THEOREM SessionRecovers == Spec => []RecoveryBounded
BY SessionRemembers, HistoryBounds, PTL

\* A retry or a recovery takes only a reply that failed or overflowed out of
\* the agent's messages, as long as nothing disturbed the session
\* (_handleRetryableError, _checkCompaction).
THEOREM SessionKeepsReplies == Spec => RemovesOnlyFailures
<1> DEFINE Removes == ~disturbed /\ messages # <<>> /\ messages' = Front(messages) /\ current' = current
           Failed == IsRemovable(Last(messages))
<1>1. SessionHistory /\ [Next]_vars => [Removes => Failed]_vars
  <2>1. ASSUME SessionHistory, Next PROVE Removes => Failed
    BY <2>1, NextIsStep, HistoryRemoves DEF SessionHistory
  <2> HIDE DEF Removes, Failed
  <2> QED
    BY <2>1
<1> HIDE DEF Removes, Failed
<1>2. Spec => [][Removes => Failed]_vars
  BY SessionRemembers, <1>1, PTL DEF Spec
<1> QED
  BY <1>2 DEF RemovesOnlyFailures, Removes, Failed
=============================================================================
