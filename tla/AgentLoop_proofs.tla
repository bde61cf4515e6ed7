--------------------------- MODULE AgentLoop_proofs ---------------------------
(***************************************************************************)
(* Proofs about AgentLoop for every value of its constants: the type       *)
(* invariant, the isolation of calls with side effects, the completeness   *)
(* of tool results; and the conversation: calls are answered, the          *)
(* consumer's view follows the loop's, calls are skipped for a steering    *)
(* message only.                                                           *)
(***************************************************************************)
EXTENDS AgentLoop, FiniteSetTheorems, SequenceTheorems, WellFoundedInduction, TLAPS

-----------------------------------------------------------------------------
(* Numbers and sequences *)

\* The least number principle, from the well-foundedness of < on Nat.
LEMMA LeastNat ==
  ASSUME NEW T \in SUBSET Nat, T # {}
  PROVE  \E m \in T : \A n \in T : m <= n
<1> DEFINE R == {ss \in Nat \X Nat : ss[1] < ss[2]}
<1>1. IsWellFoundedOn(R, Nat)
  BY NatLessThanWellFounded DEF OpToRel
<1> HIDE DEF R
<1>2. PICK m \in T : \A y \in T : ~ (<<y, m>> \in R)
  BY <1>1, WFMin
<1>3. \A x, y \in Nat : x < y => <<x, y>> \in R
  BY DEF R
<1>4. \A n \in T : ~ (n < m)
  BY <1>2, <1>3
<1>5. m \in Nat /\ \A n \in T : n \in Nat
  OBVIOUS
<1>6. \A n \in T : m <= n
  BY <1>4, <1>5
<1> QED
  BY <1>6

\* The length of a concatenation.
LEMMA ConcatType ==
  ASSUME NEW S, NEW x \in Seq(S), NEW y \in Seq(S), NEW z \in Seq(S)
  PROVE  /\ x \o y \o z \in Seq(S)
         /\ Len(x \o y \o z) = Len(x) + Len(y) + Len(z)
<1>1. x \o y \in Seq(S) /\ Len(x \o y) = Len(x) + Len(y)
  OBVIOUS
<1>2. x \o y \o z \in Seq(S) /\ Len(x \o y \o z) = Len(x \o y) + Len(z)
  BY <1>1
<1> QED
  BY <1>1, <1>2

\* Where the elements of a concatenation come from.
LEMMA ConcatAt ==
  ASSUME NEW S, NEW x \in Seq(S), NEW y \in Seq(S)
  PROVE  /\ x \o y \in Seq(S)
         /\ Len(x \o y) = Len(x) + Len(y)
         /\ \A i \in 1..Len(x) : (x \o y)[i] = x[i]
         /\ \A i \in 1..Len(y) : (x \o y)[Len(x) + i] = y[i]
<1>1. x \o y \in Seq(S) /\ Len(x \o y) = Len(x) + Len(y)
  OBVIOUS
<1>2. \A i \in 1..Len(x) : (x \o y)[i] = x[i]
  OBVIOUS
<1>3. \A i \in 1..Len(y) : (x \o y)[Len(x) + i] = y[i]
  OBVIOUS
<1> QED
  BY <1>1, <1>2, <1>3

\* Taking from a queue and leaving the rest keeps sequences of messages.
LEMMA TakenLeftType ==
  ASSUME NEW queue \in Seq(Messages), NEW mode
  PROVE  Taken(queue, mode) \in Seq(Messages) /\ Left(queue, mode) \in Seq(Messages)
BY DEF Taken, Left

\* A group ends at or after its first call, inside the reply, and a group
\* that starts with a read-only call has only read-only calls.
LEMMA GroupEndType ==
  ASSUME NEW cs \in Seq(CallKinds), NEW k \in 1..Len(cs)
  PROVE  /\ GroupEnd(cs, k) \in k..Len(cs)
         /\ cs[k] = "read" => \A i \in k..GroupEnd(cs, k) : cs[i] = "read"
         /\ cs[k] # "read" => GroupEnd(cs, k) = k
<1>1. CASE cs[k] = "write"
  BY <1>1 DEF GroupEnd
<1>2. CASE cs[k] # "write"
  <2> DEFINE W == {j \in k..Len(cs) : cs[j] = "write"}
             Good(e) == /\ \A i \in k..e : cs[i] = "read"
                        /\ e < Len(cs) => cs[e + 1] = "write"
  <2>1. \A i \in k..Len(cs) : cs[i] # "write" => cs[i] = "read"
    BY DEF CallKinds
  <2>2. \E e \in k..Len(cs) : Good(e)
    <3>1. CASE W = {}
      <4>1. Good(Len(cs))
        BY <3>1, <2>1
      <4> QED
        BY <4>1
    <3>2. CASE W # {}
      <4>1. W \in SUBSET Nat
        OBVIOUS
      <4>2. PICK m \in W : \A n \in W : m <= n
        BY <3>2, <4>1, LeastNat
      <4>3. m \in k..Len(cs) /\ cs[m] = "write" /\ m # k
        BY <4>2, <1>2
      <4>4. m - 1 \in k..Len(cs)
        BY <4>3
      <4>5. \A i \in k..m - 1 : cs[i] = "read"
        <5> SUFFICES ASSUME NEW i \in k..m - 1 PROVE cs[i] = "read"
          OBVIOUS
        <5>1. i \in k..Len(cs) /\ ~(m <= i)
          BY <4>3
        <5>2. i \notin W
          BY <5>1, <4>2
        <5> QED
          BY <5>1, <5>2, <2>1
      <4>6. Good(m - 1)
        BY <4>3, <4>5
      <4> QED
        BY <4>4, <4>6
    <3> QED
      BY <3>1, <3>2
  <2>3. GroupEnd(cs, k) = CHOOSE e \in k..Len(cs) : Good(e)
    BY <1>2 DEF GroupEnd
  <2> HIDE DEF Good
  <2>4. GroupEnd(cs, k) \in k..Len(cs) /\ Good(GroupEnd(cs, k))
    BY <2>2, <2>3
  <2>5. cs[k] = "read"
    BY <2>1, <1>2
  <2> QED
    BY <2>4, <2>5 DEF Good
<1> QED
  BY <1>1, <1>2

\* The calls a launch starts: inside the group, no more than Concurrency.
LEMMA LaunchEndType ==
  ASSUME NEW cs \in Seq(CallKinds), NEW k \in 1..Len(cs)
  PROVE  /\ LaunchEnd(cs, k) \in k..GroupEnd(cs, k)
         /\ LaunchEnd(cs, k) \in k..Len(cs)
         /\ Parallel(cs, k) => LaunchEnd(cs, k) - k + 1 <= Concurrency
         /\ ~Parallel(cs, k) => LaunchEnd(cs, k) = k
<1>1. GroupEnd(cs, k) \in k..Len(cs)
  BY GroupEndType
<1> DEFINE a == k + Concurrency - 1
           b == GroupEnd(cs, k)
<1>2. a \in Int /\ b \in Int /\ k <= a /\ k <= b /\ b <= Len(cs)
  BY <1>1, ALAssumption
<1>3. Min({a, b}) \in {a, b} /\ Min({a, b}) <= a /\ Min({a, b}) <= b
  <2>1. \E x \in {a, b} : \A y \in {a, b} : x <= y
    BY <1>2
  <2> HIDE DEF a, b
  <2>2. Min({a, b}) \in {a, b} /\ \A y \in {a, b} : Min({a, b}) <= y
    BY <2>1 DEF Min
  <2> QED
    BY <2>2
<1>4. CASE Parallel(cs, k)
  <2>1. LaunchEnd(cs, k) = Min({a, b})
    BY <1>4 DEF LaunchEnd
  <2> HIDE DEF b
  <2>2. Min({a, b}) \in k..b
    BY <1>2, <1>3
  <2>3. Min({a, b}) - k + 1 <= Concurrency
    BY <1>2, <1>3, <2>2, ALAssumption
  <2> QED
    BY <1>4, <2>1, <2>2, <2>3, <1>2 DEF b
<1>5. CASE ~Parallel(cs, k)
  BY <1>1, <1>5 DEF LaunchEnd
<1> QED
  BY <1>4, <1>5

-----------------------------------------------------------------------------
(* Messages and events *)

Events == [type : EventTypes, message : Messages, call : Nat]

\* The messages and events the actions build are well typed.
LEMMA MessageType ==
  ASSUME NEW kind \in MessageKinds, NEW n \in Nat, NEW call \in Nat
  PROVE  Message(kind, n, call) \in Messages
BY DEF Message, Messages

\* The events that the loop pushes.
LEMMA EventType ==
  ASSUME NEW type \in EventTypes, NEW call \in Nat
  PROVE  /\ Event(type, NoMessage, call) \in Events
         /\ Mark(type) \in Seq(Events)
         /\ ToolEvent(type, call) \in Seq(Events)
<1>1. NoMessage \in Messages
  BY MessageType DEF NoMessage, MessageKinds
<1>2. \A c \in Nat : Event(type, NoMessage, c) \in Events
  BY <1>1 DEF Event, Events
<1> QED
  BY <1>2 DEF Mark, ToolEvent

\* The events that end messages.
LEMMA MessageEndsType ==
  ASSUME NEW ms \in Seq(Messages)
  PROVE  MessageEnds(ms) \in Seq(Events)
<1>1. \A i \in 1..Len(ms) : Event("message_end", ms[i], 0) \in Events
  BY DEF Event, Events, EventTypes
<1>2. DOMAIN ms = 1..Len(ms) /\ Len(ms) \in Nat
  OBVIOUS
<1> QED
  BY <1>1, <1>2 DEF MessageEnds

\* The event that ends one message.
LEMMA MessageEndType ==
  ASSUME NEW m \in Messages
  PROVE  MessageEnds(<<m>>) \in Seq(Events) /\ Len(MessageEnds(<<m>>)) = 1
<1> DEFINE ms == <<m>>
<1>1. ms \in Seq(Messages) /\ DOMAIN ms = 1..1
  OBVIOUS
<1> HIDE DEF ms
<1>2. DOMAIN MessageEnds(ms) = 1..1
  BY <1>1 DEF MessageEnds
<1>3. MessageEnds(ms) \in Seq(Events)
  BY <1>1, MessageEndsType
<1>4. Len(MessageEnds(ms)) = 1
  BY <1>2, <1>3
<1> QED
  BY <1>3, <1>4 DEF ms

\* The results of a range of calls.
LEMMA ResultsType ==
  ASSUME NEW kind \in {"result", "skipped"}, NEW first \in Nat, NEW last \in Nat,
         first <= last + 1, called \in Seq(Seq(CallKinds))
  PROVE  /\ Results(kind, first, last) \in Seq(Messages)
         /\ Len(Results(kind, first, last)) = last - first + 1
         /\ \A i \in 1..(last - first + 1) :
              Results(kind, first, last)[i] = Message(kind, Len(called), first + i - 1)
<1>1. Len(called) \in Nat /\ kind \in MessageKinds /\ last - first + 1 \in Nat
  BY DEF MessageKinds
<1>2. \A i \in 1..(last - first + 1) :
        /\ Result(kind, first + i - 1) = Message(kind, Len(called), first + i - 1)
        /\ Result(kind, first + i - 1) \in Messages
  BY <1>1, MessageType DEF Result
<1>3. Results(kind, first, last) = [i \in 1..(last - first + 1) |-> Result(kind, first + i - 1)]
  BY DEF Results
<1> DEFINE n == last - first + 1
           F(i) == Result(kind, first + i - 1)
<1>4. n \in Nat /\ Results(kind, first, last) = [i \in 1..n |-> F(i)]
  BY <1>1, <1>3
<1>5. \A i \in 1..n : F(i) = Message(kind, Len(called), first + i - 1) /\ F(i) \in Messages
  BY <1>2
<1>6. n = last - first + 1
  OBVIOUS
<1> HIDE DEF n, F
<1>7. /\ Results(kind, first, last) \in Seq(Messages)
      /\ Len(Results(kind, first, last)) = n
      /\ \A i \in 1..n : Results(kind, first, last)[i] = F(i)
  BY <1>4, <1>5
<1>8. \A i \in 1..n : Results(kind, first, last)[i] = Message(kind, Len(called), first + i - 1)
  BY <1>5, <1>7
<1> QED
  BY <1>6, <1>7, <1>8

\* Appending the results of the calls after n extends ResultsFor(n).
LEMMA ResultsGrow ==
  ASSUME NEW kind \in {"result", "skipped"}, NEW n \in Nat, NEW last \in Nat, n <= last,
         called \in Seq(Seq(CallKinds)), results \in Seq(Messages), ResultsFor(n),
         results' = results \o Results(kind, n + 1, last), called' = called
  PROVE  /\ results' \in Seq(Messages)
         /\ Len(results') = last
         /\ \A i \in 1..last : /\ results'[i].call = i
                               /\ results'[i].n = Len(called)
                               /\ IsResult(results'[i])
<1> DEFINE more == Results(kind, n + 1, last)
<1>1. /\ more \in Seq(Messages)
      /\ Len(more) = last - n
      /\ \A i \in 1..(last - n) : more[i] = Message(kind, Len(called), n + i)
  <2> DEFINE first == n + 1
  <2>1. first \in Nat /\ first <= last + 1
    OBVIOUS
  <2>2. last - first + 1 = last - n /\ \A i \in 1..(last - n) : first + i - 1 = n + i
    OBVIOUS
  <2> HIDE DEF first
  <2>3. /\ Results(kind, first, last) \in Seq(Messages)
        /\ Len(Results(kind, first, last)) = last - first + 1
        /\ \A i \in 1..(last - first + 1) :
             Results(kind, first, last)[i] = Message(kind, Len(called), first + i - 1)
    BY <2>1, ResultsType
  <2> QED
    BY <2>2, <2>3 DEF first
<1>2. results' = results \o more /\ Len(results) = n
  BY DEF ResultsFor
<1> HIDE DEF more
<1>3. /\ results' \in Seq(Messages)
      /\ Len(results') = n + Len(more)
      /\ \A i \in 1..n : results'[i] = results[i]
      /\ \A i \in 1..Len(more) : results'[n + i] = more[i]
  <2> DEFINE rs == results
  <2>1. rs \in Seq(Messages) /\ more \in Seq(Messages)
    BY <1>1
  <2>2. results' = rs \o more /\ Len(rs) = n
    BY <1>2
  <2> HIDE DEF rs
  <2>3. /\ rs \o more \in Seq(Messages)
        /\ Len(rs \o more) = Len(rs) + Len(more)
        /\ \A i \in 1..Len(rs) : (rs \o more)[i] = rs[i]
        /\ \A i \in 1..Len(more) : (rs \o more)[Len(rs) + i] = more[i]
    BY <2>1, ConcatAt
  <2> QED
    BY <2>2, <2>3 DEF rs
<1>4. Len(results') = last
  BY <1>1, <1>3
<1>5. ASSUME NEW i \in 1..last
      PROVE  /\ results'[i].call = i
             /\ results'[i].n = Len(called)
             /\ IsResult(results'[i])
  <2>1. CASE i <= n
    <3>1. results'[i] = results[i] /\ i \in 1..n
      BY <1>3, <2>1
    <3> QED
      BY <3>1 DEF ResultsFor
  <2>2. CASE n < i
    <3>1. i - n \in 1..(last - n) /\ n + (i - n) = i
      BY <2>2
    <3>2. results'[i] = Message(kind, Len(called), i)
      <4>1. results'[n + (i - n)] = more[i - n]
        BY <1>1, <1>3, <3>1
      <4>2. more[i - n] = Message(kind, Len(called), n + (i - n))
        BY <1>1, <3>1
      <4> QED
        BY <3>1, <4>1, <4>2
    <3>3. results'[i] = [kind |-> kind, n |-> Len(called), call |-> i]
      BY <3>2 DEF Message
    <3> DEFINE r == results'[i]
    <3>4. r = [kind |-> kind, n |-> Len(called), call |-> i]
      BY <3>3
    <3> HIDE DEF r
    <3>5. r.call = i /\ r.n = Len(called) /\ r.kind = kind
      BY <3>4
    <3>6. IsResult(r)
      BY <3>5 DEF IsResult
    <3> QED
      BY <3>5, <3>6 DEF r
  <2>3. i <= n \/ n < i
    OBVIOUS
  <2> QED
    BY <2>1, <2>2, <2>3
<1> QED
  BY <1>3, <1>4, <1>5

\* The events of the skipped calls.
LEMMA SkipStreamType ==
  ASSUME NEW first \in Nat, NEW n \in Nat, called \in Seq(Seq(CallKinds))
  PROVE  [i \in 1..(3 * n) |->
            SkipEvents(first + 1 + ((i - 1) \div 3))[1 + ((i - 1) % 3)]] \in Seq(Events)
<1>1. ASSUME NEW c \in Nat
      PROVE  SkipEvents(c) \in Seq(Events) /\ Len(SkipEvents(c)) = 3
  <2>1. /\ ToolEvent("tool_execution_start", c) \in Seq(Events)
        /\ ToolEvent("tool_execution_end", c) \in Seq(Events)
    BY EventType DEF EventTypes
  <2>2. Result("skipped", c) \in Messages
    BY MessageType DEF Result, MessageKinds
  <2>3. /\ MessageEnds(<<Result("skipped", c)>>) \in Seq(Events)
        /\ Len(MessageEnds(<<Result("skipped", c)>>)) = 1
    BY <2>2, MessageEndType
  <2>5. /\ Len(ToolEvent("tool_execution_start", c)) = 1
        /\ Len(ToolEvent("tool_execution_end", c)) = 1
    BY DEF ToolEvent
  <2> QED
    <3> DEFINE x == ToolEvent("tool_execution_start", c)
               y == ToolEvent("tool_execution_end", c)
               z == MessageEnds(<<Result("skipped", c)>>)
    <3>1. /\ x \in Seq(Events) /\ y \in Seq(Events) /\ z \in Seq(Events)
          /\ Len(x) = 1 /\ Len(y) = 1 /\ Len(z) = 1
      BY <2>1, <2>3, <2>5
    <3>2. SkipEvents(c) = x \o y \o z
      BY DEF SkipEvents
    <3> HIDE DEF x, y, z
    <3>3. /\ x \o y \o z \in Seq(Events)
          /\ Len(x \o y \o z) = Len(x) + Len(y) + Len(z)
      <4>1. x \in Seq(Events) /\ y \in Seq(Events) /\ z \in Seq(Events)
        BY <3>1
      <4> QED
        BY <4>1, ConcatType
    <3>4. Len(x) = 1 /\ Len(y) = 1 /\ Len(z) = 1
      BY <3>1
    <3> QED
      BY <3>2, <3>3, <3>4
<1> DEFINE C(i) == first + 1 + ((i - 1) \div 3)
           P(i) == 1 + ((i - 1) % 3)
<1>2. \A i \in 1..(3 * n) : C(i) \in Nat /\ P(i) \in 1..3
  OBVIOUS
<1>3. 3 * n \in Nat
  OBVIOUS
<1> HIDE DEF C, P
<1>4. \A i \in 1..(3 * n) : SkipEvents(C(i))[P(i)] \in Events
  BY <1>1, <1>2
<1>5. [i \in 1..(3 * n) |-> SkipEvents(C(i))[P(i)]] \in Seq(Events)
  <2> DEFINE N == 3 * n
  <2> HIDE DEF N
  <2>1. N \in Nat /\ \A i \in 1..N : SkipEvents(C(i))[P(i)] \in Events
    BY <1>3, <1>4 DEF N
  <2>2. [i \in 1..N |-> SkipEvents(C(i))[P(i)]] \in Seq(Events)
    BY <2>1
  <2> QED
    BY <2>2 DEF N
<1> QED
  BY <1>5 DEF C, P

\* Launching at the first call not processed yet: the calls that start
\* running belong to its group and no more run than Concurrency allows.
LEMMA LaunchStep ==
  ASSUME TypeOK, ResultsFor(processedCount), processedCount < Len(calls),
         Launch(processedCount + 1),
         UNCHANGED <<calls, processedCount, results, called>>
  PROVE  /\ pc' = "tools"
         /\ launched' \in processedCount'..Len(calls')
         /\ running' \subseteq (processedCount' + 1)..launched'
         /\ stream' \in Seq(Events)
         /\ GroupRuns'
         /\ ResultsComplete'
<1> DEFINE k == processedCount + 1
           e == LaunchEnd(calls, k)
           g == GroupEnd(calls, k)
<1>1. calls \in Seq(CallKinds) /\ k \in 1..Len(calls) /\ processedCount \in Nat
  BY DEF TypeOK
<1>2. /\ g \in k..Len(calls)
      /\ e \in k..g
      /\ Parallel(calls, k) => e - k + 1 <= Concurrency
      /\ ~Parallel(calls, k) => e = k
  BY <1>1, GroupEndType, LaunchEndType
<1>3. pc' = "tools" /\ running' = k..e /\ launched' = e
  BY DEF Launch
<1>4. stream' \in Seq(Events)
  <2>1. \A i \in 1..(e - k + 1) : Event("tool_execution_start", NoMessage, k + i - 1) \in Events
    BY <1>1, <1>2, EventType DEF EventTypes
  <2> HIDE DEF e, g
  <2>2. e - k + 1 \in Nat
    BY <1>1, <1>2
  <2> DEFINE n == e - k + 1
             F(i) == Event("tool_execution_start", NoMessage, k + i - 1)
  <2>3. stream' = stream \o [i \in 1..n |-> F(i)]
    BY DEF Launch, e
  <2>4. n \in Nat /\ \A i \in 1..n : F(i) \in Events
    BY <2>1, <2>2
  <2> HIDE DEF n, F
  <2>5. [i \in 1..n |-> F(i)] \in Seq(Events)
    BY <2>4
  <2>6. stream \in Seq(Events)
    BY DEF TypeOK, Events
  <2> QED
    BY <2>3, <2>5, <2>6
<1>5. Parallel(calls, k) => Cardinality(running') <= Concurrency
  <2>1. k \in Int /\ e \in Int /\ k <= e
    BY <1>1, <1>2
  <2> HIDE DEF k, e
  <2>2. Cardinality(k..e) = IF k > e THEN 0 ELSE e - k + 1
    BY <2>1, FS_Interval
  <2> QED
    BY <1>2, <1>3, <2>1, <2>2
<1>6. calls' = calls /\ processedCount' = processedCount /\ results' = results /\ called' = called
  OBVIOUS
<1> HIDE DEF e, g
<1>7. running' # {}
  BY <1>1, <1>2, <1>3
<1>8. Parallel(calls, k)' = Parallel(calls, k) /\ GroupEnd(calls, k)' = g
  BY <1>6 DEF Parallel, GroupEnd, g
<1>9. ResultsFor(processedCount)'
  BY <1>6 DEF ResultsFor
<1>10. GroupRuns'
  BY <1>1, <1>2, <1>3, <1>5, <1>6, <1>7, <1>8, <1>9 DEF GroupRuns, ToolPhases, g
<1>11. ResultsComplete'
  BY <1>3 DEF ResultsComplete
<1> QED
  BY <1>1, <1>2, <1>3, <1>4, <1>6, <1>10, <1>11

-----------------------------------------------------------------------------
(* The inductive invariant *)

\* What the invariant says of the agent, the queues and the conversation.
AgentTypeOK ==
  /\ messages \in Seq(Messages)
  /\ isStreaming \in BOOLEAN
  /\ pendingToolCalls \in SUBSET Nat
  /\ steeringQueue \in Seq(Messages)
  /\ followUpQueue \in Seq(Messages)
  /\ aborted \in BOOLEAN
  /\ pc \in Phases
  /\ context \in Seq(Messages)
  /\ pending \in Seq(Messages)
  /\ hasMoreToolCalls \in BOOLEAN
  /\ firstTurn \in BOOLEAN
  /\ stream \in Seq(Events)
  /\ streamDone \in BOOLEAN
  /\ via \in Seq({"prompt", "steer", "followUp"})

\* What it says of the tool calls of a turn.
ToolInv ==
  /\ calls \in Seq(CallKinds)
  /\ processedCount \in 0..Len(calls)
  /\ launched \in processedCount..Len(calls)
  /\ running \subseteq (processedCount + 1)..launched
  /\ results \in Seq(Messages)
  /\ called \in Seq(Seq(CallKinds))
  /\ GroupRuns
  /\ ResultsComplete

\* The invariant in two parts: what the agent holds, and its tool calls.
LEMMA Split == IInv <=> AgentTypeOK /\ ToolInv
BY DEF IInv, TypeOK, AgentTypeOK, ToolInv, Events

\* The same two parts, after a step.
LEMMA Join ==
  ASSUME AgentTypeOK', ToolInv'
  PROVE  IInv'
BY DEF IInv, TypeOK, AgentTypeOK, ToolInv, Events

\* The phases in which the invariant says something of the tool calls.
ToolPcs == ToolPhases \union {"replied", "toolsDone"}

\* A step that leaves the tool calls alone and stays in its phase, or moves
\* between phases that have no running calls.
LEMMA QuietStep ==
  ASSUME ToolInv, UNCHANGED <<toolVars, called>>,
         pc' = pc \/ (pc # "tools" /\ pc' \notin ToolPcs)
  PROVE  ToolInv'
<1>1. /\ calls' = calls /\ processedCount' = processedCount /\ launched' = launched
      /\ running' = running /\ results' = results /\ called' = called
  BY DEF toolVars
<1>2. \A n : ResultsFor(n)' <=> ResultsFor(n)
  BY <1>1 DEF ResultsFor
<1>3. /\ Parallel(calls, processedCount + 1)' <=> Parallel(calls, processedCount + 1)
      /\ GroupEnd(calls, processedCount + 1)' = GroupEnd(calls, processedCount + 1)
  BY <1>1 DEF Parallel, GroupEnd
<1>4. CASE pc' = pc
  BY <1>1, <1>2, <1>3, <1>4 DEF ToolInv, GroupRuns, ResultsComplete
<1>5. CASE pc # "tools" /\ pc' \notin ToolPcs
  BY <1>1, <1>5 DEF ToolInv, GroupRuns, ResultsComplete, ToolPcs, ToolPhases
<1> QED
  BY <1>4, <1>5

\* The invariant holds initially.
LEMMA InitInv == Init => IInv
<1> SUFFICES ASSUME Init PROVE IInv
  OBVIOUS
<1>1. AgentTypeOK
  <2>1. /\ messages \in Seq(Messages) /\ steeringQueue \in Seq(Messages)
        /\ followUpQueue \in Seq(Messages) /\ context \in Seq(Messages)
        /\ pending \in Seq(Messages) /\ stream \in Seq(Events)
        /\ via \in Seq({"prompt", "steer", "followUp"})
    BY DEF Init
  <2>2. /\ isStreaming \in BOOLEAN /\ aborted \in BOOLEAN /\ hasMoreToolCalls \in BOOLEAN
        /\ firstTurn \in BOOLEAN /\ streamDone \in BOOLEAN /\ pc \in Phases
        /\ pendingToolCalls \in SUBSET Nat
    BY DEF Init, Phases
  <2> QED
    BY <2>1, <2>2 DEF AgentTypeOK
<1>2. ToolInv
  BY DEF Init, ToolInv, GroupRuns, ResultsComplete, ToolPhases
<1> QED
  BY <1>1, <1>2, Split

\* The next message of the user is a message.
LEMMA NextUserType ==
  ASSUME via \in Seq({"prompt", "steer", "followUp"})
  PROVE  NextUser \in Messages
<1>1. Len(via) + 1 \in Nat
  OBVIOUS
<1> QED
  BY <1>1, MessageType DEF NextUser, MessageKinds

\* The queues of the agent.
LEMMA QueueSteps ==
  ASSUME IInv, Steer \/ FollowUp \/ ClearAllQueues \/ Abort
  PROVE  IInv'
<1>1. AgentTypeOK /\ ToolInv
  BY Split
<1>2. NextUser \in Messages
  BY <1>1, NextUserType DEF AgentTypeOK
<1>3. ToolInv'
  <2>1. UNCHANGED <<toolVars, called, pc>>
    BY DEF Steer, FollowUp, ClearAllQueues, Abort
  <2> QED
    BY <1>1, <2>1, QuietStep
<1>4. AgentTypeOK'
  <2>1. CASE Steer
    BY <1>1, <1>2, <2>1 DEF Steer, AgentTypeOK, agentVars, turnVars
  <2>2. CASE FollowUp
    BY <1>1, <1>2, <2>2 DEF FollowUp, AgentTypeOK, agentVars, turnVars
  <2>3. CASE ClearAllQueues
    <3>1. ToSet(steeringQueue) \subseteq Messages /\ ToSet(followUpQueue) \subseteq Messages
      BY <1>1 DEF AgentTypeOK, ToSet
    <3> QED
      BY <1>1, <2>3, <3>1 DEF ClearAllQueues, AgentTypeOK, agentVars, turnVars
  <2>4. CASE Abort
    BY <1>1, <2>4 DEF Abort, AgentTypeOK, agentVars, turnVars, queueVars
  <2> QED
    BY <2>1, <2>2, <2>3, <2>4
<1> QED
  BY <1>3, <1>4, Join

\* The start of a run.
LEMMA StartSteps ==
  ASSUME IInv, Prompt \/ DropFailedReply \/ ContinueWithSteering
                 \/ ContinueWithFollowUp \/ ContinueFromContext
  PROVE  IInv'
<1>1. AgentTypeOK /\ ToolInv
  BY Split
<1>2. NextUser \in Messages
  BY <1>1, NextUserType DEF AgentTypeOK
<1>3. ASSUME NEW prompts \in Seq(Messages), StartRun(prompts), pc = "idle",
             pending' \in Seq(Messages), steeringQueue' \in Seq(Messages),
             followUpQueue' \in Seq(Messages),
             via' \in Seq({"prompt", "steer", "followUp"})
      PROVE  IInv'
  <2>1. ToolInv'
    <3>1. UNCHANGED <<toolVars, called>> /\ pc # "tools" /\ pc' \notin ToolPcs
      BY <1>3 DEF StartRun, ToolPcs, ToolPhases
    <3> QED
      BY <1>1, <3>1, QuietStep
  <2>2. stream' \in Seq(Events)
    <3>1. /\ Mark("agent_start") \in Seq(Events) /\ Mark("turn_start") \in Seq(Events)
          /\ MessageEnds(prompts) \in Seq(Events)
      BY EventType, MessageEndsType DEF EventTypes
    <3> QED
      BY <1>3, <3>1 DEF StartRun
  <2>3. context' \in Seq(Messages)
    BY <1>1, <1>3 DEF StartRun, AgentTypeOK
  <2>4. /\ messages' = messages /\ pendingToolCalls' = pendingToolCalls
        /\ pc' = "turnHead"
        /\ isStreaming' = TRUE /\ aborted' = FALSE /\ streamDone' = FALSE
        /\ hasMoreToolCalls' = TRUE /\ firstTurn' = TRUE
    BY <1>3 DEF StartRun
  <2>5. AgentTypeOK'
    BY <1>1, <1>3, <2>2, <2>3, <2>4 DEF AgentTypeOK, Phases
  <2> QED
    BY <2>1, <2>5, Join
<1>4. /\ Taken(steeringQueue, SteeringMode) \in Seq(Messages)
      /\ Left(steeringQueue, SteeringMode) \in Seq(Messages)
      /\ Taken(followUpQueue, FollowUpMode) \in Seq(Messages)
      /\ Left(followUpQueue, FollowUpMode) \in Seq(Messages)
      /\ <<>> \in Seq(Messages)
  BY <1>1, TakenLeftType DEF AgentTypeOK
<1>5. CASE Prompt
  <2>1. /\ <<NextUser>> \in Seq(Messages) /\ pc = "idle" /\ StartRun(<<NextUser>>)
        /\ pending' \in Seq(Messages) /\ steeringQueue' \in Seq(Messages)
        /\ followUpQueue' \in Seq(Messages)
        /\ via' \in Seq({"prompt", "steer", "followUp"})
    BY <1>1, <1>2, <1>4, <1>5 DEF Prompt, DequeueSteering, AgentTypeOK
  <2> QED
    BY <1>3, <2>1
<1>6. CASE DropFailedReply
  <2>1. messages' \in Seq(Messages)
    <3>1. messages \in Seq(Messages) /\ messages # <<>> /\ messages' = Front(messages)
      BY <1>1, <1>6 DEF DropFailedReply, AgentTypeOK
    <3> QED
      BY <3>1 DEF Front
  <2>2. ToolInv'
    BY <1>1, <1>6, QuietStep DEF DropFailedReply
  <2>3. AgentTypeOK'
    BY <1>1, <1>6, <2>1 DEF DropFailedReply, AgentTypeOK, queueVars, turnVars
  <2> QED
    BY <2>2, <2>3, Join
<1>7. CASE ContinueWithSteering
  <2>1. /\ StartRun(Taken(steeringQueue, SteeringMode)) /\ pc = "idle"
        /\ pending' \in Seq(Messages) /\ steeringQueue' \in Seq(Messages)
        /\ followUpQueue' \in Seq(Messages)
        /\ via' \in Seq({"prompt", "steer", "followUp"})
    BY <1>1, <1>4, <1>7 DEF ContinueWithSteering, AgentTypeOK
  <2> QED
    BY <1>3, <1>4, <2>1
<1>8. CASE ContinueWithFollowUp
  <2>1. /\ StartRun(Taken(followUpQueue, FollowUpMode)) /\ pc = "idle"
        /\ pending' \in Seq(Messages) /\ steeringQueue' \in Seq(Messages)
        /\ followUpQueue' \in Seq(Messages)
        /\ via' \in Seq({"prompt", "steer", "followUp"})
    BY <1>1, <1>4, <1>8 DEF ContinueWithFollowUp, AgentTypeOK
  <2> QED
    BY <1>3, <1>4, <2>1
<1>9. CASE ContinueFromContext
  <2>1. /\ StartRun(<<>>) /\ pc = "idle"
        /\ pending' \in Seq(Messages) /\ steeringQueue' \in Seq(Messages)
        /\ followUpQueue' \in Seq(Messages)
        /\ via' \in Seq({"prompt", "steer", "followUp"})
    BY <1>1, <1>4, <1>9 DEF ContinueFromContext, DequeueSteering, AgentTypeOK
  <2> QED
    BY <1>3, <1>4, <2>1
<1> QED
  BY <1>5, <1>6, <1>7, <1>8, <1>9

\* The turns of runLoop, up to the tool calls.
LEMMA TurnSteps ==
  ASSUME IInv, \/ BeginTurn \/ PollFollowUps \/ ContinueOuterLoop \/ EndRun
               \/ Request \/ RequestThrows \/ StopOnFailure \/ FinishTurnWithoutTools
  PROVE  IInv'
<1>1. AgentTypeOK /\ ToolInv
  BY Split
<1>2. ToolInv'
  <2>1. UNCHANGED <<toolVars, called>> /\ pc # "tools" /\ pc' \notin ToolPcs
    BY DEF BeginTurn, PollFollowUps, ContinueOuterLoop, EndRun, Request, RequestThrows,
           StopOnFailure, FinishTurnWithoutTools, ToolPcs, ToolPhases
  <2> QED
    BY <1>1, <2>1, QuietStep
<1>3. /\ Taken(steeringQueue, SteeringMode) \in Seq(Messages)
      /\ Left(steeringQueue, SteeringMode) \in Seq(Messages)
      /\ Taken(followUpQueue, FollowUpMode) \in Seq(Messages)
      /\ Left(followUpQueue, FollowUpMode) \in Seq(Messages)
      /\ <<>> \in Seq(Messages)
  BY <1>1, TakenLeftType DEF AgentTypeOK
<1>4. /\ Mark("turn_start") \in Seq(Events) /\ Mark("turn_end") \in Seq(Events)
      /\ Mark("agent_end") \in Seq(Events) /\ <<>> \in Seq(Events)
  BY EventType DEF EventTypes
<1>5. CASE BeginTurn
  <2>1. MessageEnds(pending) \in Seq(Events)
    BY <1>1, MessageEndsType DEF AgentTypeOK
  <2>2. context' \in Seq(Messages) /\ pending' \in Seq(Messages)
    BY <1>1, <1>3, <1>5 DEF BeginTurn, AgentTypeOK
  <2>3. stream' \in Seq(Events)
    BY <1>1, <1>4, <1>5, <2>1 DEF BeginTurn, AgentTypeOK
  <2>4. AgentTypeOK'
    BY <1>1, <1>5, <2>2, <2>3 DEF BeginTurn, AgentTypeOK, Phases, agentVars, queueVars
  <2> QED
    BY <1>2, <2>4, Join
<1>6. CASE PollFollowUps
  <2>1. AgentTypeOK'
    BY <1>1, <1>3, <1>6 DEF PollFollowUps, DequeueFollowUp, AgentTypeOK, Phases, agentVars
  <2> QED
    BY <1>2, <2>1, Join
<1>7. CASE ContinueOuterLoop
  <2>1. AgentTypeOK'
    BY <1>1, <1>7 DEF ContinueOuterLoop, AgentTypeOK, Phases, agentVars, queueVars
  <2> QED
    BY <1>2, <2>1, Join
<1>8. CASE EndRun
  <2>1. stream' \in Seq(Events)
    BY <1>1, <1>4, <1>8 DEF EndRun, AgentTypeOK
  <2>2. AgentTypeOK'
    BY <1>1, <1>8, <2>1 DEF EndRun, AgentTypeOK, Phases, agentVars, queueVars, turnVars
  <2> QED
    BY <1>2, <2>2, Join
<1>9. CASE Request \/ RequestThrows
  <2>1. AgentTypeOK'
    BY <1>1, <1>9 DEF Request, RequestThrows, AgentTypeOK, Phases, agentVars, queueVars,
                      turnVars
  <2> QED
    BY <1>2, <2>1, Join
<1>10. CASE StopOnFailure
  <2>1. stream' \in Seq(Events)
    BY <1>1, <1>4, <1>10 DEF StopOnFailure, AgentTypeOK
  <2>2. AgentTypeOK'
    BY <1>1, <1>10, <2>1 DEF StopOnFailure, AgentTypeOK, Phases, agentVars, queueVars,
                             turnVars
  <2> QED
    BY <1>2, <2>2, Join
<1>11. CASE FinishTurnWithoutTools
  <2>1. stream' \in Seq(Events)
    BY <1>1, <1>4, <1>11 DEF FinishTurnWithoutTools, AgentTypeOK
  <2>2. AgentTypeOK'
    BY <1>1, <1>3, <1>11, <2>1 DEF FinishTurnWithoutTools, DequeueSteering, AgentTypeOK, Phases,
                                   agentVars
  <2> QED
    BY <1>2, <2>2, Join
<1> QED
  BY <1>5, <1>6, <1>7, <1>8, <1>9, <1>10, <1>11

\* A reply starts a turn with no call processed.
LEMMA ReplyStep ==
  ASSUME IInv, NEW kind, NEW cs \in Seq(CallKinds), Reply(kind, cs)
  PROVE  IInv'
<1>1. AgentTypeOK /\ ToolInv
  BY Split
<1>2. /\ kind \in MessageKinds /\ pc = "response" /\ pc' \in {"failed", "replied"}
      /\ called' = Append(called, cs) /\ calls' = cs /\ processedCount' = 0
      /\ launched' = 0 /\ results' = <<>> /\ running' = running
  BY DEF Reply, MessageKinds
<1>3. Message(kind, Len(called) + 1, 0) \in Messages
  <2>1. Len(called) + 1 \in Nat
    BY <1>1 DEF ToolInv
  <2> QED
    BY <1>2, <2>1, MessageType
<1>4. running' = {}
  BY <1>1, <1>2 DEF ToolInv, GroupRuns
<1>5. ToolInv'
  <2>1. called' \in Seq(Seq(CallKinds)) /\ results' \in Seq(Messages)
    BY <1>1, <1>2 DEF ToolInv
  <2>2. processedCount' \in 0..Len(calls') /\ launched' \in processedCount'..Len(calls')
    BY <1>2
  <2>3. GroupRuns'
    BY <1>2, <1>4 DEF GroupRuns, ToolPhases
  <2>4. ResultsComplete'
    BY <1>2 DEF ResultsComplete
  <2> QED
    BY <1>2, <1>4, <2>1, <2>2, <2>3, <2>4 DEF ToolInv
<1>6. AgentTypeOK'
  <2> DEFINE m == Message(kind, Len(called) + 1, 0)
  <2>1. context' = Append(context, m) /\ stream' = stream \o MessageEnds(<<m>>)
    BY DEF Reply
  <2>2. context' \in Seq(Messages) /\ stream' \in Seq(Events)
    <3>1. m \in Messages
      BY <1>3
    <3> HIDE DEF m
    <3>2. MessageEnds(<<m>>) \in Seq(Events)
      BY <3>1, MessageEndType
    <3>3. context \in Seq(Messages) /\ stream \in Seq(Events)
      BY <1>1 DEF AgentTypeOK
    <3>4. context' \in Seq(Messages)
      BY <2>1, <3>1, <3>3
    <3>5. stream' \in Seq(Events)
      BY <2>1, <3>2, <3>3
    <3> QED
      BY <3>4, <3>5
  <2>3. UNCHANGED <<agentVars, queueVars, aborted, pending, hasMoreToolCalls, firstTurn,
                    streamDone, via>>
    BY DEF Reply
  <2> QED
    BY <1>1, <1>2, <2>2, <2>3 DEF AgentTypeOK, Phases, agentVars, queueVars
<1> QED
  BY <1>5, <1>6, Join

\* A steering message was found: the calls left are skipped.
LEMMA SkipStep ==
  ASSUME AgentTypeOK, ToolInv, pc \in {"pollTool", "pollGroup"}, SkipRemaining,
         UNCHANGED <<calls, processedCount, called>>
  PROVE  ToolInv' /\ stream' \in Seq(Events) /\ pc' \in Phases
<1>1. /\ calls' = calls /\ processedCount' = processedCount /\ called' = called
      /\ pc' = "toolsDone" /\ launched' = launched /\ running' = running
  BY DEF SkipRemaining
<1>2. /\ processedCount \in Nat /\ Len(calls) \in Nat /\ processedCount <= Len(calls)
      /\ results \in Seq(Messages) /\ called \in Seq(Seq(CallKinds))
      /\ ResultsFor(processedCount) /\ running = {}
  BY DEF ToolInv, GroupRuns, ToolPhases
<1>3. /\ results' \in Seq(Messages)
      /\ Len(results') = Len(calls)
      /\ \A i \in 1..Len(calls) : /\ results'[i].call = i
                                 /\ results'[i].n = Len(called)
                                 /\ IsResult(results'[i])
  <2>1. results' = results \o Results("skipped", processedCount + 1, Len(calls))
    BY DEF SkipRemaining
  <2> QED
    BY <1>1, <1>2, <2>1, ResultsGrow
<1>4. ResultsComplete'
  BY <1>1, <1>3 DEF ResultsComplete, ResultsFor, IsResult
<1>5. GroupRuns'
  BY <1>1, <1>2 DEF GroupRuns, ToolPhases
<1>6. ToolInv'
  BY <1>1, <1>3, <1>4, <1>5 DEF ToolInv
<1>7. stream' \in Seq(Events)
  <2> DEFINE n == Len(calls) - processedCount
             skipped == [i \in 1..(3 * n) |->
                           SkipEvents(processedCount + 1 + ((i - 1) \div 3))[1 + ((i - 1) % 3)]]
  <2>1. stream' = stream \o skipped
    BY DEF SkipRemaining
  <2>2. n \in Nat
    BY <1>2
  <2> HIDE DEF n
  <2>3. skipped \in Seq(Events)
    BY <1>2, <2>2, SkipStreamType
  <2> HIDE DEF skipped
  <2> QED
    BY <2>1, <2>3 DEF AgentTypeOK
<1> QED
  BY <1>1, <1>6, <1>7 DEF Phases

\* LaunchStep in terms of the two halves of the invariant.
LEMMA LaunchInv ==
  ASSUME AgentTypeOK, ToolInv, ResultsFor(processedCount), processedCount < Len(calls),
         Launch(processedCount + 1), UNCHANGED <<calls, processedCount, results, called>>
  PROVE  ToolInv' /\ stream' \in Seq(Events) /\ pc' \in Phases
<1>1. TypeOK
  BY DEF AgentTypeOK, ToolInv, TypeOK, Events
<1>2. /\ pc' = "tools"
      /\ launched' \in processedCount'..Len(calls')
      /\ running' \subseteq (processedCount' + 1)..launched'
      /\ stream' \in Seq(Events)
      /\ GroupRuns'
      /\ ResultsComplete'
  BY <1>1, LaunchStep
<1> QED
  BY <1>2 DEF ToolInv, Phases

\* The phases around the execution of the tools.
LEMMA ToolSteps ==
  ASSUME IInv, StartTools \/ PollAfterTool \/ PollAfterGroup \/ FinishTurnWithTools
  PROVE  IInv'
<1>1. AgentTypeOK /\ ToolInv
  BY Split
<1>2. /\ calls \in Seq(CallKinds) /\ Len(calls) \in Nat /\ processedCount \in 0..Len(calls)
  BY <1>1 DEF ToolInv
<1>3. /\ Taken(steeringQueue, SteeringMode) \in Seq(Messages)
      /\ Left(steeringQueue, SteeringMode) \in Seq(Messages)
  BY <1>1, TakenLeftType DEF AgentTypeOK
<1>4. CASE StartTools
  <2>1. /\ Launch(processedCount + 1) /\ processedCount < Len(calls)
        /\ UNCHANGED <<calls, processedCount, results, called>>
    <3>1. processedCount = 0 /\ calls # <<>> /\ Launch(1)
      BY <1>1, <1>4 DEF StartTools, ToolInv, GroupRuns
    <3> QED
      BY <1>2, <1>4, <3>1 DEF StartTools
  <2>2. ResultsFor(processedCount)
    <3>1. processedCount = 0 /\ results = <<>>
      BY <1>1, <1>4 DEF StartTools, ToolInv, GroupRuns
    <3> QED
      BY <3>1 DEF ResultsFor
  <2>3. ToolInv' /\ stream' \in Seq(Events) /\ pc' \in Phases
    BY <1>1, <2>1, <2>2, LaunchInv
  <2>4. AgentTypeOK'
    BY <1>1, <1>4, <2>3 DEF StartTools, AgentTypeOK, agentVars, queueVars
  <2> QED
    BY <2>3, <2>4, Join
<1>5. ASSUME pc \in {"pollTool", "pollGroup"}, DequeueSteering,
             ToolInv', stream' \in Seq(Events), pc' \in Phases,
             UNCHANGED <<agentVars, followUpQueue, aborted, context, hasMoreToolCalls, firstTurn,
                         streamDone, via>>
      PROVE  IInv'
  <2>1. AgentTypeOK'
    BY <1>1, <1>3, <1>5 DEF DequeueSteering, AgentTypeOK, agentVars
  <2> QED
    BY <1>5, <2>1, Join
<1>6. CASE PollAfterTool
  <2>1. /\ pc = "pollTool" /\ DequeueSteering
        /\ UNCHANGED <<calls, processedCount, called>>
        /\ UNCHANGED <<agentVars, followUpQueue, aborted, context, hasMoreToolCalls, firstTurn,
                       streamDone, via>>
    BY <1>6 DEF PollAfterTool
  <2>2. ResultsFor(processedCount) /\ processedCount \in 1..Len(calls) /\ running = {}
    BY <1>1, <1>2, <2>1 DEF ToolInv, GroupRuns, ToolPhases
  <2>3. ToolInv' /\ stream' \in Seq(Events) /\ pc' \in Phases
    <3>1. CASE SkipRemaining
      BY <1>1, <2>1, <3>1, SkipStep
    <3>2. CASE GoOn(processedCount + 1) /\ processedCount < GroupEnd(calls, processedCount)
      <4>1. processedCount < Len(calls)
        <5>1. GroupEnd(calls, processedCount) \in processedCount..Len(calls)
          BY <1>2, <2>2, GroupEndType
        <5> QED
          BY <1>2, <3>2, <5>1
      <4>2. Launch(processedCount + 1) /\ UNCHANGED <<calls, processedCount, results, called>>
        BY <2>1, <3>2 DEF GoOn
      <4> QED
        BY <1>1, <2>2, <4>1, <4>2, LaunchInv
    <3>3. CASE pc' = "pollGroup" /\ UNCHANGED <<launched, running, results, stream>>
      <4>1. GroupRuns' /\ ResultsComplete'
        BY <1>2, <2>1, <2>2, <3>3 DEF GroupRuns, ResultsComplete, ResultsFor, ToolPhases
      <4> QED
        BY <1>1, <2>1, <3>3, <4>1 DEF ToolInv, AgentTypeOK, Phases
    <3> QED
      BY <1>6, <3>1, <3>2, <3>3 DEF PollAfterTool
  <2> QED
    BY <1>5, <2>1, <2>3
<1>7. CASE PollAfterGroup
  <2>1. /\ pc = "pollGroup" /\ DequeueSteering
        /\ UNCHANGED <<calls, processedCount, called>>
        /\ UNCHANGED <<agentVars, followUpQueue, aborted, context, hasMoreToolCalls, firstTurn,
                       streamDone, via>>
    BY <1>7 DEF PollAfterGroup
  <2>2. ResultsFor(processedCount) /\ running = {}
    BY <1>1, <2>1 DEF ToolInv, GroupRuns, ToolPhases
  <2>3. ToolInv' /\ stream' \in Seq(Events) /\ pc' \in Phases
    <3>1. CASE SkipRemaining
      BY <1>1, <2>1, <3>1, SkipStep
    <3>2. CASE GoOn(processedCount + 1) /\ processedCount < Len(calls)
      <4>1. Launch(processedCount + 1) /\ UNCHANGED <<calls, processedCount, results, called>>
        BY <2>1, <3>2 DEF GoOn
      <4> QED
        BY <1>1, <2>2, <3>2, <4>1, LaunchInv
    <3>3. CASE /\ pc' = "toolsDone" /\ UNCHANGED <<launched, running, results, stream>>
               /\ ~(processedCount < Len(calls))
      <4>1. processedCount = Len(calls)
        BY <1>2, <3>3
      <4>2. GroupRuns' /\ ResultsComplete'
        BY <2>1, <2>2, <3>3, <4>1 DEF GroupRuns, ResultsComplete, ResultsFor, ToolPhases
      <4> QED
        BY <1>1, <2>1, <3>3, <4>2 DEF ToolInv, AgentTypeOK, Phases
    <3> QED
      BY <1>7, <3>1, <3>2, <3>3 DEF PollAfterGroup
  <2> QED
    BY <1>5, <2>1, <2>3
<1>8. CASE FinishTurnWithTools
  <2>1. ToolInv'
    <3>1. UNCHANGED <<toolVars, called>> /\ pc # "tools" /\ pc' \notin ToolPcs
      BY <1>8 DEF FinishTurnWithTools, ToolPcs, ToolPhases
    <3> QED
      BY <1>1, <3>1, QuietStep
  <2>2. context' \in Seq(Messages)
    BY <1>1, <1>8 DEF FinishTurnWithTools, AgentTypeOK, ToolInv
  <2>3. stream' \in Seq(Events)
    <3>1. Mark("turn_end") \in Seq(Events)
      BY EventType DEF EventTypes
    <3> QED
      BY <1>1, <1>8, <3>1 DEF FinishTurnWithTools, AgentTypeOK
  <2>4. pending' \in Seq(Messages) /\ steeringQueue' \in Seq(Messages)
    BY <1>1, <1>3, <1>8 DEF FinishTurnWithTools, DequeueSteering, AgentTypeOK
  <2>5. AgentTypeOK'
    BY <1>1, <1>8, <2>2, <2>3, <2>4 DEF FinishTurnWithTools, AgentTypeOK, Phases, agentVars
  <2> QED
    BY <2>1, <2>5, Join
<1> QED
  BY <1>4, <1>6, <1>7, <1>8

\* A call returns: its worker takes the next call of the group, or the
\* others go on, or the group is complete.
LEMMA CompleteStep ==
  ASSUME IInv, NEW k \in Nat, CompleteTool(k)
  PROVE  IInv'
<1> DEFINE first == processedCount + 1
           g == GroupEnd(calls, first)
           par == Parallel(calls, first)
           more == par /\ launched < g
           done == ToolEvent("tool_execution_end", k) \o MessageEnds(<<Result("result", k)>>)
           start == ToolEvent("tool_execution_start", launched + 1)
<1>1. AgentTypeOK /\ ToolInv
  BY Split
<1>2. /\ calls \in Seq(CallKinds) /\ Len(calls) \in Nat
      /\ processedCount \in Nat /\ launched \in Nat /\ processedCount <= launched
      /\ launched <= Len(calls)
      /\ running \subseteq first..launched /\ called \in Seq(Seq(CallKinds))
      /\ results \in Seq(Messages)
  BY <1>1 DEF ToolInv
<1>3. /\ pc = "tools" /\ k \in running
      /\ UNCHANGED <<agentVars, queueVars, aborted, turnVars, calls, streamDone, via, called>>
  BY DEF CompleteTool
<1>4. /\ ResultsFor(processedCount)
      /\ par => launched <= g /\ Cardinality(running) <= Concurrency
      /\ ~par => launched = first
  BY <1>1, <1>3 DEF ToolInv, GroupRuns, ToolPhases
<1>5. first \in 1..Len(calls) /\ first <= launched
  BY <1>2, <1>3
<1>6. g \in first..Len(calls)
  BY <1>2, <1>5, GroupEndType
<1>7. done \in Seq(Events) /\ start \in Seq(Events) /\ stream \in Seq(Events)
  <2>1. Result("result", k) \in Messages
    BY <1>2, MessageType DEF Result, MessageKinds
  <2>2. MessageEnds(<<Result("result", k)>>) \in Seq(Events)
    BY <2>1, MessageEndType
  <2>3. ToolEvent("tool_execution_end", k) \in Seq(Events)
    BY EventType DEF EventTypes
  <2>4. launched + 1 \in Nat
    BY <1>2
  <2>5. start \in Seq(Events)
    BY <2>4, EventType DEF EventTypes
  <2>6. done \in Seq(Events)
    BY <2>2, <2>3
  <2> QED
    BY <1>1, <2>5, <2>6 DEF AgentTypeOK
<1>8. IsFiniteSet(running)
  <2>1. IsFiniteSet(first..launched)
    BY <1>2, <1>5, FS_Interval
  <2> QED
    BY <1>2, <2>1, FS_Subset
<1>9. /\ Cardinality(running \ {k}) = Cardinality(running) - 1
      /\ IsFiniteSet(running \ {k})
      /\ Cardinality(running) \in Nat
  BY <1>3, <1>8, FS_RemoveElement, FS_CardinalityType
<1>11. CASE more
  <2>1. /\ running' = (running \ {k}) \union {launched + 1}
        /\ launched' = launched + 1
        /\ stream' = stream \o done \o start
        /\ UNCHANGED <<pc, processedCount, results>>
    BY <1>11 DEF CompleteTool
  <2>2. stream' \in Seq(Events)
    BY <1>7, <2>1, ConcatType
  <2>3. Cardinality(running') <= Concurrency
    <3>1. launched + 1 \notin running \ {k}
      BY <1>2
    <3>2. Cardinality(running') = Cardinality(running \ {k}) + 1
      BY <1>9, <2>1, <3>1, FS_AddElement
    <3> QED
      BY <1>4, <1>9, <1>11, <3>2
  <2>4. launched' <= g /\ launched' \in processedCount'..Len(calls')
    BY <1>2, <1>3, <1>6, <1>11, <2>1
  <2>5. running' \subseteq (processedCount' + 1)..launched'
    BY <1>2, <1>5, <2>1
  <2>6. ToolInv'
    <3>1. GroupRuns'
      <4>1. pc' = "tools" /\ running' # {} /\ calls' = calls /\ processedCount' = processedCount
        BY <1>3, <2>1
      <4>2. ResultsFor(processedCount)'
        BY <1>3, <1>4, <2>1 DEF ResultsFor
      <4>3. Parallel(calls, processedCount + 1)' /\ launched' <= GroupEnd(calls, processedCount + 1)'
        BY <1>11, <2>4, <4>1 DEF Parallel, GroupEnd
      <4> HIDE DEF more, first, g
      <4> QED
        BY <2>3, <4>1, <4>2, <4>3 DEF GroupRuns
    <3>2. ResultsComplete'
      BY <1>3, <2>1 DEF ResultsComplete
    <3> QED
      BY <1>2, <1>3, <2>1, <2>4, <2>5, <3>1, <3>2 DEF ToolInv
  <2>7. AgentTypeOK'
    BY <1>1, <1>3, <2>1, <2>2 DEF AgentTypeOK, agentVars, queueVars, turnVars
  <2> QED
    BY <2>6, <2>7, Join
<1>12. CASE ~more /\ running \ {k} # {}
  <2>1. /\ running' = running \ {k} /\ stream' = stream \o done
        /\ UNCHANGED <<pc, processedCount, results, launched>>
    BY <1>12 DEF CompleteTool
  <2>2. stream' \in Seq(Events)
    BY <1>7, <2>1
  <2>3. ToolInv'
    <3>1. GroupRuns'
      <4>1. /\ pc' = "tools" /\ running' # {} /\ calls' = calls /\ launched' = launched
            /\ processedCount' = processedCount
        BY <1>3, <1>12, <2>1
      <4>2. ResultsFor(processedCount)'
        BY <1>3, <1>4, <2>1 DEF ResultsFor
      <4>3. /\ Parallel(calls, processedCount + 1)' <=> Parallel(calls, processedCount + 1)
            /\ GroupEnd(calls, processedCount + 1)' = GroupEnd(calls, processedCount + 1)
        BY <4>1 DEF Parallel, GroupEnd
      <4>4. par => Cardinality(running') <= Concurrency
        BY <1>4, <1>9, <2>1, ALAssumption
      <4> QED
        BY <1>4, <4>1, <4>2, <4>3, <4>4 DEF GroupRuns
    <3>2. ResultsComplete'
      BY <1>3, <2>1 DEF ResultsComplete
    <3> QED
      BY <1>1, <1>2, <1>3, <2>1, <3>1, <3>2 DEF ToolInv
  <2>4. AgentTypeOK'
    BY <1>1, <1>3, <2>1, <2>2 DEF AgentTypeOK, agentVars, queueVars, turnVars
  <2> QED
    BY <2>3, <2>4, Join
<1>13. CASE ~more /\ running \ {k} = {}
  <2>1. /\ running' = {} /\ stream' = stream \o done /\ launched' = launched
        /\ results' = results \o Results("result", processedCount + 1, launched)
        /\ processedCount' = launched
        /\ pc' \in {"pollTool", "pollGroup"}
    BY <1>13 DEF CompleteTool
  <2>2. stream' \in Seq(Events)
    BY <1>7, <2>1
  <2>3. /\ results' \in Seq(Messages)
        /\ Len(results') = launched
        /\ \A i \in 1..launched : /\ results'[i].call = i
                                 /\ results'[i].n = Len(called)
                                 /\ IsResult(results'[i])
    BY <1>2, <1>3, <1>4, <2>1, ResultsGrow
  <2>4. ToolInv'
    <3>1. ResultsFor(processedCount)'
      BY <1>3, <2>1, <2>3 DEF ResultsFor, IsResult
    <3>2. processedCount' >= 1
      BY <1>2, <1>5, <2>1
    <3>3. GroupRuns'
      BY <2>1, <3>1, <3>2 DEF GroupRuns
    <3>4. ResultsComplete'
      BY <2>1 DEF ResultsComplete
    <3>5. /\ processedCount' \in 0..Len(calls') /\ launched' \in processedCount'..Len(calls')
          /\ running' \subseteq (processedCount' + 1)..launched'
      BY <1>2, <1>3, <2>1
    <3> QED
      BY <1>2, <1>3, <2>3, <3>3, <3>4, <3>5 DEF ToolInv
  <2>5. AgentTypeOK'
    BY <1>1, <1>3, <2>1, <2>2 DEF AgentTypeOK, Phases, agentVars, queueVars, turnVars
  <2> QED
    BY <2>4, <2>5, Join
<1> QED
  BY <1>11, <1>12, <1>13

\* The consumer of the events.
LEMMA ConsumerSteps ==
  ASSUME IInv, Consume \/ FinishRun
  PROVE  IInv'
<1>1. AgentTypeOK /\ ToolInv
  BY Split
<1>2. CASE Consume
  <2> DEFINE event == Head(stream)
  <2>1. event \in Events /\ stream' \in Seq(Events)
    BY <1>1, <1>2 DEF Consume, AgentTypeOK
  <2>2. event.message \in Messages /\ event.call \in Nat
    BY <2>1 DEF Events
  <2>3. messages' \in Seq(Messages)
    BY <1>1, <1>2, <2>2 DEF Consume, AgentTypeOK
  <2>4. pendingToolCalls' \in SUBSET Nat
    <3>1. \/ pendingToolCalls' = pendingToolCalls \union {event.call}
          \/ pendingToolCalls' = pendingToolCalls \ {event.call}
          \/ pendingToolCalls' = pendingToolCalls
      BY <1>2 DEF Consume
    <3> QED
      BY <1>1, <2>2, <3>1 DEF AgentTypeOK
  <2>5. isStreaming' \in BOOLEAN
    BY <1>2 DEF Consume
  <2>6. ToolInv'
    BY <1>1, <1>2, QuietStep DEF Consume
  <2>7. AgentTypeOK'
    BY <1>1, <1>2, <2>1, <2>3, <2>4, <2>5 DEF Consume, AgentTypeOK, queueVars, turnVars
  <2> QED
    BY <2>6, <2>7, Join
<1>3. CASE FinishRun
  <2>1. ToolInv'
    <3>1. UNCHANGED <<toolVars, called>> /\ pc # "tools" /\ pc' \notin ToolPcs
      BY <1>3 DEF FinishRun, ToolPcs, ToolPhases
    <3> QED
      BY <1>1, <3>1, QuietStep
  <2>2. AgentTypeOK'
    BY <1>1, <1>3 DEF FinishRun, AgentTypeOK, Phases, queueVars, turnVars
  <2> QED
    BY <2>1, <2>2, Join
<1> QED
  BY <1>2, <1>3

\* What a reply asks for is a list of calls.
LEMMA CallListsType == \A cs \in CallLists : cs \in Seq(CallKinds)
<1>1. <<>> \in Seq(CallKinds)
  OBVIOUS
<1>2. \A n \in Nat : [1..n -> CallKinds] \subseteq Seq(CallKinds)
  OBVIOUS
<1>3. \A n \in 1..MaxCalls : n \in Nat
  BY ALAssumption
<1> QED
  BY <1>1, <1>2, <1>3 DEF CallLists

\* Every step keeps the invariant.
LEMMA NextInv == IInv /\ [Next]_vars => IInv'
<1> SUFFICES ASSUME IInv, [Next]_vars PROVE IInv'
  OBVIOUS
<1>1. CASE User
  BY <1>1, QueueSteps, StartSteps DEF User
<1>2. CASE Loop
  BY <1>2, TurnSteps, ToolSteps DEF Loop
<1>3. CASE RequestThrows
  BY <1>3, TurnSteps
<1>4. CASE Replies
  <2>1. <<>> \in Seq(CallKinds)
    OBVIOUS
  <2>4. \A cs \in CallLists : cs \in Seq(CallKinds)
    BY CallListsType
  <2>5. \/ \E cs \in CallLists : Reply("assistant", cs)
        \/ Reply("failed", <<>>)
    BY <1>4 DEF Replies
  <2> QED
    BY <2>1, <2>4, <2>5, ReplyStep
<1>5. CASE Tools
  <2>1. PICK k \in 1..MaxCalls : CompleteTool(k)
    BY <1>5 DEF Tools
  <2>2. k \in Nat
    BY <2>1, ALAssumption
  <2> QED
    BY <2>1, <2>2, CompleteStep
<1>6. CASE Consumer
  BY <1>6, ConsumerSteps DEF Consumer
<1>7. CASE UNCHANGED vars
  <2>1. AgentTypeOK /\ ToolInv
    BY Split
  <2>2. ToolInv'
    BY <1>7, <2>1, QuietStep DEF vars
  <2>3. AgentTypeOK'
    BY <1>7, <2>1 DEF vars, AgentTypeOK, agentVars, queueVars, turnVars
  <2> QED
    BY <2>2, <2>3, Join
<1> QED
  BY <1>1, <1>2, <1>3, <1>4, <1>5, <1>6, <1>7 DEF Next

\* The invariant holds in every state of every behaviour.
LEMMA Inductive == Spec => []IInv
BY InitInv, NextInv, PTL DEF Spec

-----------------------------------------------------------------------------
(* Theorems *)

\* The type invariant holds for any queue modes, any number of parallel
\* tools and any bounds.
THEOREM TypeCorrect == Spec => []TypeOK
<1>1. IInv => TypeOK
  BY DEF IInv
<1> QED
  BY <1>1, Inductive, PTL

\* executeToolCalls returns one result per call, in the order of the calls,
\* however the reply's calls are grouped and whatever was skipped.
THEOREM ResultsCompleteAlways == Spec => []ResultsComplete
<1>1. IInv => ResultsComplete
  BY DEF IInv
<1> QED
  BY <1>1, Inductive, PTL

\* A call with side effects runs alone and maxParallelTools bounds the calls
\* that run at once, for any reply and any maxParallelTools.
THEOREM WritesRunAloneAlways == Spec => []WritesRunAlone
<1>1. IInv => WritesRunAlone
  <2> SUFFICES ASSUME IInv PROVE WritesRunAlone
    OBVIOUS
  <2> DEFINE first == processedCount + 1
  <2>1. ToolInv
    BY Split
  <2>2. /\ calls \in Seq(CallKinds) /\ processedCount \in Nat /\ launched \in Nat
        /\ launched <= Len(calls) /\ running \subseteq first..launched
    BY <2>1 DEF ToolInv
  <2>3. Concurrency \in Nat /\ 1 <= Concurrency
    BY ALAssumption
  <2>4. CASE running = {}
    <3>1. Cardinality(running) = 0
      BY <2>4, FS_EmptySet
    <3> QED
      BY <2>3, <2>4, <3>1 DEF WritesRunAlone
  <2>5. CASE running # {}
    <3>1. pc = "tools"
      BY <2>1, <2>5 DEF ToolInv, GroupRuns
    <3>2. first \in 1..Len(calls)
      <4>1. PICK k \in running : TRUE
        BY <2>5
      <4>2. k \in first..launched
        BY <2>2, <4>1
      <4> QED
        BY <2>2, <4>2
    <3>3. CASE Parallel(calls, first)
      <4>1. launched <= GroupEnd(calls, first) /\ Cardinality(running) <= Concurrency
        BY <2>1, <3>1, <3>3 DEF ToolInv, GroupRuns
      <4>2. calls[first] = "read"
        BY <2>2, <3>2, <3>3, GroupEndType DEF Parallel, CallKinds
      <4>3. \A k \in running : calls[k] = "read"
        BY <2>2, <3>2, <4>1, <4>2, GroupEndType
      <4> QED
        BY <4>1, <4>3 DEF WritesRunAlone
    <3>4. CASE ~Parallel(calls, first)
      <4>1. launched = first
        BY <2>1, <3>1, <3>4 DEF ToolInv, GroupRuns
      <4>2. running = {first}
        <5>1. running \subseteq first..first
          BY <2>2, <4>1
        <5>2. first..first = {first}
          BY <2>2
        <5> QED
          BY <2>5, <5>1, <5>2
      <4>3. Cardinality(running) = 1
        BY <4>2, FS_Singleton
      <4> QED
        BY <2>3, <4>2, <4>3 DEF WritesRunAlone
    <3> QED
      BY <3>3, <3>4
  <2> QED
    BY <2>4, <2>5
<1> QED
  BY <1>1, Inductive, PTL

-----------------------------------------------------------------------------
(* The queues *)

\* What is taken from a queue and what is left of it are messages of the queue.
LEMMA TakenLeftMembers ==
  ASSUME NEW queue \in Seq(Messages), NEW mode
  PROVE  /\ \A i \in DOMAIN Taken(queue, mode) :
              \E j \in DOMAIN queue : Taken(queue, mode)[i] = queue[j]
         /\ \A i \in DOMAIN Left(queue, mode) :
              \E j \in DOMAIN queue : Left(queue, mode)[i] = queue[j]
<1>1. CASE mode = "all" \/ queue = <<>>
  BY <1>1 DEF Taken, Left
<1>2. CASE ~(mode = "all" \/ queue = <<>>)
  <2>1. Taken(queue, mode) = <<Head(queue)>> /\ Left(queue, mode) = Tail(queue)
    BY <1>2 DEF Taken, Left
  <2>2. queue # <<>> /\ DOMAIN queue = 1..Len(queue) /\ Len(queue) \in Nat \ {0}
    BY <1>2
  <2>3. /\ Head(queue) = queue[1] /\ Tail(queue) \in Seq(Messages)
        /\ Len(Tail(queue)) = Len(queue) - 1
        /\ \A i \in 1..Len(Tail(queue)) : Tail(queue)[i] = queue[i + 1]
    BY <2>2, HeadTailProperties
  <2>4. \A i \in DOMAIN Taken(queue, mode) : Taken(queue, mode)[i] = queue[1] /\ 1 \in DOMAIN queue
    BY <2>1, <2>2, <2>3
  <2>5. ASSUME NEW i \in DOMAIN Left(queue, mode)
        PROVE  \E j \in DOMAIN queue : Left(queue, mode)[i] = queue[j]
    <3>1. i \in 1..Len(Tail(queue))
      BY <2>1, <2>3
    <3>2. i + 1 \in DOMAIN queue /\ Left(queue, mode)[i] = queue[i + 1]
      BY <2>1, <2>2, <2>3, <3>1
    <3> QED
      BY <3>2
  <2> QED
    BY <2>4, <2>5
<1> QED
  BY <1>1, <1>2

\* So both are of the kind the queue was.
LEMMA TakenLeftKind ==
  ASSUME NEW queue \in Seq(Messages), NEW mode
  PROVE  /\ FromSteering(queue) =>
              FromSteering(Taken(queue, mode)) /\ FromSteering(Left(queue, mode))
         /\ FromUser(queue) => FromUser(Taken(queue, mode)) /\ FromUser(Left(queue, mode))
BY TakenLeftMembers DEF FromSteering, FromUser

\* A message sent leaves what is known of the others.
LEMMA ViaGrows ==
  ASSUME NEW queue, via \in Seq({"prompt", "steer", "followUp"}), FromSteering(queue),
         NEW how \in {"prompt", "steer", "followUp"}, via' = Append(via, how)
  PROVE  \A i \in DOMAIN queue :
           queue[i].kind = "user" /\ queue[i].n \in DOMAIN via' /\ via'[queue[i].n] = "steer"
<1>1. /\ DOMAIN via = 1..Len(via) /\ DOMAIN via' = 1..(Len(via) + 1) /\ Len(via) \in Nat
      /\ \A n \in 1..Len(via) : via'[n] = via[n]
  OBVIOUS
<1> QED
  BY <1>1 DEF FromSteering

\* The facts about the queues that most steps use.
LEMMA QueueFacts ==
  ASSUME IInv, QueuesInv
  PROVE  /\ steeringQueue \in Seq(Messages) /\ followUpQueue \in Seq(Messages)
         /\ pending \in Seq(Messages) /\ results \in Seq(Messages)
         /\ via \in Seq({"prompt", "steer", "followUp"})
         /\ FromSteering(Taken(steeringQueue, SteeringMode))
         /\ FromSteering(Left(steeringQueue, SteeringMode))
         /\ FromUser(Taken(steeringQueue, SteeringMode))
         /\ FromUser(Taken(followUpQueue, FollowUpMode))
         /\ FromUser(Left(followUpQueue, FollowUpMode))
<1>1. AgentTypeOK /\ ToolInv
  BY Split
<1>2. /\ steeringQueue \in Seq(Messages) /\ followUpQueue \in Seq(Messages)
      /\ pending \in Seq(Messages) /\ results \in Seq(Messages)
      /\ via \in Seq({"prompt", "steer", "followUp"})
  BY <1>1 DEF AgentTypeOK, ToolInv
<1>3. /\ FromSteering(Taken(steeringQueue, SteeringMode))
      /\ FromSteering(Left(steeringQueue, SteeringMode))
  BY <1>2, TakenLeftKind DEF QueuesInv
<1>4. FromUser(Taken(steeringQueue, SteeringMode))
  BY <1>3 DEF FromSteering, FromUser
<1>5. /\ FromUser(Taken(followUpQueue, FollowUpMode))
      /\ FromUser(Left(followUpQueue, FollowUpMode))
  BY <1>2, TakenLeftKind DEF QueuesInv
<1> QED
  BY <1>2, <1>3, <1>4, <1>5

\* The messages the user sends and clears.
LEMMA QueuesUser ==
  ASSUME IInv, QueuesInv, Steer \/ FollowUp \/ ClearAllQueues \/ Abort
  PROVE  QueuesInv'
<1>1. /\ pending' = pending /\ results' = results /\ pc' = pc
  BY DEF Steer, FollowUp, ClearAllQueues, Abort, turnVars, toolVars
<1>2. /\ via \in Seq({"prompt", "steer", "followUp"}) /\ Len(via) \in Nat
      /\ steeringQueue \in Seq(Messages) /\ followUpQueue \in Seq(Messages)
  BY QueueFacts
<1>3. \/ via' = via
      \/ \E how \in {"prompt", "steer", "followUp"} : via' = Append(via, how)
  BY DEF Steer, FollowUp, ClearAllQueues, Abort
<1>4. \A queue : FromSteering(queue) =>
        \A i \in DOMAIN queue :
          queue[i].kind = "user" /\ queue[i].n \in DOMAIN via' /\ via'[queue[i].n] = "steer"
  BY <1>2, <1>3, ViaGrows DEF FromSteering
<1>5. FromSteering(pending) => FromSteering(pending)'
  BY <1>1, <1>4 DEF FromSteering
<1>6. FromUser(pending)'
  BY <1>1 DEF FromUser, QueuesInv
<1>7. NextUser \in Messages /\ NextUser.kind = "user" /\ NextUser.n = Len(via) + 1
  BY <1>2, NextUserType DEF NextUser, Message
<1>8. FromSteering(steeringQueue)'
  <2>1. CASE Steer
    <3>1. steeringQueue' = Append(steeringQueue, NextUser) /\ via' = Append(via, "steer")
      BY <2>1 DEF Steer
    <3>2. Len(via) + 1 \in DOMAIN via' /\ via'[Len(via) + 1] = "steer"
      BY <1>2, <3>1
    <3>3. \A i \in DOMAIN steeringQueue' :
            \/ i \in DOMAIN steeringQueue /\ steeringQueue'[i] = steeringQueue[i]
            \/ steeringQueue'[i] = NextUser
      BY <1>2, <1>7, <3>1, AppendProperties
    <3> QED
      BY <1>4, <1>7, <3>2, <3>3 DEF FromSteering, QueuesInv
  <2>2. CASE FollowUp \/ Abort
    BY <1>4, <2>2 DEF FollowUp, Abort, queueVars, FromSteering, QueuesInv
  <2>3. CASE ClearAllQueues
    BY <2>3 DEF ClearAllQueues, FromSteering
  <2> QED
    BY <2>1, <2>2, <2>3
<1>9. FromUser(followUpQueue)'
  <2>1. CASE FollowUp
    <3>1. \A i \in DOMAIN followUpQueue' :
            \/ i \in DOMAIN followUpQueue /\ followUpQueue'[i] = followUpQueue[i]
            \/ followUpQueue'[i] = NextUser
      BY <1>2, <1>7, <2>1, AppendProperties DEF FollowUp
    <3> QED
      BY <1>7, <3>1 DEF FromUser, QueuesInv
  <2>2. CASE Steer \/ Abort
    BY <2>2 DEF Steer, Abort, queueVars, FromUser, QueuesInv
  <2>3. CASE ClearAllQueues
    BY <2>3 DEF ClearAllQueues, FromUser
  <2> QED
    BY <2>1, <2>2, <2>3
<1> QED
  BY <1>1, <1>5, <1>6, <1>8, <1>9 DEF QueuesInv

\* The start of a run takes its steering messages.
LEMMA QueuesStart ==
  ASSUME IInv, QueuesInv, Prompt \/ DropFailedReply \/ ContinueWithSteering
                            \/ ContinueWithFollowUp \/ ContinueFromContext
  PROVE  QueuesInv'
<1>1. CASE DropFailedReply
  BY <1>1 DEF DropFailedReply, QueuesInv, FromSteering, FromUser, queueVars, turnVars, toolVars
<1>2. CASE ~DropFailedReply
  <2>1. pc' = "turnHead"
    BY <1>2 DEF Prompt, ContinueWithSteering, ContinueWithFollowUp, ContinueFromContext, StartRun
  <2>2. /\ via \in Seq({"prompt", "steer", "followUp"})
        /\ FromSteering(Taken(steeringQueue, SteeringMode))
        /\ FromSteering(Left(steeringQueue, SteeringMode))
        /\ FromSteering(steeringQueue)
        /\ FromUser(Taken(steeringQueue, SteeringMode))
        /\ FromUser(Left(followUpQueue, FollowUpMode))
        /\ FromUser(followUpQueue)
    BY QueueFacts DEF QueuesInv
  <2>3. via' = via \/ via' = Append(via, "prompt")
    BY <1>2 DEF Prompt, ContinueWithSteering, ContinueWithFollowUp, ContinueFromContext
  <2>4. \A queue : FromSteering(queue) =>
          \A i \in DOMAIN queue :
            queue[i].kind = "user" /\ queue[i].n \in DOMAIN via' /\ via'[queue[i].n] = "steer"
    BY <2>2, <2>3, ViaGrows DEF FromSteering
  <2>5. steeringQueue' = steeringQueue \/ steeringQueue' = Left(steeringQueue, SteeringMode)
    BY <1>2 DEF Prompt, ContinueWithSteering, ContinueWithFollowUp, ContinueFromContext,
                DequeueSteering
  <2>6. FromSteering(steeringQueue)'
    BY <2>2, <2>4, <2>5 DEF FromSteering
  <2>7. followUpQueue' = followUpQueue \/ followUpQueue' = Left(followUpQueue, FollowUpMode)
    BY <1>2 DEF Prompt, ContinueWithSteering, ContinueWithFollowUp, ContinueFromContext
  <2>8. FromUser(followUpQueue)'
    BY <2>2, <2>7 DEF FromUser
  <2>9. pending' = <<>> \/ pending' = Taken(steeringQueue, SteeringMode)
    BY <1>2 DEF Prompt, ContinueWithSteering, ContinueWithFollowUp, ContinueFromContext,
                DequeueSteering
  <2>10. FromUser(pending)'
    BY <2>2, <2>9 DEF FromUser
  <2> QED
    BY <2>1, <2>6, <2>8, <2>10 DEF QueuesInv, ToolPhases
<1> QED
  BY <1>1, <1>2

\* The polls of the loop take steering messages and follow-ups.
LEMMA QueuesLoop ==
  ASSUME IInv, QueuesInv, Loop \/ RequestThrows
  PROVE  QueuesInv'
<1>1. /\ FromSteering(Taken(steeringQueue, SteeringMode))
      /\ FromSteering(Left(steeringQueue, SteeringMode))
      /\ FromUser(Taken(steeringQueue, SteeringMode))
      /\ FromUser(Taken(followUpQueue, FollowUpMode))
      /\ FromUser(Left(followUpQueue, FollowUpMode))
      /\ FromSteering(steeringQueue) /\ FromUser(followUpQueue) /\ FromUser(pending)
  BY QueueFacts DEF QueuesInv
<1>2. via' = via
  BY DEF Loop, BeginTurn, PollFollowUps, ContinueOuterLoop, EndRun, Request, RequestThrows,
         StopOnFailure, FinishTurnWithoutTools, StartTools, PollAfterTool, PollAfterGroup,
         FinishTurnWithTools
<1>3. /\ steeringQueue' \in {steeringQueue, Left(steeringQueue, SteeringMode)}
      /\ followUpQueue' \in {followUpQueue, Left(followUpQueue, FollowUpMode)}
      /\ pending' \in {pending, <<>>, Taken(steeringQueue, SteeringMode),
                       Taken(followUpQueue, FollowUpMode)}
  BY DEF Loop, BeginTurn, PollFollowUps, ContinueOuterLoop, EndRun, Request, RequestThrows,
         StopOnFailure, FinishTurnWithoutTools, StartTools, PollAfterTool, PollAfterGroup,
         FinishTurnWithTools, DequeueSteering, DequeueFollowUp, queueVars, turnVars
<1>4. FromSteering(steeringQueue)' /\ FromUser(followUpQueue)' /\ FromUser(pending)'
  <2>1. FromUser(<<>>)
    BY DEF FromUser
  <2>2. FromSteering(steeringQueue)'
    BY <1>1, <1>2, <1>3 DEF FromSteering
  <2>3. FromUser(followUpQueue)'
    BY <1>1, <1>3 DEF FromUser
  <2>4. FromUser(pending)'
    BY <1>1, <1>3, <2>1 DEF FromUser
  <2> QED
    BY <2>2, <2>3, <2>4
<1>5. CASE \/ BeginTurn \/ PollFollowUps \/ ContinueOuterLoop \/ EndRun \/ Request
           \/ RequestThrows \/ StopOnFailure \/ FinishTurnWithoutTools
  <2>1. pending' # <<>> => pc' \in {"turnHead", "toolsDone", "followUps"}
    BY <1>5 DEF QueuesInv, BeginTurn, PollFollowUps, ContinueOuterLoop, EndRun, Request,
                RequestThrows, StopOnFailure, FinishTurnWithoutTools, turnVars
  <2>2. pc' \notin ToolPhases \union {"toolsDone"}
    BY <1>5 DEF BeginTurn, PollFollowUps, ContinueOuterLoop, EndRun, Request,
                RequestThrows, StopOnFailure, FinishTurnWithoutTools, ToolPhases
  <2> QED
    BY <1>4, <2>1, <2>2 DEF QueuesInv
<1>6. CASE StartTools
  <2>1. pc = "replied" /\ pc' = "tools" /\ pending' = pending /\ results' = results
    BY <1>6 DEF StartTools, Launch
  <2>2. results = <<>>
    BY <2>1 DEF IInv, GroupRuns
  <2>3. pending' = <<>>
    BY <2>1 DEF QueuesInv
  <2> QED
    BY <1>4, <2>1, <2>2, <2>3 DEF QueuesInv
<1>7. CASE PollAfterTool \/ PollAfterGroup
  <2>1. /\ pc \in {"pollTool", "pollGroup"} /\ pending = <<>>
        /\ \A i \in DOMAIN results : results[i].kind = "result"
        /\ pending' = Taken(steeringQueue, SteeringMode)
    BY <1>7 DEF PollAfterTool, PollAfterGroup, DequeueSteering, QueuesInv, ToolPhases
  <2>2. CASE pending' # <<>>
    <3>1. pc' = "toolsDone"
      BY <1>7, <2>2 DEF PollAfterTool, PollAfterGroup, SkipRemaining
    <3>2. FromSteering(pending)'
      BY <1>1, <1>2, <2>1 DEF FromSteering
    <3> QED
      BY <1>4, <2>2, <3>1, <3>2 DEF QueuesInv, ToolPhases
  <2>3. CASE pending' = <<>>
    <3>1. results' = results
      BY <1>7, <2>3 DEF PollAfterTool, PollAfterGroup, GoOn
    <3>2. \A i \in DOMAIN results' : results'[i].kind = "result"
      BY <2>1, <3>1
    <3>3. \A i \in DOMAIN results' : results'[i].kind # "skipped"
      BY <3>2
    <3> QED
      BY <1>4, <2>3, <3>2, <3>3 DEF QueuesInv
  <2> QED
    BY <2>2, <2>3
<1>8. CASE FinishTurnWithTools
  BY <1>4, <1>8 DEF FinishTurnWithTools, QueuesInv, ToolPhases
<1> QED
  BY <1>5, <1>6, <1>7, <1>8 DEF Loop
\* The other steps leave the queues alone.
LEMMA QueuesRest ==
  ASSUME IInv, QueuesInv, Replies \/ Tools \/ Consumer \/ UNCHANGED vars
  PROVE  QueuesInv'
<1>1. UNCHANGED <<queueVars, pending, via>>
  BY DEF Replies, Reply, Tools, CompleteTool, Consumer, Consume, FinishRun, vars, turnVars
<1>2. FromSteering(steeringQueue)' /\ FromUser(followUpQueue)' /\ FromUser(pending)'
  BY <1>1 DEF QueuesInv, queueVars, FromSteering, FromUser
<1>3. CASE Replies
  <2>1. pc = "response" /\ pc' \in {"failed", "replied"}
    BY <1>3 DEF Replies, Reply
  <2> QED
    BY <1>1, <1>2, <2>1 DEF QueuesInv, ToolPhases
<1>4. CASE Tools
  <2>1. PICK k \in 1..MaxCalls : CompleteTool(k)
    BY <1>4 DEF Tools
  <2>2. /\ pc = "tools" /\ pc' \in ToolPhases /\ pending = <<>>
        /\ \A i \in DOMAIN results : results[i].kind = "result"
    BY <2>1 DEF CompleteTool, QueuesInv, ToolPhases
  <2>3. \/ results' = results
        \/ results' = results \o Results("result", processedCount + 1, launched)
    BY <2>1 DEF CompleteTool
  <2>4. CASE results' = results
    BY <1>1, <1>2, <2>2, <2>4 DEF QueuesInv, ToolPhases
  <2>5. CASE results' = results \o Results("result", processedCount + 1, launched)
    <3> DEFINE more == Results("result", processedCount + 1, launched)
    <3>1. /\ results \in Seq(Messages) /\ called \in Seq(Seq(CallKinds))
          /\ processedCount + 1 \in Nat /\ launched \in Nat /\ processedCount + 1 <= launched + 1
      <4>1. ToolInv
        BY Split
      <4> QED
        BY <4>1 DEF ToolInv
    <3>2. /\ more \in Seq(Messages)
          /\ \A i \in 1..Len(more) : more[i] = Message("result", Len(called), processedCount + 1 + i - 1)
      BY <3>1, ResultsType
    <3> HIDE DEF more
    <3>3. \A i \in 1..Len(more) : more[i].kind = "result"
      <4>1. \A n, c : Message("result", n, c).kind = "result"
        BY DEF Message
      <4> QED
        BY <3>2, <4>1
    <3>4. \A i \in DOMAIN results' :
            \/ i \in DOMAIN results /\ results'[i] = results[i]
            \/ \E j \in 1..Len(more) : results'[i] = more[j]
      <4>1. results' = results \o more
        BY <2>5 DEF more
      <4>2. /\ results' \in Seq(Messages) /\ Len(results') = Len(results) + Len(more)
            /\ \A i \in 1..Len(results) + Len(more) :
                 results'[i] = IF i <= Len(results) THEN results[i] ELSE more[i - Len(results)]
        BY <3>1, <3>2, <4>1, ConcatProperties
      <4>3. PICK whole \in Seq(Messages) : whole = results'
        BY <4>2
      <4> DEFINE l == Len(results)
                 n == Len(more)
      <4>4. /\ l \in Nat /\ n \in Nat /\ DOMAIN results = 1..l /\ DOMAIN whole = 1..(l + n)
            /\ \A i \in 1..(l + n) : whole[i] = IF i <= l THEN results[i] ELSE more[i - l]
        <5>1. l \in Nat /\ n \in Nat /\ DOMAIN results = 1..l
          BY <3>1, <3>2, LenProperties
        <5>2. DOMAIN whole = 1..(l + n)
          BY <4>2, <4>3, LenProperties
        <5> QED
          BY <4>2, <4>3, <5>1, <5>2
      <4> HIDE DEF l, n
      <4>5. ASSUME NEW i \in DOMAIN whole
            PROVE  \/ i \in DOMAIN results /\ whole[i] = results[i]
                   \/ \E j \in 1..n : whole[i] = more[j]
        <5>1. CASE i <= l
          BY <4>4, <5>1
        <5>2. CASE ~(i <= l)
          <6>1. i - l \in 1..n /\ whole[i] = more[i - l]
            BY <4>4, <5>2
          <6> QED
            BY <6>1
        <5> QED
          BY <5>1, <5>2
      <4> QED
        BY <4>3, <4>5 DEF n
    <3>5. \A i \in DOMAIN results' : results'[i].kind = "result"
      BY <2>2, <3>3, <3>4
    <3> QED
      BY <1>1, <1>2, <2>2, <3>5 DEF QueuesInv, ToolPhases
  <2> QED
    BY <2>3, <2>4, <2>5
<1>5. CASE Consumer
  <2>1. results' = results /\ (pc' = pc \/ (pc' = "idle" /\ pc = "ended"))
    BY <1>5 DEF Consumer, Consume, FinishRun, toolVars
  <2> QED
    BY <1>1, <1>2, <2>1 DEF QueuesInv, ToolPhases, FromSteering
<1>6. CASE UNCHANGED vars
  BY <1>6 DEF vars, toolVars, turnVars, queueVars, QueuesInv, FromSteering, FromUser
<1> QED
  BY <1>3, <1>4, <1>5, <1>6

\* Every step keeps what is known of the queues.
LEMMA QueuesNext ==
  ASSUME IInv, QueuesInv, [Next]_vars
  PROVE  QueuesInv'
<1>1. CASE User
  BY <1>1, QueuesUser, QueuesStart DEF User
<1>2. CASE Loop \/ RequestThrows
  BY <1>2, QueuesLoop
<1>3. CASE Replies \/ Tools \/ Consumer \/ UNCHANGED vars
  BY <1>3, QueuesRest
<1> QED
  BY <1>1, <1>2, <1>3 DEF Next

-----------------------------------------------------------------------------
(* The calls that execute, as the stream tells it *)

\* Events that say nothing of a call.
LEMMA SilentTail ==
  ASSUME NEW s \in Seq(Events), NEW t \in Seq(Events), NEW known, NEW k,
         \A i \in DOMAIN t : ~About(t, i, k)
  PROVE  Executing(s \o t, known, k) <=> Executing(s, known, k)
<1> DEFINE u == s \o t
<1>1. /\ u \in Seq(Events) /\ Len(u) = Len(s) + Len(t)
      /\ \A i \in 1..Len(s) + Len(t) : u[i] = IF i <= Len(s) THEN s[i] ELSE t[i - Len(s)]
  BY ConcatProperties
<1>2. /\ DOMAIN u = 1..Len(u) /\ DOMAIN s = 1..Len(s) /\ DOMAIN t = 1..Len(t)
      /\ Len(s) \in Nat /\ Len(t) \in Nat /\ Len(u) \in Nat
  BY <1>1
<1> HIDE DEF u
<1>3. \A i \in DOMAIN s : u[i] = s[i] /\ i \in DOMAIN u
  BY <1>1, <1>2
<1>4. \A i \in DOMAIN u : About(u, i, k) => i \in DOMAIN s
  <2> SUFFICES ASSUME NEW i \in DOMAIN u, ~(i <= Len(s)) PROVE ~About(u, i, k)
    BY <1>2
  <2>1. i - Len(s) \in DOMAIN t /\ u[i] = t[i - Len(s)]
    BY <1>1, <1>2
  <2> QED
    BY <2>1 DEF About
<1>5. \A i \in DOMAIN s : About(u, i, k) <=> About(s, i, k)
  BY <1>3 DEF About
<1>6. (\A i \in DOMAIN u : ~About(u, i, k)) <=> (\A i \in DOMAIN s : ~About(s, i, k))
  BY <1>3, <1>4, <1>5
<1>7. ASSUME NEW i \in DOMAIN s
      PROVE  (\A j \in i + 1..Len(u) : ~About(u, j, k)) <=> (\A j \in i + 1..Len(s) : ~About(s, j, k))
  <2>1. \A j \in i + 1..Len(u) : j \in DOMAIN u
    BY <1>2
  <2>2. \A j \in i + 1..Len(s) : j \in DOMAIN s /\ j \in i + 1..Len(u)
    BY <1>1, <1>2
  <2>3. \A j \in i + 1..Len(u) : j \in DOMAIN s => j \in i + 1..Len(s)
    BY <1>2
  <2> QED
    BY <2>1, <2>2, <2>3, <1>4, <1>5
<1>8. Executing(u, known, k) <=> Executing(s, known, k)
  BY <1>3, <1>4, <1>5, <1>6, <1>7 DEF Executing
<1> QED
  BY <1>8 DEF u

\* The last event about a call decides.
LEMMA LastDecides ==
  ASSUME NEW s \in Seq(Events), NEW t \in Seq(Events), NEW known, NEW k,
         NEW i \in DOMAIN t, About(t, i, k), \A j \in i + 1..Len(t) : ~About(t, j, k)
  PROVE  Executing(s \o t, known, k) <=> t[i].type = "tool_execution_start"
<1> DEFINE u == s \o t
           l == Len(s) + i
<1>1. /\ u \in Seq(Events) /\ Len(u) = Len(s) + Len(t)
      /\ \A j \in 1..Len(s) + Len(t) : u[j] = IF j <= Len(s) THEN s[j] ELSE t[j - Len(s)]
  BY ConcatProperties
<1>2. /\ DOMAIN u = 1..Len(u) /\ DOMAIN s = 1..Len(s) /\ DOMAIN t = 1..Len(t)
      /\ Len(s) \in Nat /\ Len(t) \in Nat /\ Len(u) \in Nat
  BY <1>1
<1>3. l \in DOMAIN u /\ u[l] = t[i] /\ l \in Nat
  BY <1>1, <1>2
<1>4. \A j \in l + 1..Len(u) : j \in DOMAIN u /\ ~About(u, j, k)
  <2> SUFFICES ASSUME NEW j \in l + 1..Len(u) PROVE j \in DOMAIN u /\ ~About(u, j, k)
    OBVIOUS
  <2>1. j \in DOMAIN u /\ j - Len(s) \in i + 1..Len(t) /\ u[j] = t[j - Len(s)]
    BY <1>1, <1>2
  <2> QED
    BY <2>1 DEF About
<1> HIDE DEF u, l
<1>5. About(u, l, k)
  BY <1>3 DEF About
<1>6. ASSUME Executing(u, known, k) PROVE u[l].type = "tool_execution_start"
  <2>1. PICK j \in DOMAIN u : /\ About(u, j, k) /\ u[j].type = "tool_execution_start"
                              /\ \A m \in j + 1..Len(u) : ~About(u, m, k)
    BY <1>3, <1>5, <1>6 DEF Executing
  <2>2. ~(j < l)
    BY <1>2, <1>3, <1>5, <2>1
  <2>3. ~(l < j)
    BY <1>2, <1>3, <1>4, <2>1
  <2>4. j = l
    BY <1>2, <1>3, <2>2, <2>3
  <2> QED
    BY <2>1, <2>4
<1>7. ASSUME u[l].type = "tool_execution_start" PROVE Executing(u, known, k)
  BY <1>3, <1>4, <1>5, <1>7 DEF Executing
<1> QED
  BY <1>3, <1>6, <1>7 DEF u

\* The consumer moves what an event says from the stream to what it knows.
LEMMA ConsumeOne ==
  ASSUME NEW s \in Seq(Events), s # <<>>, NEW known \in SUBSET Nat, NEW k \in Nat
  PROVE  LET e == Head(s)
             next == CASE e.type = "tool_execution_start" -> known \union {e.call}
                       [] e.type = "tool_execution_end"   -> known \ {e.call}
                       [] OTHER -> known
         IN  Executing(Tail(s), next, k) <=> Executing(s, known, k)
<1> DEFINE e == Head(s)
           next == CASE e.type = "tool_execution_start" -> known \union {e.call}
                     [] e.type = "tool_execution_end"   -> known \ {e.call}
                     [] OTHER -> known
           t == Tail(s)
<1>1. /\ e = s[1] /\ t \in Seq(Events) /\ Len(t) = Len(s) - 1
      /\ \A i \in 1..Len(t) : t[i] = s[i + 1]
  BY HeadTailProperties
<1>2. /\ DOMAIN s = 1..Len(s) /\ DOMAIN t = 1..Len(t) /\ Len(s) \in Nat \ {0} /\ Len(t) \in Nat
  BY <1>1
<1>3. k \in next <=> IF About(s, 1, k) THEN e.type = "tool_execution_start" ELSE k \in known
  BY <1>1 DEF About
<1> HIDE DEF e, next, t
<1>4. \A i \in DOMAIN t : i + 1 \in DOMAIN s /\ (About(t, i, k) <=> About(s, i + 1, k))
  BY <1>1, <1>2 DEF About
<1>5. \A i \in DOMAIN s : i # 1 => i - 1 \in DOMAIN t /\ (i - 1) + 1 = i
  BY <1>1, <1>2
<1>6. ASSUME NEW i \in DOMAIN t
      PROVE  (\A j \in i + 1..Len(t) : ~About(t, j, k))
               <=> (\A j \in (i + 1) + 1..Len(s) : ~About(s, j, k))
  <2>1. \A j \in i + 1..Len(t) : j \in DOMAIN t /\ j + 1 \in (i + 1) + 1..Len(s)
    BY <1>1, <1>2
  <2>2. \A j \in (i + 1) + 1..Len(s) :
          j - 1 \in i + 1..Len(t) /\ (j - 1) + 1 = j /\ j - 1 \in DOMAIN t
    BY <1>1, <1>2
  <2>3. ASSUME \A j \in i + 1..Len(t) : ~About(t, j, k),
               NEW j \in (i + 1) + 1..Len(s)
        PROVE  ~About(s, j, k)
    <3>1. ~About(t, j - 1, k)
      BY <2>2, <2>3
    <3> QED
      BY <1>4, <2>2, <3>1
  <2> QED
    BY <1>4, <2>1, <2>3
<1>7. ASSUME NEW i \in DOMAIN t, About(t, i, k), \A j \in i + 1..Len(t) : ~About(t, j, k)
      PROVE  Executing(t, next, k) <=> Executing(s, known, k)
  <2>1. /\ i + 1 \in DOMAIN s /\ About(s, i + 1, k)
        /\ \A j \in (i + 1) + 1..Len(s) : ~About(s, j, k)
    BY <1>4, <1>6, <1>7
  <2>2. t[i].type = s[i + 1].type
    BY <1>1, <1>2
  <2>3. <<>> \in Seq(Events) /\ <<>> \o t = t /\ <<>> \o s = s
    BY <1>1, ConcatEmptySeq
  <2>4. Executing(<<>> \o t, next, k) <=> t[i].type = "tool_execution_start"
    BY <1>1, <1>7, <2>3, LastDecides
  <2>5. Executing(<<>> \o s, known, k) <=> s[i + 1].type = "tool_execution_start"
    BY <2>1, <2>3, LastDecides, SMTT(20), ZenonT(20)
  <2> QED
    BY <2>2, <2>3, <2>4, <2>5
<1>8. ASSUME \A i \in DOMAIN t : ~About(t, i, k)
      PROVE  Executing(t, next, k) <=> Executing(s, known, k)
  <2>1. Executing(t, next, k) <=> k \in next
    BY <1>8 DEF Executing
  <2>2. \A i \in DOMAIN s : i # 1 => ~About(s, i, k)
    BY <1>4, <1>5, <1>8
  <2>3. 1 \in DOMAIN s /\ \A j \in 1 + 1..Len(s) : j \in DOMAIN s /\ j # 1
    BY <1>2
  <2>4. CASE About(s, 1, k)
    <3>1. Executing(s, known, k) <=> s[1].type = "tool_execution_start"
      BY <2>2, <2>3, <2>4 DEF Executing
    <3> QED
      BY <1>1, <1>3, <2>1, <2>4, <3>1
  <2>5. CASE ~About(s, 1, k)
    <3>1. Executing(s, known, k) <=> k \in known
      BY <2>2, <2>5 DEF Executing
    <3> QED
      BY <1>3, <2>1, <2>5, <3>1
  <2> QED
    BY <2>4, <2>5
<1>9. (\A i \in DOMAIN t : ~About(t, i, k)) \/
      (\E i \in DOMAIN t : About(t, i, k) /\ \A j \in i + 1..Len(t) : ~About(t, j, k))
  <2> SUFFICES ASSUME \E i \in DOMAIN t : About(t, i, k)
               PROVE  \E i \in DOMAIN t : About(t, i, k) /\ \A j \in i + 1..Len(t) : ~About(t, j, k)
    OBVIOUS
  <2> DEFINE T == {Len(t) - i : i \in {j \in DOMAIN t : About(t, j, k)}}
  <2>1. T \in SUBSET Nat /\ T # {}
    BY <1>2
  <2>2. PICK m \in T : \A n \in T : m <= n
    BY <2>1, LeastNat
  <2>3. PICK i \in DOMAIN t : About(t, i, k) /\ m = Len(t) - i
    BY <2>2
  <2>4. ASSUME NEW j \in i + 1..Len(t), About(t, j, k) PROVE FALSE
    <3>1. j \in DOMAIN t
      BY <1>2
    <3>2. Len(t) - j \in T
      BY <2>4, <3>1
    <3>3. Len(t) - i <= Len(t) - j
      BY <2>2, <2>3, <3>2
    <3> QED
      BY <1>2, <3>1, <3>3
  <2> QED
    BY <2>3, <2>4
<1>10. Executing(t, next, k) <=> Executing(s, known, k)
  BY <1>7, <1>8, <1>9
<1> QED
  BY <1>10 DEF t, next, e
-----------------------------------------------------------------------------
(* What the consumer will have *)

\* A consumer that has the messages ms and takes the events s ends with v: c[i]
\* is the number of messages it has after i events.
Catches(ms, s, v) ==
  \E c \in [0..Len(s) -> Nat] :
    /\ c[0] = Len(ms) /\ c[Len(s)] = Len(v)
    /\ \A i, j \in 0..Len(s) : i <= j => c[i] <= c[j]
    /\ \A i \in 1..Len(s) : IF s[i].type = "message_end"
                            THEN c[i] = c[i - 1] + 1 /\ v[c[i]] = s[i].message
                            ELSE c[i] = c[i - 1]
    /\ \A p \in 1..Len(ms) : v[p] = ms[p]

\* With nothing to take it has what it had.
LEMMA CatchesNothing ==
  ASSUME NEW ms \in Seq(Messages)
  PROVE  /\ Catches(ms, <<>>, ms)
         /\ \A v \in Seq(Messages) : Catches(ms, <<>>, v) => v = ms
<1>1. Len(<<>>) = 0 /\ Len(ms) \in Nat
  OBVIOUS
<1>2. Catches(ms, <<>>, ms)
  <2> DEFINE c == [i \in 0..0 |-> Len(ms)]
  <2>1. c \in [0..0 -> Nat] /\ c[0] = Len(ms)
    BY <1>1
  <2>2. \A i, j \in 0..0 : c[i] <= c[j]
    BY <1>1
  <2> HIDE DEF c
  <2> QED
    BY <1>1, <2>1, <2>2 DEF Catches
<1>3. ASSUME NEW v \in Seq(Messages), Catches(ms, <<>>, v) PROVE v = ms
  <2>1. Len(v) = Len(ms) /\ \A p \in 1..Len(ms) : v[p] = ms[p]
    BY <1>1, <1>3 DEF Catches
  <2> QED
    BY <2>1, SeqEqual
<1> QED
  BY <1>2, <1>3

\* A message more or none, for one event.
LEMMA CatchesOne ==
  ASSUME NEW e \in Events
  PROVE  /\ <<e>> \in Seq(Events)
         /\ e.type = "message_end" => Catches(<<>>, <<e>>, <<e.message>>)
         /\ e.type # "message_end" => Catches(<<>>, <<e>>, <<>>)
<1> DEFINE s == <<e>>
<1>1. s \in Seq(Events) /\ Len(s) = 1 /\ s[1] = e /\ Len(<<>>) = 0
  OBVIOUS
<1> HIDE DEF s
<1>2. ASSUME e.type = "message_end" PROVE Catches(<<>>, s, <<e.message>>)
  <2> DEFINE c == [i \in 0..1 |-> i]
             v == <<e.message>>
  <2>1. Len(v) = 1 /\ v[1] = e.message
    OBVIOUS
  <2>2. c \in [0..1 -> Nat] /\ c[0] = 0 /\ c[1] = 1 /\ \A i, j \in 0..1 : i <= j => c[i] <= c[j]
    OBVIOUS
  <2> HIDE DEF c, v
  <2>3. \A i \in 1..1 : i = 1 /\ i - 1 = 0
    OBVIOUS
  <2>4. Catches(<<>>, s, v)
    BY <1>1, <1>2, <2>1, <2>2, <2>3 DEF Catches
  <2> QED
    BY <2>4 DEF v
<1>3. ASSUME e.type # "message_end" PROVE Catches(<<>>, s, <<>>)
  <2> DEFINE c == [i \in 0..1 |-> 0]
  <2>1. c \in [0..1 -> Nat] /\ c[0] = 0 /\ c[1] = 0 /\ \A i, j \in 0..1 : i <= j => c[i] <= c[j]
    OBVIOUS
  <2> HIDE DEF c
  <2>2. \A i \in 1..1 : i = 1 /\ i - 1 = 0
    OBVIOUS
  <2> QED
    BY <1>1, <1>3, <2>1, <2>2 DEF Catches
<1> QED
  BY <1>1, <1>2, <1>3 DEF s

\* Counting, apart from the sequences that are counted.
LEMMA Counting ==
  /\ \A a, p, q \in Nat : p <= q => a + p <= a + q
  /\ \A a, b, p \in Nat : a <= b => a <= b + p
  /\ \A a, p, q \in Nat : a <= p /\ a # 0 => a \in 1..p /\ a \in 1..p + q
  /\ \A a, p, q \in Nat : p <= q /\ p # 0 =>
       a + p \in 1..a + q /\ a + p \notin 1..a /\ (a + p) - a = p
  /\ \A a, p, q \in Nat : p = q + 1 => a + p = (a + q) + 1 /\ p # 0
OBVIOUS

\* Events that are added to the stream add their messages to the view.
LEMMA CatchesMore ==
  ASSUME NEW ms \in Seq(Messages), NEW s \in Seq(Events), NEW v \in Seq(Messages),
         NEW t \in Seq(Events), NEW w \in Seq(Messages),
         Catches(ms, s, v), Catches(<<>>, t, w)
  PROVE  Catches(ms, s \o t, v \o w)
<1> DEFINE u == s \o t
           x == v \o w
           ls == Len(s)
           lt == Len(t)
           lv == Len(v)
           lw == Len(w)
           lm == Len(ms)
           lu == Len(u)
           lx == Len(x)
<1>1. PICK c \in [0..ls -> Nat] :
        /\ c[0] = lm /\ c[ls] = lv
        /\ \A i, j \in 0..ls : i <= j => c[i] <= c[j]
        /\ \A i \in 1..ls : IF s[i].type = "message_end"
                                THEN c[i] = c[i - 1] + 1 /\ v[c[i]] = s[i].message
                                ELSE c[i] = c[i - 1]
        /\ \A p \in 1..lm : v[p] = ms[p]
  BY DEF Catches
<1>2. PICK d \in [0..lt -> Nat] :
        /\ d[0] = 0 /\ d[lt] = lw
        /\ \A i, j \in 0..lt : i <= j => d[i] <= d[j]
        /\ \A i \in 1..lt : IF t[i].type = "message_end"
                                THEN d[i] = d[i - 1] + 1 /\ w[d[i]] = t[i].message
                                ELSE d[i] = d[i - 1]
  <2>1. Len(<<>>) = 0
    OBVIOUS
  <2> QED
    BY <2>1 DEF Catches
<1> DEFINE b == [i \in 0..lu |-> IF i <= ls THEN c[i] ELSE lv + d[i - ls]]
<1>3. /\ u \in Seq(Events) /\ lu = ls + lt
      /\ \A i \in 1..ls + lt : u[i] = IF i <= ls THEN s[i] ELSE t[i - ls]
  BY ConcatProperties
<1>4. /\ x \in Seq(Messages) /\ lx = lv + lw
      /\ \A i \in 1..lv + lw : x[i] = IF i <= lv THEN v[i] ELSE w[i - lv]
  BY ConcatProperties
<1>5. ls \in Nat /\ lt \in Nat /\ lv \in Nat /\ lw \in Nat /\ lm \in Nat
  OBVIOUS
<1> HIDE DEF u, x, ls, lt, lv, lw, lm, lu, lx
<1>6. \A i \in 0..ls : c[i] \in Nat /\ c[i] <= lv /\ b[i] = c[i] /\ lm <= c[i]
  BY <1>1, <1>3, <1>5
<1>7. \A i \in 0..lt : d[i] \in Nat /\ d[i] <= lw /\ b[ls + i] = lv + d[i]
  <2> SUFFICES ASSUME NEW i \in 0..lt
               PROVE  d[i] \in Nat /\ d[i] <= lw /\ b[ls + i] = lv + d[i]
    OBVIOUS
  <2>1. d[i] \in Nat /\ d[i] <= lw
    BY <1>2, <1>5
  <2>2. CASE i = 0
    BY <1>1, <1>2, <1>5, <1>6, <2>1, <2>2
  <2>3. CASE i # 0
    <3>1. ls + i \in 0..lu /\ ~(ls + i <= ls) /\ (ls + i) - ls = i
      BY <1>3, <1>5, <2>3
    <3> QED
      BY <2>1, <3>1
  <2> QED
    BY <2>2, <2>3
<1>8. b \in [0..lu -> Nat]
  <2> SUFFICES ASSUME NEW i \in 0..lu
               PROVE  (IF i <= ls THEN c[i] ELSE lv + d[i - ls]) \in Nat
    OBVIOUS
  <2>1. CASE i <= ls
    BY <1>5, <1>6, <2>1
  <2>2. CASE ~(i <= ls)
    <3>1. i - ls \in 0..lt
      BY <1>3, <1>5, <2>2
    <3> QED
      BY <1>5, <1>7, <2>2, <3>1, SMTT(20), ZenonT(20)
  <2> QED
    BY <2>1, <2>2
<1> HIDE DEF b
<1>a. lu \in Nat /\ lx \in Nat /\ lu = ls + lt /\ lx = lv + lw
  BY <1>3, <1>4, <1>5
<1>b. /\ \A i \in 1..lu : i \in 1..ls => u[i] = s[i]
      /\ \A i \in 1..lu : i \notin 1..ls => u[i] = t[i - ls]
      /\ \A i \in 1..lx : i \in 1..lv => x[i] = v[i]
      /\ \A i \in 1..lx : i \notin 1..lv => x[i] = w[i - lv]
  BY <1>3, <1>4, <1>5, <1>a
<1>9. b[0] = lm /\ b[lu] = lx
  <2>1. 0 \in 0..ls /\ lt \in 0..lt /\ b[ls + lt] = lv + d[lt]
    BY <1>5, <1>7
  <2> QED
    BY <1>1, <1>2, <1>6, <1>a, <2>1
<1>10. \A i \in 0..lu : i \in 0..ls \/ (i - ls \in 0..lt /\ ls + (i - ls) = i)
  BY <1>5, <1>a
<1>11. \A i, j \in 0..lu : i <= j => b[i] <= b[j]
  <2> SUFFICES ASSUME NEW i \in 0..lu, NEW j \in 0..lu, i <= j PROVE b[i] <= b[j]
    OBVIOUS
  <2>1. CASE j \in 0..ls
    <3>1. i \in 0..ls
      BY <1>5, <2>1
    <3> QED
      BY <1>1, <1>6, <2>1, <3>1
  <2>2. CASE i \in 0..ls /\ j \notin 0..ls
    <3>1. j - ls \in 0..lt /\ ls + (j - ls) = j
      BY <1>10, <2>2
    <3>2. b[j] = lv + d[j - ls] /\ d[j - ls] \in Nat
      BY <1>7, <3>1
    <3>3. b[i] = c[i] /\ c[i] \in Nat /\ c[i] <= lv
      BY <1>6, <2>2
    <3>4. lv \in Nat
      BY <1>5
    <3>5. c[i] <= lv + d[j - ls]
      BY Counting, <3>2, <3>3, <3>4
    <3> QED
      BY <3>2, <3>3, <3>5
  <2>3. CASE i \notin 0..ls
    <3>1. /\ i - ls \in 0..lt /\ ls + (i - ls) = i
          /\ j - ls \in 0..lt /\ ls + (j - ls) = j
          /\ i - ls <= j - ls
      BY <1>5, <1>a, <2>3
    <3>2. d[i - ls] <= d[j - ls]
      BY <1>2, <3>1
    <3>3. /\ b[i] = lv + d[i - ls] /\ b[j] = lv + d[j - ls]
          /\ d[i - ls] \in Nat /\ d[j - ls] \in Nat
      BY <1>7, <3>1
    <3>4. lv \in Nat
      BY <1>5
    <3>5. lv + d[i - ls] <= lv + d[j - ls]
      BY Counting, <3>2, <3>3, <3>4
    <3> QED
      BY <3>3, <3>5
  <2> QED
    BY <2>1, <2>2, <2>3
<1>12. ASSUME NEW i \in 1..lu
       PROVE  IF u[i].type = "message_end"
              THEN b[i] = b[i - 1] + 1 /\ x[b[i]] = u[i].message
              ELSE b[i] = b[i - 1]
  <2>1. CASE i <= ls
    <3>1. i \in 1..ls /\ i \in 0..ls /\ i - 1 \in 0..ls /\ u[i] = s[i]
      BY <1>5, <1>a, <1>b, <2>1, SMTT(20), ZenonT(20)
    <3>2. b[i] = c[i] /\ b[i - 1] = c[i - 1]
      BY <1>6, <3>1
    <3>3. c[i - 1] \in Nat /\ c[i] <= lv /\ c[i] \in Nat
      BY <1>6, <3>1
    <3>4. c[i] # 0 => x[c[i]] = v[c[i]]
      <4>1. c[i] # 0 => c[i] \in 1..lv /\ c[i] \in 1..lx
        BY Counting, <1>5, <1>a, <3>3
      <4> QED
        BY <1>b, <4>1
    <3>5. IF s[i].type = "message_end"
          THEN c[i] = c[i - 1] + 1 /\ v[c[i]] = s[i].message
          ELSE c[i] = c[i - 1]
      BY <1>1, <3>1
    <3>6. CASE s[i].type = "message_end"
      <4>1. c[i] = c[i - 1] + 1 /\ v[c[i]] = s[i].message
        BY <3>5, <3>6
      <4>2. c[i] # 0
        BY <3>3, <4>1
      <4> QED
        BY <3>1, <3>2, <3>4, <3>6, <4>1, <4>2
    <3>7. CASE s[i].type # "message_end"
      BY <3>1, <3>2, <3>5, <3>7
    <3> QED
      BY <3>6, <3>7
  <2>2. CASE ~(i <= ls)
    <3> DEFINE k == i - ls
    <3>1. /\ k \in 1..lt /\ k \in 0..lt /\ k - 1 \in 0..lt /\ u[i] = t[k]
          /\ i = ls + k /\ i - 1 = ls + (k - 1)
      <4>1. i \in 1..lu /\ i \notin 1..ls
        BY <2>2
      <4>2. k \in 1..lt /\ k \in 0..lt /\ k - 1 \in 0..lt /\ i = ls + k /\ i - 1 = ls + (k - 1)
        BY <1>5, <1>a, <2>2
      <4> QED
        BY <1>b, <4>1, <4>2
    <3> HIDE DEF k
    <3>2. b[i] = lv + d[k] /\ b[i - 1] = lv + d[k - 1]
      BY <1>7, <3>1
    <3>3. d[k - 1] \in Nat /\ d[k] \in Nat /\ d[k] <= lw
      BY <1>7, <3>1
    <3>4. IF t[k].type = "message_end"
          THEN d[k] = d[k - 1] + 1 /\ w[d[k]] = t[k].message
          ELSE d[k] = d[k - 1]
      BY <1>2, <3>1
    <3>5. CASE t[k].type = "message_end"
      <4>1. d[k] = d[k - 1] + 1 /\ w[d[k]] = t[k].message
        BY <3>4, <3>5
      <4>a. lv \in Nat /\ lw \in Nat /\ d[k - 1] \in Nat /\ d[k] \in Nat /\ d[k] = d[k - 1] + 1
        BY <1>5, <3>3, <4>1
      <4>b. d[k] # 0 /\ lv + d[k] = (lv + d[k - 1]) + 1
        <5> DEFINE p == d[k]
                   q == d[k - 1]
        <5>1. lv \in Nat /\ p \in Nat /\ q \in Nat /\ p = q + 1
          BY <4>a
        <5> HIDE DEF p, q, lv
        <5>2. p # 0 /\ lv + p = (lv + q) + 1
          BY <5>1
        <5> QED
          BY <5>2 DEF p, q
      <4>c. lv + d[k] \in 1..lv + lw /\ lv + d[k] \notin 1..lv /\ (lv + d[k]) - lv = d[k]
        BY Counting, <3>3, <4>a, <4>b
      <4>2. lv + d[k] \in 1..lx /\ lv + d[k] \notin 1..lv /\ (lv + d[k]) - lv = d[k]
        BY <1>a, <4>c
      <4>3. x[lv + d[k]] = w[d[k]]
        BY <1>b, <4>2
      <4>4. b[i] = b[i - 1] + 1
        BY <3>2, <4>b
      <4> QED
        BY <3>1, <3>2, <3>5, <4>1, <4>3, <4>4
    <3>6. CASE t[k].type # "message_end"
      BY <3>1, <3>2, <3>4, <3>6
    <3> QED
      BY <3>5, <3>6
  <2> QED
    BY <2>1, <2>2
<1>13. \A p \in 1..lm : x[p] = ms[p]
  <2> SUFFICES ASSUME NEW p \in 1..lm PROVE x[p] = ms[p]
    OBVIOUS
  <2>1. lm <= lv
    <3>1. 0 \in 0..ls
      BY <1>5
    <3> QED
      BY <1>1, <1>6, <3>1
  <2>2. x[p] = v[p]
    <3>1. p \in 1..lv /\ p \in 1..lx
      BY <1>5, <1>a, <2>1
    <3> QED
      BY <1>b, <3>1
  <2> QED
    BY <1>1, <2>2
<1>14. Catches(ms, u, x)
  BY <1>8, <1>9, <1>11, <1>12, <1>13 DEF Catches, ls, lt, lv, lw, lm, lu, lx
<1> QED
  BY <1>14 DEF u, x

\* Taking an event does not change what the consumer will have.
LEMMA CatchesConsume ==
  ASSUME NEW ms \in Seq(Messages), NEW s \in Seq(Events), s # <<>>, NEW v \in Seq(Messages),
         Catches(ms, s, v)
  PROVE  Catches(IF Head(s).type = "message_end" THEN Append(ms, Head(s).message) ELSE ms,
                 Tail(s), v)
<1>1. PICK c \in [0..Len(s) -> Nat] :
        /\ c[0] = Len(ms) /\ c[Len(s)] = Len(v)
        /\ \A i, j \in 0..Len(s) : i <= j => c[i] <= c[j]
        /\ \A i \in 1..Len(s) : IF s[i].type = "message_end"
                                THEN c[i] = c[i - 1] + 1 /\ v[c[i]] = s[i].message
                                ELSE c[i] = c[i - 1]
        /\ \A p \in 1..Len(ms) : v[p] = ms[p]
  BY DEF Catches
<1> DEFINE t == Tail(s)
           ns == IF Head(s).type = "message_end" THEN Append(ms, Head(s).message) ELSE ms
           d == [i \in 0..Len(t) |-> c[i + 1]]
<1>2. /\ Head(s) = s[1] /\ t \in Seq(Events) /\ Len(t) = Len(s) - 1
      /\ \A i \in 1..Len(t) : t[i] = s[i + 1]
  BY HeadTailProperties
<1>3. Len(s) \in Nat \ {0} /\ Len(ms) \in Nat /\ Len(t) \in Nat
  BY <1>2
<1> HIDE DEF t
<1>4. \A i \in 0..Len(t) : i + 1 \in 0..Len(s) /\ i + 1 \in 1..Len(s) /\ d[i] = c[i + 1]
  BY <1>2, <1>3
<1>5. d \in [0..Len(t) -> Nat]
  BY <1>2, <1>3
<1> HIDE DEF d
<1>6. Len(ns) = c[1] /\ \A p \in 1..Len(ns) : v[p] = ns[p]
  <2>1. 1 \in 1..Len(s) /\ 1 - 1 = 0
    BY <1>3
  <2>2. CASE s[1].type = "message_end"
    <3>1. c[1] = Len(ms) + 1 /\ v[Len(ms) + 1] = s[1].message
      BY <1>1, <1>3, <2>1, <2>2
    <3>2. ns = Append(ms, s[1].message)
      BY <1>2, <2>2
    <3>3. s[1].message \in Messages
      <4>1. s[1] \in Events
        BY <2>1
      <4> QED
        BY <4>1 DEF Events
    <3>4. /\ Len(ns) = Len(ms) + 1 /\ ns[Len(ms) + 1] = s[1].message
          /\ \A p \in 1..Len(ms) : ns[p] = ms[p]
      BY <3>2, <3>3, AppendProperties
    <3>5. \A p \in 1..Len(ns) : p \in 1..Len(ms) \/ p = Len(ms) + 1
      BY <1>3, <3>4
    <3> QED
      BY <1>1, <3>1, <3>4, <3>5
  <2>3. CASE s[1].type # "message_end"
    BY <1>1, <1>2, <2>1, <2>3
  <2> QED
    BY <2>2, <2>3
<1> HIDE DEF ns
<1>7. d[0] = Len(ns) /\ d[Len(t)] = Len(v)
  <2>1. d[0] = c[1] /\ d[Len(t)] = c[Len(s)]
    BY <1>2, <1>3, <1>4
  <2> QED
    BY <1>1, <1>6, <2>1
<1>8. \A i, j \in 0..Len(t) : i <= j => d[i] <= d[j]
  BY <1>1, <1>3, <1>4
<1>9. ASSUME NEW i \in 1..Len(t)
      PROVE  IF t[i].type = "message_end" THEN d[i] = d[i - 1] + 1 /\ v[d[i]] = t[i].message
             ELSE d[i] = d[i - 1]
  <2>1. /\ i \in 0..Len(t) /\ i - 1 \in 0..Len(t) /\ (i - 1) + 1 = i /\ (i + 1) - 1 = i
        /\ i + 1 \in 1..Len(s) /\ t[i] = s[i + 1]
    BY <1>2, <1>3
  <2>2. d[i] = c[i + 1] /\ d[i - 1] = c[i]
    BY <1>4, <2>1
  <2>3. IF s[i + 1].type = "message_end"
        THEN c[i + 1] = c[(i + 1) - 1] + 1 /\ v[c[i + 1]] = s[i + 1].message
        ELSE c[i + 1] = c[(i + 1) - 1]
    BY <1>1, <2>1
  <2> QED
    BY <2>1, <2>2, <2>3
<1>10. Catches(ns, t, v)
  BY <1>5, <1>6, <1>7, <1>8, <1>9 DEF Catches
<1> QED
  BY <1>10 DEF ns, t
-----------------------------------------------------------------------------
(* The events the actions add *)

\* The events t are messages ms that ended, besides other events.
Adds(t, ms) == t \in Seq(Events) /\ ms \in Seq(Messages) /\ Catches(<<>>, t, ms)

\* They say nothing of calls.
Silent(t) ==
  \A i \in DOMAIN t : t[i].type \notin {"tool_execution_start", "tool_execution_end"}

\* Events none of which is the end of a message.
LEMMA NoMessages ==
  ASSUME NEW t \in Seq(Events), \A i \in 1..Len(t) : t[i].type # "message_end"
  PROVE  Adds(t, <<>>)
<1> DEFINE c == [i \in 0..Len(t) |-> 0]
<1>1. Len(t) \in Nat /\ Len(<<>>) = 0
  OBVIOUS
<1>2. /\ c \in [0..Len(t) -> Nat] /\ c[0] = 0 /\ c[Len(t)] = 0
      /\ \A i \in 0..Len(t) : c[i] = 0
  BY <1>1
<1>3. \A i \in 1..Len(t) : i \in 0..Len(t) /\ i - 1 \in 0..Len(t)
  BY <1>1
<1> HIDE DEF c
<1>4. \A i \in 1..Len(t) : c[i] = c[i - 1]
  BY <1>2, <1>3
<1>5. \A i, j \in 0..Len(t) : i <= j => c[i] <= c[j]
  BY <1>2
<1>6. Catches(<<>>, t, <<>>)
  BY <1>1, <1>2, <1>4, <1>5 DEF Catches
<1> QED
  BY <1>6 DEF Adds

\* No events.
LEMMA EmptyTail == Adds(<<>>, <<>>) /\ Silent(<<>>)
<1>1. <<>> \in Seq(Events) /\ DOMAIN <<>> = {} /\ Len(<<>>) = 0
  OBVIOUS
<1>2. \A i \in 1..Len(<<>>) : FALSE
  BY <1>1
<1> QED
  BY <1>1, <1>2, NoMessages DEF Silent

\* An event that is not the end of a message.
LEMMA MarkTail ==
  ASSUME NEW type \in EventTypes \ {"message_end"}, NEW call \in Nat
  PROVE  /\ Adds(Mark(type), <<>>) /\ Adds(ToolEvent(type, call), <<>>)
         /\ type \notin {"tool_execution_start", "tool_execution_end"} => Silent(Mark(type))
<1>1. /\ Mark(type) \in Seq(Events) /\ Len(Mark(type)) = 1
      /\ ToolEvent(type, call) \in Seq(Events) /\ Len(ToolEvent(type, call)) = 1
  BY EventType DEF Mark, ToolEvent
<1>2. Mark(type)[1].type = type /\ ToolEvent(type, call)[1].type = type
  BY DEF Mark, ToolEvent, Event
<1>3. DOMAIN Mark(type) = 1..1 /\ \A i \in 1..1 : i = 1
  BY <1>1
<1>4. Adds(Mark(type), <<>>) /\ Adds(ToolEvent(type, call), <<>>)
  BY <1>1, <1>2, <1>3, NoMessages
<1> QED
  BY <1>2, <1>3, <1>4 DEF Silent

\* The ends of the messages ms.
LEMMA MessageTail ==
  ASSUME NEW ms \in Seq(Messages)
  PROVE  Adds(MessageEnds(ms), ms) /\ Silent(MessageEnds(ms))
<1> DEFINE t == MessageEnds(ms)
           n == Len(ms)
           c == [i \in 0..n |-> i]
<1>1. n \in Nat /\ DOMAIN ms = 1..n /\ Len(<<>>) = 0
  OBVIOUS
<1>2. t \in Seq(Events)
  BY MessageEndsType
<1>3. DOMAIN t = 1..n /\ \A i \in 1..n : t[i] = Event("message_end", ms[i], 0)
  BY <1>1 DEF MessageEnds
<1>4. Len(t) = n
  BY <1>1, <1>2, <1>3
<1>5. \A i \in 1..n : t[i].type = "message_end" /\ t[i].message = ms[i]
  BY <1>3 DEF Event
<1>6. c \in [0..n -> Nat] /\ c[0] = 0 /\ c[n] = n /\ \A i \in 0..n : c[i] = i
  BY <1>1
<1> HIDE DEF t, n, c
<1>7. \A i \in 1..n : c[i] = i /\ c[i - 1] = i - 1 /\ c[i] = c[i - 1] + 1
  <2>1. \A i \in 1..n : i \in 0..n /\ i - 1 \in 0..n
    BY <1>1
  <2> QED
    BY <1>6, <2>1
<1>8. \A i, j \in 0..n : i <= j => c[i] <= c[j]
  BY <1>6
<1>9. \A i \in 1..n : ms[c[i]] = t[i].message
  BY <1>5, <1>7
<1>a. Len(ms) = n /\ \A p \in 1..Len(<<>>) : FALSE
  BY <1>1 DEF n
<1>b. \A i \in 1..n : IF t[i].type = "message_end"
                      THEN c[i] = c[i - 1] + 1 /\ ms[c[i]] = t[i].message
                      ELSE c[i] = c[i - 1]
  BY <1>5, <1>7, <1>9
<1>10. Catches(<<>>, t, ms)
  BY <1>1, <1>4, <1>6, <1>8, <1>a, <1>b, Zenon DEF Catches
<1>11. Silent(t)
  BY <1>3, <1>5 DEF Silent
<1> QED
  BY <1>2, <1>10, <1>11 DEF Adds, t

\* Some events and some more.
LEMMA MoreTail ==
  ASSUME NEW t, NEW a, NEW u, NEW b, Adds(t, a), Adds(u, b)
  PROVE  /\ Adds(t \o u, a \o b)
         /\ Silent(t) /\ Silent(u) => Silent(t \o u)
<1>1. /\ t \in Seq(Events) /\ u \in Seq(Events) /\ a \in Seq(Messages) /\ b \in Seq(Messages)
      /\ Catches(<<>>, t, a) /\ Catches(<<>>, u, b) /\ <<>> \in Seq(Messages)
  BY DEF Adds
<1>2. Catches(<<>>, t \o u, a \o b)
  BY <1>1, CatchesMore
<1>3. Adds(t \o u, a \o b)
  BY <1>1, <1>2 DEF Adds
<1>4. ASSUME Silent(t), Silent(u) PROVE Silent(t \o u)
  <2> DEFINE w == t \o u
  <2>1. /\ w \in Seq(Events) /\ Len(w) = Len(t) + Len(u)
        /\ \A i \in 1..Len(t) + Len(u) : w[i] = IF i <= Len(t) THEN t[i] ELSE u[i - Len(t)]
    BY <1>1, ConcatProperties
  <2>2. /\ DOMAIN w = 1..Len(w) /\ DOMAIN t = 1..Len(t) /\ DOMAIN u = 1..Len(u)
        /\ Len(t) \in Nat /\ Len(u) \in Nat
    BY <1>1, <2>1, LenProperties
  <2> HIDE DEF w
  <2>3. ASSUME NEW i \in DOMAIN w
        PROVE  w[i].type \notin {"tool_execution_start", "tool_execution_end"}
    <3>1. CASE i <= Len(t)
      <4>1. i \in DOMAIN t /\ w[i] = t[i]
        BY <2>1, <2>2, <3>1
      <4> QED
        BY <1>4, <4>1 DEF Silent
    <3>2. CASE ~(i <= Len(t))
      <4>1. i - Len(t) \in DOMAIN u /\ w[i] = u[i - Len(t)]
        BY <2>1, <2>2, <3>2
      <4> QED
        BY <1>4, <4>1 DEF Silent
    <3> QED
      BY <3>1, <3>2
  <2>4. Silent(w)
    BY <2>3 DEF Silent
  <2> QED
    BY <2>4 DEF w
<1> QED
  BY <1>3, <1>4

\* Calls that start.
LEMMA StartsTail ==
  ASSUME NEW k \in Nat, NEW n \in Nat
  PROVE  LET t == [i \in 1..n |-> Event("tool_execution_start", NoMessage, k + i - 1)]
         IN  /\ Adds(t, <<>>) /\ Len(t) = n
             /\ \A i \in 1..n : t[i].type = "tool_execution_start" /\ t[i].call = k + i - 1
<1> DEFINE t == [i \in 1..n |-> Event("tool_execution_start", NoMessage, k + i - 1)]
<1>1. \A i \in 1..n : Event("tool_execution_start", NoMessage, k + i - 1) \in Events
  BY EventType DEF EventTypes
<1>2. t \in Seq(Events) /\ Len(t) = n
  BY <1>1
<1>3. \A i \in 1..n : t[i].type = "tool_execution_start" /\ t[i].call = k + i - 1
  BY DEF Event
<1> HIDE DEF t
<1>4. Adds(t, <<>>)
  BY <1>2, <1>3, NoMessages
<1>5. Adds(t, <<>>) /\ Len(t) = n
      /\ \A i \in 1..n : t[i].type = "tool_execution_start" /\ t[i].call = k + i - 1
  BY <1>2, <1>3, <1>4
<1> QED
  BY <1>5 DEF t
\* Dividing by three, which the events of a skipped call are.
LEMMA Thirds ==
  /\ \A i \in Nat \ {0} : /\ (i - 1) \div 3 \in Nat /\ (i - 1) % 3 \in 0..2
                          /\ i - 1 = (3 * ((i - 1) \div 3)) + ((i - 1) % 3)
                          /\ (i - 1) % 3 = 2 => i \div 3 = (i - 1) \div 3 + 1
                          /\ (i - 1) % 3 # 2 => i \div 3 = (i - 1) \div 3
  /\ \A n \in Nat : (3 * n) \div 3 = n
  /\ \A i, n \in Nat : i <= 3 * n => i \div 3 \in Nat /\ i \div 3 <= n
  /\ \A i, j \in Nat : i <= j => i \div 3 <= j \div 3
  /\ 0 \div 3 = 0
OBVIOUS

\* The three events of a skipped call.
LEMMA SkipEventsAt ==
  ASSUME NEW k \in Nat, called \in Seq(Seq(CallKinds))
  PROVE  /\ SkipEvents(k)[1].type = "tool_execution_start" /\ SkipEvents(k)[1].call = k
         /\ SkipEvents(k)[2].type = "tool_execution_end" /\ SkipEvents(k)[2].call = k
         /\ SkipEvents(k)[3].type = "message_end"
         /\ SkipEvents(k)[3].message = Result("skipped", k)
<1> DEFINE m == Result("skipped", k)
           x == ToolEvent("tool_execution_start", k)
           y == ToolEvent("tool_execution_end", k)
           z == MessageEnds(<<m>>)
<1>1. m \in Messages
  BY MessageType DEF Result, MessageKinds
<1>2. z \in Seq(Events) /\ Len(z) = 1
  BY <1>1, MessageEndType
<1>3. z[1].type = "message_end" /\ z[1].message = m
  <2> DEFINE ms == <<m>>
  <2>1. DOMAIN ms = 1..1 /\ ms[1] = m
    BY <1>1
  <2> HIDE DEF ms
  <2>2. MessageEnds(ms)[1] = Event("message_end", m, 0)
    BY <2>1 DEF MessageEnds
  <2> QED
    BY <2>2 DEF Event, ms
<1>4. /\ x \in Seq(Events) /\ Len(x) = 1 /\ x[1].type = "tool_execution_start" /\ x[1].call = k
      /\ y \in Seq(Events) /\ Len(y) = 1 /\ y[1].type = "tool_execution_end" /\ y[1].call = k
  <2>1. x \in Seq(Events) /\ y \in Seq(Events)
    BY EventType DEF EventTypes
  <2> QED
    BY <2>1 DEF ToolEvent, Event
<1>5. SkipEvents(k) = (x \o y) \o z
  BY DEF SkipEvents
<1> HIDE DEF x, y, z, m
<1>6. /\ x \o y \in Seq(Events) /\ Len(x \o y) = 2
      /\ (x \o y)[1] = x[1] /\ (x \o y)[2] = y[1]
  <2>1. /\ x \o y \in Seq(Events) /\ Len(x \o y) = Len(x) + Len(y)
        /\ \A i \in 1..Len(x) : (x \o y)[i] = x[i]
        /\ \A i \in 1..Len(y) : (x \o y)[Len(x) + i] = y[i]
    BY <1>4, ConcatAt
  <2> QED
    BY <1>4, <2>1
<1> DEFINE w == x \o y
<1>7. w \in Seq(Events) /\ Len(w) = 2 /\ w[1] = x[1] /\ w[2] = y[1]
  BY <1>6
<1>8. SkipEvents(k) = w \o z
  BY <1>5
<1> HIDE DEF w
<1>9. (w \o z)[1] = w[1] /\ (w \o z)[2] = w[2] /\ (w \o z)[3] = z[1]
  <2>a. w \in Seq(Events) /\ z \in Seq(Events)
    BY <1>2, <1>7
  <2>1. /\ \A i \in 1..Len(w) : (w \o z)[i] = w[i]
        /\ \A i \in 1..Len(z) : (w \o z)[Len(w) + i] = z[i]
    BY <2>a, ConcatAt
  <2>2. Len(w) = 2 /\ Len(z) = 1 /\ 1 \in 1..2 /\ 2 \in 1..2 /\ 1 \in 1..1 /\ 2 + 1 = 3
    BY <1>2, <1>7
  <2> QED
    BY <2>1, <2>2
<1> QED
  BY <1>3, <1>4, <1>7, <1>8, <1>9 DEF m

\* The events of n skipped calls after the first ones.
LEMMA SkipTail ==
  ASSUME NEW first \in Nat, NEW n \in Nat, called \in Seq(Seq(CallKinds))
  PROVE  LET t == [i \in 1..(3 * n) |->
                     SkipEvents(first + 1 + ((i - 1) \div 3))[1 + ((i - 1) % 3)]]
         IN  /\ Adds(t, Results("skipped", first + 1, first + n))
             /\ Len(t) = 3 * n
             /\ \A i \in 1..(3 * n) :
                  /\ (i - 1) % 3 # 2 => t[i].call = first + 1 + ((i - 1) \div 3)
                  /\ (i - 1) % 3 = 1 => t[i].type = "tool_execution_end"
                  /\ (i - 1) % 3 = 2 => t[i].type = "message_end"
<1> DEFINE C(i) == first + 1 + ((i - 1) \div 3)
           t == [i \in 1..(3 * n) |-> SkipEvents(C(i))[1 + ((i - 1) % 3)]]
           N == 3 * n
           rs == Results("skipped", first + 1, first + n)
           c == [i \in 0..N |-> i \div 3]
<1>1. t \in Seq(Events)
  BY SkipStreamType
<1>2. N \in Nat /\ t = [i \in 1..N |-> SkipEvents(C(i))[1 + ((i - 1) % 3)]]
  OBVIOUS
<1>3. DOMAIN t = 1..N /\ \A i \in 1..N : t[i] = SkipEvents(C(i))[1 + ((i - 1) % 3)]
  BY <1>2
<1>4. \A i \in 1..N : i \in Nat \ {0} /\ i \in 0..N /\ i - 1 \in 0..N /\ i \in Nat /\ i - 1 \in Nat
  BY <1>2
<1>5. \A i \in 1..N : C(i) \in Nat
  BY <1>4, Thirds
<1>6. \A i \in 0..N : i \in Nat /\ i <= N
  BY <1>2
<1>7. rs \in Seq(Messages) /\ Len(rs) = n /\ \A p \in 1..n : rs[p] = Result("skipped", first + p)
  <2> DEFINE a == first + 1
             b == first + n
  <2>1. a \in Nat /\ b \in Nat /\ a <= b + 1 /\ b - a + 1 = n
        /\ \A p \in 1..n : a + p - 1 = first + p
    OBVIOUS
  <2> HIDE DEF a, b
  <2>2. /\ Results("skipped", a, b) \in Seq(Messages)
        /\ Len(Results("skipped", a, b)) = n
        /\ \A p \in 1..n : Results("skipped", a, b)[p] = Message("skipped", Len(called), a + p - 1)
    BY <2>1, ResultsType
  <2> QED
    BY <2>1, <2>2 DEF a, b, Result
<1>8. ASSUME NEW i \in 1..N
      PROVE  /\ (i - 1) % 3 # 2 => t[i].type # "message_end" /\ t[i].call = C(i)
             /\ (i - 1) % 3 = 1 => t[i].type = "tool_execution_end"
             /\ (i - 1) % 3 = 2 => t[i].type = "message_end" /\ t[i].message = Result("skipped", C(i))
  <2>1. (i - 1) % 3 \in 0..2
    BY <1>4, Thirds
  <2>2. (i - 1) % 3 = 0 \/ (i - 1) % 3 = 1 \/ (i - 1) % 3 = 2
    BY <2>1
  <2>3. t[i] = SkipEvents(C(i))[1 + ((i - 1) % 3)] /\ C(i) \in Nat
    BY <1>3, <1>5
  <2> DEFINE k == C(i)
             r == (i - 1) % 3
  <2>4. k \in Nat /\ t[i] = SkipEvents(k)[1 + r] /\ (r = 0 \/ r = 1 \/ r = 2)
    BY <2>2, <2>3
  <2> HIDE DEF k, r, t
  <2>5. /\ r # 2 => t[i].type # "message_end" /\ t[i].call = k
        /\ r = 1 => t[i].type = "tool_execution_end"
        /\ r = 2 => t[i].type = "message_end" /\ t[i].message = Result("skipped", k)
    <3>1. CASE r = 0
      BY <2>4, <3>1, SkipEventsAt
    <3>2. CASE r = 1
      BY <2>4, <3>2, SkipEventsAt
    <3>3. CASE r = 2
      BY <2>4, <3>3, SkipEventsAt
    <3> QED
      BY <2>4, <3>1, <3>2, <3>3
  <2> QED
    BY <2>5 DEF k, r
<1>9. Len(t) = N
  BY <1>1, <1>2, <1>3
<1>10. /\ c \in [0..N -> Nat] /\ c[0] = 0 /\ c[N] = n
       /\ \A i \in 0..N : c[i] = i \div 3
  <2>1. 0 \in 0..N /\ N \in 0..N
    BY <1>2
  <2>2. \A i \in 0..N : i \div 3 \in Nat
    BY <1>6, Thirds
  <2>3. \A i \in 0..N : c[i] = i \div 3
    OBVIOUS
  <2>4. N \div 3 = n
    BY Thirds
  <2> QED
    BY <2>1, <2>2, <2>3, <2>4, Thirds
<1> HIDE DEF c, t, rs
<1>11. \A i, j \in 0..N : i <= j => c[i] <= c[j]
  <2> HIDE DEF N
  <2> QED
    BY <1>6, <1>10, Thirds
<1>12. ASSUME NEW i \in 1..N
       PROVE  IF t[i].type = "message_end" THEN c[i] = c[i - 1] + 1 /\ rs[c[i]] = t[i].message
              ELSE c[i] = c[i - 1]
  <2>1. c[i] = i \div 3 /\ c[i - 1] = (i - 1) \div 3
    BY <1>4, <1>10
  <2>2. CASE (i - 1) % 3 = 2
    <3>1. c[i] = c[i - 1] + 1
      BY <1>4, <2>1, <2>2, Thirds
    <3>2. c[i] \in 1..n /\ first + c[i] = C(i)
      <4>a. \A q \in Nat : first + (q + 1) = first + 1 + q
        OBVIOUS
      <4>1. c[i - 1] \in Nat /\ c[i] <= n
        BY <1>4, <1>6, <2>1, Thirds
      <4>2. c[i] \in 1..n
        BY <3>1, <4>1
      <4>3. first + (c[i - 1] + 1) = first + 1 + c[i - 1]
        BY <4>1, <4>a
      <4> QED
        BY <2>1, <3>1, <4>2, <4>3
    <3> HIDE DEF C
    <3>3. rs[c[i]] = t[i].message
      BY <1>7, <1>8, <2>2, <3>2
    <3>4. t[i].type = "message_end"
      BY <1>8, <2>2
    <3> QED
      BY <3>1, <3>3, <3>4
  <2>3. CASE (i - 1) % 3 # 2
    <3>1. c[i] = c[i - 1]
      BY <1>4, <2>1, <2>3, Thirds
    <3>2. t[i].type # "message_end"
      BY <1>8, <2>3
    <3> QED
      BY <3>1, <3>2
  <2> QED
    BY <2>2, <2>3
<1>13. Adds(t, rs)
  <2>1. Len(<<>>) = 0 /\ \A p \in 1..Len(<<>>) : FALSE
    OBVIOUS
  <2> HIDE DEF N, C
  <2>2. Catches(<<>>, t, rs)
    BY <1>7, <1>9, <1>10, <1>11, <1>12, <2>1, Zenon DEF Catches
  <2> QED
    BY <1>1, <1>7, <2>2 DEF Adds
<1>14. \A i \in 1..N : /\ (i - 1) % 3 # 2 => t[i].call = C(i)
                       /\ (i - 1) % 3 = 1 => t[i].type = "tool_execution_end"
                       /\ (i - 1) % 3 = 2 => t[i].type = "message_end"
  BY <1>8
<1> QED
  BY <1>9, <1>13, <1>14 DEF t, rs
\* The types of the variables that the steps below read.
LEMMA ContextTypes ==
  ASSUME IInv
  PROVE  /\ messages \in Seq(Messages) /\ context \in Seq(Messages) /\ pending \in Seq(Messages)
         /\ results \in Seq(Messages) /\ stream \in Seq(Events)
         /\ called \in Seq(Seq(CallKinds)) /\ Len(called) \in Nat
         /\ calls \in Seq(CallKinds) /\ Len(calls) \in Nat
         /\ pendingToolCalls \in SUBSET Nat
         /\ processedCount \in Nat /\ launched \in Nat
         /\ processedCount <= launched /\ launched <= Len(calls)
         /\ running \subseteq (processedCount + 1)..launched
         /\ running \subseteq 1..launched /\ running \in SUBSET Nat
         /\ pc # "tools" => running = {}
BY SMTT(20), ZenonT(20) DEF IInv, TypeOK, GroupRuns, Events

\* A run starts with the ends of its prompts.
LEMMA StartTail ==
  ASSUME NEW prompts \in Seq(Messages), StartRun(prompts)
  PROVE  Adds(stream', prompts) /\ Silent(stream')
<1> DEFINE a == Mark("agent_start")
           b == Mark("turn_start")
           e == MessageEnds(prompts)
<1>1. Adds(a, <<>>) /\ Silent(a) /\ Adds(b, <<>>) /\ Silent(b)
  BY MarkTail, 0 \in Nat DEF EventTypes
<1>2. Adds(e, prompts) /\ Silent(e)
  BY MessageTail
<1>3. stream' = (a \o b) \o e
  BY DEF StartRun
<1> HIDE DEF a, b, e
<1>4. <<>> \o <<>> = <<>> /\ <<>> \o prompts = prompts
  <2>1. <<>> \in Seq(Messages)
    OBVIOUS
  <2> QED
    BY <2>1, ConcatEmptySeq
<1>5. Adds(a \o b, <<>> \o <<>>) /\ Silent(a \o b)
  BY <1>1, MoreTail
<1>6. Adds(a \o b, <<>>)
  BY <1>4, <1>5
<1> DEFINE ab == a \o b
<1>7. Adds(ab, <<>>) /\ Silent(ab) /\ stream' = ab \o e
  BY <1>3, <1>5, <1>6
<1> HIDE DEF ab
<1>8. Adds(ab \o e, <<>> \o prompts) /\ Silent(ab \o e)
  BY <1>2, <1>7, MoreTail
<1> QED
  BY <1>4, <1>7, <1>8

\* Two events or more are added as one piece.
LEMMA AddTwo ==
  ASSUME NEW s \in Seq(Events), NEW t, NEW a, NEW u, NEW b, Adds(t, a), Adds(u, b)
  PROVE  (s \o t) \o u = s \o (t \o u)
<1>1. t \in Seq(Events) /\ u \in Seq(Events)
  BY DEF Adds
<1> QED
  BY <1>1, ConcatAssociative

\* A turn begins with the messages that were pending.
LEMMA BeginTail ==
  ASSUME IInv, BeginTurn
  PROVE  \E t : stream' = stream \o t /\ Adds(t, pending) /\ Silent(t)
<1> DEFINE m == IF firstTurn THEN <<>> ELSE Mark("turn_start")
           e == MessageEnds(pending)
<1>1. pending \in Seq(Messages) /\ stream \in Seq(Events)
  BY ContextTypes
<1>2. Adds(m, <<>>) /\ Silent(m)
  <2>1. Adds(Mark("turn_start"), <<>>) /\ Silent(Mark("turn_start"))
    BY MarkTail, 0 \in Nat DEF EventTypes
  <2> QED
    BY <2>1, EmptyTail
<1>3. Adds(e, pending) /\ Silent(e)
  BY <1>1, MessageTail
<1>4. stream' = (stream \o m) \o e
  BY DEF BeginTurn
<1> HIDE DEF m, e
<1>5. stream' = stream \o (m \o e)
  BY <1>1, <1>2, <1>3, <1>4, AddTwo
<1>6. Adds(m \o e, <<>> \o pending) /\ Silent(m \o e)
  BY <1>2, <1>3, MoreTail
<1>7. <<>> \o pending = pending
  BY <1>1, ConcatEmptySeq
<1> QED
  BY <1>5, <1>6, <1>7

\* Turns and runs end with marks.
LEMMA EndTail ==
  ASSUME IInv, EndRun \/ StopOnFailure \/ FinishTurnWithoutTools \/ FinishTurnWithTools
  PROVE  \E t : stream' = stream \o t /\ Adds(t, <<>>) /\ Silent(t)
<1> DEFINE a == Mark("turn_end")
           b == Mark("agent_end")
<1>1. stream \in Seq(Events)
  BY ContextTypes
<1>2. Adds(a, <<>>) /\ Silent(a) /\ Adds(b, <<>>) /\ Silent(b)
  BY MarkTail, 0 \in Nat DEF EventTypes
<1>3. \/ stream' = stream \o b
      \/ stream' = stream \o a
      \/ stream' = (stream \o a) \o b
  BY DEF EndRun, StopOnFailure, FinishTurnWithoutTools, FinishTurnWithTools
<1> HIDE DEF a, b
<1>4. (stream \o a) \o b = stream \o (a \o b)
  BY <1>1, <1>2, AddTwo
<1>5. Adds(a \o b, <<>>) /\ Silent(a \o b)
  <2>1. Adds(a \o b, <<>> \o <<>>) /\ Silent(a \o b)
    BY <1>2, MoreTail
  <2>2. <<>> \in Seq(Messages)
    OBVIOUS
  <2>3. <<>> \o <<>> = <<>>
    BY <2>2, ConcatEmptySeq
  <2> QED
    BY <2>1, <2>3
<1> QED
  BY <1>2, <1>3, <1>4, <1>5

\* A reply is one message.
LEMMA ReplyTail ==
  ASSUME IInv, NEW kind, NEW cs, Reply(kind, cs)
  PROVE  LET message == Message(kind, Len(called) + 1, 0)
         IN  /\ message \in Messages /\ context' = Append(context, message)
             /\ \E t : stream' = stream \o t /\ Adds(t, <<message>>) /\ Silent(t)
<1> DEFINE message == Message(kind, Len(called) + 1, 0)
           ms == <<message>>
<1>1. Len(called) + 1 \in Nat /\ kind \in MessageKinds
  BY ContextTypes DEF Reply, MessageKinds
<1>2. message \in Messages
  BY <1>1, MessageType
<1>3. ms \in Seq(Messages)
  BY <1>2
<1>4. stream' = stream \o MessageEnds(ms) /\ context' = Append(context, message)
  BY DEF Reply
<1> HIDE DEF ms
<1>5. Adds(MessageEnds(ms), ms) /\ Silent(MessageEnds(ms))
  BY <1>3, MessageTail
<1> QED
  BY <1>2, <1>4, <1>5 DEF ms
\* Each call that is launched starts once.
LEMMA LaunchTail ==
  ASSUME IInv, NEW k \in 1..Len(calls), Launch(k)
  PROVE  /\ running' = k..launched' /\ launched' \in k..Len(calls)
         /\ \E t \in Seq(Events) :
              /\ stream' = stream \o t /\ Adds(t, <<>>)
              /\ Len(t) = launched' - k + 1
              /\ \A i \in 1..Len(t) : t[i].type = "tool_execution_start" /\ t[i].call = k + i - 1
<1> DEFINE e == LaunchEnd(calls, k)
           n == e - k + 1
           t == [i \in 1..n |-> Event("tool_execution_start", NoMessage, k + i - 1)]
<1>1. calls \in Seq(CallKinds) /\ Len(calls) \in Nat
  BY ContextTypes
<1>2. e \in k..Len(calls)
  BY <1>1, LaunchEndType
<1>3. running' = k..e /\ launched' = e /\ stream' = stream \o t
  BY DEF Launch
<1> HIDE DEF e
<1>4. n \in Nat /\ k \in Nat
  BY <1>1, <1>2
<1> HIDE DEF n
<1>5. /\ Adds(t, <<>>) /\ Len(t) = n
      /\ \A i \in 1..n : t[i].type = "tool_execution_start" /\ t[i].call = k + i - 1
  BY <1>4, StartsTail
<1> HIDE DEF t
<1>6. t \in Seq(Events)
  BY <1>5 DEF Adds
<1>7. Len(t) = launched' - k + 1
  BY <1>3, <1>5 DEF n
<1> QED
  BY <1>2, <1>3, <1>5, <1>6, <1>7

\* A call that returns ends with its result; another call may start.
LEMMA CompleteTail ==
  ASSUME IInv, NEW k \in Nat, CompleteTool(k)
  PROVE  /\ k \in running /\ Result("result", k) \in Messages
         /\ \E t \in Seq(Events) :
              /\ stream' = stream \o t /\ Adds(t, <<Result("result", k)>>)
              /\ t[1].type = "tool_execution_end" /\ t[1].call = k
              /\ t[2].type = "message_end"
              /\ \/ Len(t) = 2 /\ running' = running \ {k} /\ launched' = launched
                 \/ /\ Len(t) = 3 /\ running' = (running \ {k}) \union {launched + 1}
                    /\ launched' = launched + 1
                    /\ t[3].type = "tool_execution_start" /\ t[3].call = launched + 1
<1> DEFINE m == Result("result", k)
           ms == <<m>>
           a == ToolEvent("tool_execution_end", k)
           b == MessageEnds(ms)
           c == ToolEvent("tool_execution_start", launched + 1)
<1>1. /\ k \in running
      /\ \/ /\ running' = (running \ {k}) \union {launched + 1} /\ launched' = launched + 1
            /\ stream' = (stream \o (a \o b)) \o c
         \/ running' = running \ {k} /\ launched' = launched /\ stream' = stream \o (a \o b)
  BY DEF CompleteTool
<1>2. stream \in Seq(Events) /\ launched + 1 \in Nat /\ Len(called) \in Nat
  BY ContextTypes
<1>3. m \in Messages
  BY <1>2, MessageType DEF Result, MessageKinds
<1>4. ms \in Seq(Messages) /\ Len(ms) = 1 /\ DOMAIN ms = 1..1 /\ ms[1] = m
  BY <1>3
<1> HIDE DEF ms, m
<1>5. Adds(a, <<>>) /\ Adds(c, <<>>)
  BY <1>2, MarkTail DEF EventTypes
<1>6. Adds(b, ms)
  BY <1>4, MessageTail
<1>7. /\ Len(a) = 1 /\ a[1].type = "tool_execution_end" /\ a[1].call = k
      /\ Len(c) = 1 /\ c[1].type = "tool_execution_start" /\ c[1].call = launched + 1
  BY DEF ToolEvent, Event
<1>8. Len(b) = 1 /\ b[1].type = "message_end"
  <2>1. Len(b) = 1
    <3>1. Len(MessageEnds(<<m>>)) = 1
      BY <1>3, MessageEndType
    <3> QED
      BY <3>1 DEF ms
  <2>2. b[1] = Event("message_end", m, 0)
    BY <1>4 DEF MessageEnds
  <2> QED
    BY <2>1, <2>2 DEF Event
<1> HIDE DEF a, b, c
<1> DEFINE ab == a \o b
<1>9. /\ ab \in Seq(Events) /\ Len(ab) = 2 /\ ab[1] = a[1] /\ ab[2] = b[1]
      /\ Adds(ab, ms)
  <2>1. a \in Seq(Events) /\ b \in Seq(Events)
    BY <1>5, <1>6 DEF Adds
  <2>2. /\ a \o b \in Seq(Events) /\ Len(a \o b) = Len(a) + Len(b)
        /\ \A i \in 1..Len(a) : (a \o b)[i] = a[i]
        /\ \A i \in 1..Len(b) : (a \o b)[Len(a) + i] = b[i]
    BY <2>1, ConcatAt
  <2>3. Adds(a \o b, <<>> \o ms)
    BY <1>5, <1>6, MoreTail
  <2>4. <<>> \o ms = ms
    BY <1>4, ConcatEmptySeq
  <2>5. 1 \in 1..1 /\ 1 + 1 = 2
    OBVIOUS
  <2> QED
    BY <1>7, <1>8, <2>2, <2>3, <2>4, <2>5
<1>10. \/ /\ running' = (running \ {k}) \union {launched + 1} /\ launched' = launched + 1
          /\ stream' = (stream \o ab) \o c
       \/ running' = running \ {k} /\ launched' = launched /\ stream' = stream \o ab
  BY <1>1
<1> HIDE DEF ab
<1>11. (stream \o ab) \o c = stream \o (ab \o c)
  <2>1. stream \in Seq(Events) /\ Adds(ab, ms) /\ Adds(c, <<>>)
    BY <1>2, <1>5, <1>9
  <2> QED
    BY <2>1, AddTwo
<1> DEFINE abc == ab \o c
<1>12. /\ abc \in Seq(Events) /\ Len(abc) = 3
       /\ abc[1] = ab[1] /\ abc[2] = ab[2] /\ abc[3] = c[1]
       /\ Adds(abc, ms)
  <2>1. c \in Seq(Events) /\ ab \in Seq(Events)
    BY <1>5, <1>9 DEF Adds
  <2>2. /\ ab \o c \in Seq(Events) /\ Len(ab \o c) = Len(ab) + Len(c)
        /\ \A i \in 1..Len(ab) : (ab \o c)[i] = ab[i]
        /\ \A i \in 1..Len(c) : (ab \o c)[Len(ab) + i] = c[i]
    BY <2>1, ConcatAt
  <2>3. Adds(ab \o c, ms \o <<>>)
    BY <1>5, <1>9, MoreTail
  <2>4. ms \o <<>> = ms
    BY <1>4, ConcatEmptySeq
  <2>5. 1 \in 1..1 /\ 1 \in 1..2 /\ 2 \in 1..2 /\ 2 + 1 = 3
    OBVIOUS
  <2> QED
    BY <1>7, <1>9, <2>2, <2>3, <2>4, <2>5
<1> HIDE DEF abc
<1>13. \/ /\ running' = (running \ {k}) \union {launched + 1} /\ launched' = launched + 1
          /\ stream' = stream \o abc
       \/ running' = running \ {k} /\ launched' = launched /\ stream' = stream \o ab
  BY <1>10, <1>11 DEF abc
<1>14. \E t \in Seq(Events) :
         /\ stream' = stream \o t /\ Adds(t, ms)
         /\ t[1].type = "tool_execution_end" /\ t[1].call = k
         /\ t[2].type = "message_end"
         /\ \/ Len(t) = 2 /\ running' = running \ {k} /\ launched' = launched
            \/ /\ Len(t) = 3 /\ running' = (running \ {k}) \union {launched + 1}
               /\ launched' = launched + 1
               /\ t[3].type = "tool_execution_start" /\ t[3].call = launched + 1
  <2>1. CASE stream' = stream \o ab /\ running' = running \ {k} /\ launched' = launched
    BY <1>7, <1>8, <1>9, <2>1
  <2>2. CASE /\ running' = (running \ {k}) \union {launched + 1} /\ launched' = launched + 1
             /\ stream' = stream \o abc
    BY <1>7, <1>8, <1>9, <1>12, <2>2
  <2> QED
    BY <1>13, <2>1, <2>2
<1> QED
  BY <1>1, <1>3, <1>14 DEF ms, m

-----------------------------------------------------------------------------
(* The stream tells which calls execute *)

\* Events that say nothing of calls, in a phase other than idle.
LEMMA StreamQuiet ==
  ASSUME StreamInv, stream \in Seq(Events), NEW t \in Seq(Events), Silent(t),
         stream' = stream \o t, pendingToolCalls' = pendingToolCalls, running' = running,
         pc' # "idle"
  PROVE  StreamInv'
<1>1. \A k \in Nat : \A i \in DOMAIN t : ~About(t, i, k)
  BY DEF Silent, About
<1>2. \A k \in Nat : Executing(stream \o t, pendingToolCalls, k) <=> Executing(stream, pendingToolCalls, k)
  BY <1>1, SilentTail
<1>3. \A k \in Nat : Executing(stream', pendingToolCalls', k) <=> k \in running'
  BY <1>2 DEF StreamInv
<1>4. StreamInv' <=> /\ pc' = "idle" => stream' = <<>>
                     /\ \A k \in Nat : Executing(stream', pendingToolCalls', k) <=> k \in running'
  BY DEF StreamInv, Executing, About
<1> QED
  BY <1>3, <1>4

\* The place of call c in a list of the calls from k to e.
LEMMA Position ==
  \A k, e, c \in Nat :
    /\ c \in k..e => c - k + 1 \in 1..(e - k + 1) /\ k + (c - k + 1) - 1 = c
    /\ c \notin k..e => \A i \in 1..(e - k + 1) : k + i - 1 # c
OBVIOUS

\* Starting the calls of a group.
LEMMA StreamLaunch ==
  ASSUME IInv, StreamInv, NEW k \in 1..Len(calls), Launch(k), running = {},
         pendingToolCalls' = pendingToolCalls
  PROVE  StreamInv'
<1>1. /\ running' = k..launched' /\ launched' \in k..Len(calls) /\ Len(calls) \in Nat
      /\ stream \in Seq(Events) /\ pc' = "tools"
  BY LaunchTail, ContextTypes DEF Launch
<1>2. PICK t \in Seq(Events) :
        /\ stream' = stream \o t /\ Len(t) = launched' - k + 1
        /\ \A i \in 1..Len(t) : t[i].type = "tool_execution_start" /\ t[i].call = k + i - 1
  BY LaunchTail
<1>3. DOMAIN t = 1..Len(t) /\ Len(t) \in Nat
  BY LenProperties
<1>6. k \in Nat /\ launched' \in Nat
  BY <1>1
<1>4. ASSUME NEW c \in Nat
      PROVE  Executing(stream \o t, pendingToolCalls, c) <=> c \in running'
  <2>1. CASE c \in k..launched'
    <3>a. c - k + 1 \in 1..(launched' - k + 1) /\ k + (c - k + 1) - 1 = c
      BY <1>6, <2>1, Position, Zenon
    <3>b. Len(t) = launched' - k + 1
      BY <1>2
    <3>1. c - k + 1 \in 1..Len(t) /\ k + (c - k + 1) - 1 = c
      BY <3>a, <3>b, Zenon
    <3> DEFINE i == c - k + 1
    <3>2. i \in DOMAIN t /\ About(t, i, c) /\ t[i].type = "tool_execution_start"
      BY <1>2, <1>3, <3>1 DEF About
    <3>3. \A j \in i + 1..Len(t) : j \in 1..Len(t) /\ k + j - 1 # c
      BY <1>1, <1>3, <3>1
    <3>4. \A j \in i + 1..Len(t) : ~About(t, j, c)
      BY <1>2, <3>3 DEF About
    <3> HIDE DEF i
    <3>5. Executing(stream \o t, pendingToolCalls, c) <=> t[i].type = "tool_execution_start"
      BY <1>1, <3>2, <3>4, LastDecides
    <3> QED
      BY <1>1, <2>1, <3>2, <3>5
  <2>2. CASE c \notin k..launched'
    <3>1. \A i \in 1..Len(t) : k + i - 1 # c
      BY <1>2, <1>6, <2>2, Position
    <3>2. \A i \in DOMAIN t : ~About(t, i, c)
      BY <1>2, <1>3, <3>1 DEF About
    <3>3. Executing(stream \o t, pendingToolCalls, c) <=> Executing(stream, pendingToolCalls, c)
      BY <1>1, <3>2, SilentTail
    <3>4. ~Executing(stream, pendingToolCalls, c)
      BY DEF StreamInv
    <3> QED
      BY <1>1, <2>2, <3>3, <3>4
  <2> QED
    BY <2>1, <2>2
<1>5. StreamInv' <=> /\ pc' = "idle" => stream' = <<>>
                     /\ \A c \in Nat : Executing(stream', pendingToolCalls', c) <=> c \in running'
  BY DEF StreamInv, Executing, About
<1> QED
  BY <1>1, <1>2, <1>4, <1>5
\* A call returns.
LEMMA StreamComplete ==
  ASSUME IInv, StreamInv, NEW k \in Nat, CompleteTool(k)
  PROVE  StreamInv'
<1>1. /\ stream \in Seq(Events) /\ launched \in Nat /\ k \in running /\ running \subseteq 1..launched
      /\ pendingToolCalls' = pendingToolCalls /\ pc' # "idle"
  BY ContextTypes DEF CompleteTool, agentVars
<1>2. PICK t \in Seq(Events) :
        /\ stream' = stream \o t /\ Adds(t, <<Result("result", k)>>)
        /\ t[1].type = "tool_execution_end" /\ t[1].call = k
        /\ t[2].type = "message_end"
        /\ \/ Len(t) = 2 /\ running' = running \ {k} /\ launched' = launched
           \/ /\ Len(t) = 3 /\ running' = (running \ {k}) \union {launched + 1}
              /\ launched' = launched + 1
              /\ t[3].type = "tool_execution_start" /\ t[3].call = launched + 1
  BY CompleteTail
<1>3. DOMAIN t = 1..Len(t) /\ Len(t) \in {2, 3}
  BY <1>2, LenProperties
<1>4. k # launched + 1 /\ launched + 1 \notin running
  BY <1>1
<1>5. About(t, 1, k) /\ ~About(t, 2, k) /\ \A c : ~About(t, 2, c) /\ (c # k => ~About(t, 1, c))
  BY <1>2 DEF About
<1>6. Len(t) = 3 => /\ About(t, 3, launched + 1)
                    /\ \A c : c # launched + 1 => ~About(t, 3, c)
  BY <1>2 DEF About
<1>7. ASSUME NEW c \in Nat
      PROVE  Executing(stream \o t, pendingToolCalls, c) <=> c \in running'
  <2>1. CASE c = k
    <3>1. 1 \in DOMAIN t /\ \A j \in 1 + 1..Len(t) : j = 2 \/ (j = 3 /\ Len(t) = 3)
      BY <1>3
    <3>2. \A j \in 1 + 1..Len(t) : ~About(t, j, c)
      BY <1>4, <1>5, <1>6, <2>1, <3>1
    <3>3. Executing(stream \o t, pendingToolCalls, c) <=> t[1].type = "tool_execution_start"
      BY <1>1, <1>5, <2>1, <3>1, <3>2, LastDecides
    <3>4. t[1].type # "tool_execution_start"
      BY <1>2
    <3> QED
      BY <1>2, <1>4, <2>1, <3>3, <3>4
  <2>2. CASE c = launched + 1 /\ Len(t) = 3
    <3>1. 3 \in DOMAIN t /\ 3 + 1..Len(t) = {}
      BY <1>3, <2>2
    <3>2. About(t, 3, c) /\ t[3].type = "tool_execution_start" /\ c \in running'
      BY <1>2, <1>6, <2>2
    <3> QED
      BY <1>1, <3>1, <3>2, LastDecides
  <2>3. CASE c # k /\ ~(c = launched + 1 /\ Len(t) = 3)
    <3>1. \A i \in DOMAIN t : i = 1 \/ i = 2 \/ (i = 3 /\ Len(t) = 3)
      BY <1>3
    <3>2. \A i \in DOMAIN t : ~About(t, i, c)
      BY <1>5, <1>6, <2>3, <3>1
    <3>3. Executing(stream \o t, pendingToolCalls, c) <=> Executing(stream, pendingToolCalls, c)
      BY <1>1, <3>2, SilentTail
    <3>4. c \in running <=> c \in running'
      BY <1>2, <2>3
    <3> QED
      BY <3>3, <3>4 DEF StreamInv
  <2> QED
    BY <2>1, <2>2, <2>3
<1>8. StreamInv' <=> /\ pc' = "idle" => stream' = <<>>
                     /\ \A c \in Nat : Executing(stream', pendingToolCalls', c) <=> c \in running'
  BY DEF StreamInv, Executing, About
<1> QED
  BY <1>1, <1>2, <1>7, <1>8

\* The place of the end of the m-th skipped call.
LEMMA SkipPosition ==
  /\ \A m \in Nat \ {0} : \A n \in Nat : m <= n =>
       /\ 3 * (m - 1) + 2 \in 1..(3 * n)
       /\ ((3 * (m - 1) + 2) - 1) % 3 = 1 /\ ((3 * (m - 1) + 2) - 1) \div 3 = m - 1
  /\ \A m, j \in Nat : 3 * (m - 1) + 2 < j /\ (j - 1) % 3 # 2 => (j - 1) \div 3 >= m
  /\ \A i, n \in Nat : i \in 1..(3 * n) => (i - 1) \div 3 \in Nat /\ (i - 1) \div 3 + 1 <= n
OBVIOUS

\* The rest of the calls are skipped.
LEMMA StreamSkip ==
  ASSUME IInv, StreamInv, SkipRemaining, running = {}, pendingToolCalls' = pendingToolCalls
  PROVE  StreamInv'
<1> DEFINE first == processedCount
           n == Len(calls) - processedCount
           N == 3 * n
           t == [i \in 1..(3 * n) |->
                   SkipEvents(first + 1 + ((i - 1) \div 3))[1 + ((i - 1) % 3)]]
<1>1. /\ stream \in Seq(Events) /\ first \in Nat /\ n \in Nat /\ called \in Seq(Seq(CallKinds))
      /\ N \in Nat
  BY ContextTypes
<1>2. stream' = stream \o t /\ running' = {} /\ pc' = "toolsDone"
  BY DEF SkipRemaining
<1>3. /\ Len(t) = N /\ t \in Seq(Events)
      /\ \A i \in 1..N :
           /\ (i - 1) % 3 # 2 => t[i].call = first + 1 + ((i - 1) \div 3)
           /\ (i - 1) % 3 = 1 => t[i].type = "tool_execution_end"
           /\ (i - 1) % 3 = 2 => t[i].type = "message_end"
  <2> HIDE DEF first, n
  <2> QED
    BY <1>1, SkipTail DEF Adds
<1> HIDE DEF t, first
<1>4. DOMAIN t = 1..N
  BY <1>3, LenProperties
<1>5. \A i \in 1..N : (i - 1) \div 3 \in Nat /\ (i - 1) \div 3 + 1 <= n /\ i \in Nat
  <2> HIDE DEF n
  <2> QED
    BY <1>1, SkipPosition
<1>6. ASSUME NEW c \in Nat
      PROVE  ~Executing(stream \o t, pendingToolCalls, c)
  <2> HIDE DEF n
  <2>1. CASE \E m \in Nat \ {0} : m <= n /\ c = first + m
    <3>1. PICK m \in Nat \ {0} : m <= n /\ c = first + m
      BY <2>1
    <3> DEFINE i == 3 * (m - 1) + 2
    <3>2. i \in 1..N /\ (i - 1) % 3 = 1 /\ (i - 1) \div 3 = m - 1
      BY <1>1, <3>1, SkipPosition
    <3>3. first + 1 + (m - 1) = c
      BY <1>1, <3>1
    <3>4. t[i].type = "tool_execution_end" /\ t[i].call = c
      <4> HIDE DEF i
      <4> QED
        BY <1>3, <3>2, <3>3
    <3>5. ASSUME NEW j \in i + 1..N PROVE ~About(t, j, c)
      <4>1. j \in 1..N /\ i < j /\ j \in Nat
        BY <1>1, <3>2
      <4>2. CASE (j - 1) % 3 = 2
        BY <1>3, <4>1, <4>2 DEF About
      <4>3. CASE (j - 1) % 3 # 2
        <5>1. (j - 1) \div 3 >= m
          BY <4>1, <4>3, SkipPosition
        <5>2. (j - 1) \div 3 \in Nat
          BY <1>5, <4>1
        <5>3. first + 1 + ((j - 1) \div 3) # c
          <6> DEFINE q == (j - 1) \div 3
          <6>1. q \in Nat /\ q >= m
            BY <5>1, <5>2
          <6> HIDE DEF q
          <6>2. first + 1 + q # c
            BY <1>1, <3>1, <6>1
          <6> QED
            BY <6>2 DEF q
        <5> QED
          BY <1>3, <4>1, <4>3, <5>3 DEF About
      <4> QED
        BY <4>2, <4>3
    <3> HIDE DEF i
    <3>6. i \in DOMAIN t /\ About(t, i, c) /\ \A j \in i + 1..Len(t) : ~About(t, j, c)
      BY <1>3, <1>4, <3>2, <3>4, <3>5 DEF About
    <3>7. Executing(stream \o t, pendingToolCalls, c) <=> t[i].type = "tool_execution_start"
      BY <1>1, <1>3, <3>6, LastDecides
    <3> QED
      BY <3>4, <3>7
  <2>2. CASE ~(\E m \in Nat \ {0} : m <= n /\ c = first + m)
    <3>1. ASSUME NEW i \in 1..N PROVE ~About(t, i, c)
      <4>1. CASE (i - 1) % 3 = 2
        BY <1>3, <4>1 DEF About
      <4>2. CASE (i - 1) % 3 # 2
        <5> DEFINE q == (i - 1) \div 3
        <5>1. q \in Nat /\ q + 1 <= n
          BY <1>5
        <5>2. t[i].call = first + 1 + q
          BY <1>3, <4>2
        <5> HIDE DEF q
        <5>3. q + 1 \in Nat \ {0} /\ first + 1 + q = first + (q + 1)
          BY <1>1, <5>1
        <5> QED
          BY <2>2, <5>1, <5>2, <5>3 DEF About
      <4> QED
        BY <4>1, <4>2
    <3>2. Executing(stream \o t, pendingToolCalls, c) <=> Executing(stream, pendingToolCalls, c)
      BY <1>1, <1>3, <1>4, <3>1, SilentTail
    <3> QED
      BY <3>2 DEF StreamInv
  <2> QED
    BY <2>1, <2>2
<1>7. StreamInv' <=> /\ pc' = "idle" => stream' = <<>>
                     /\ \A c \in Nat : Executing(stream', pendingToolCalls', c) <=> c \in running'
  BY DEF StreamInv, Executing, About
<1> QED
  BY <1>2, <1>6, <1>7

\* The consumer takes an event, or finds that there are no more.
LEMMA StreamConsumer ==
  ASSUME IInv, StreamInv, Consumer
  PROVE  StreamInv'
<1>1. stream \in Seq(Events) /\ pendingToolCalls \in SUBSET Nat
  BY ContextTypes
<1>2. StreamInv' <=> /\ pc' = "idle" => stream' = <<>>
                     /\ \A c \in Nat : Executing(stream', pendingToolCalls', c) <=> c \in running'
  BY DEF StreamInv, Executing, About
<1>3. CASE Consume
  <2> DEFINE e == Head(stream)
             next == CASE e.type = "tool_execution_start" -> pendingToolCalls \union {e.call}
                       [] e.type = "tool_execution_end"   -> pendingToolCalls \ {e.call}
                       [] OTHER -> pendingToolCalls
  <2>1. /\ stream # <<>> /\ stream' = Tail(stream) /\ pendingToolCalls' = next
        /\ running' = running /\ pc' = pc
    BY <1>3 DEF Consume, toolVars
  <2>2. \A c \in Nat : Executing(Tail(stream), next, c) <=> Executing(stream, pendingToolCalls, c)
    BY <1>1, <2>1, ConsumeOne
  <2>3. pc # "idle"
    BY <2>1 DEF StreamInv
  <2> HIDE DEF next
  <2> QED
    BY <1>2, <2>1, <2>2, <2>3 DEF StreamInv
<1>4. CASE FinishRun
  <2>1. /\ stream = <<>> /\ stream' = <<>> /\ pendingToolCalls' = {} /\ running' = running
        /\ pc = "ended"
    BY <1>4 DEF FinishRun, toolVars
  <2>2. running = {}
    BY <2>1, ContextTypes
  <2>3. \A c \in Nat : ~Executing(<<>>, {}, c)
    <3>1. DOMAIN <<>> = {}
      OBVIOUS
    <3> QED
      BY <3>1 DEF Executing
  <2> QED
    BY <1>2, <2>1, <2>2, <2>3
<1> QED
  BY <1>3, <1>4 DEF Consumer
\* What the poll after a call or a group does.
LEMMA PollCases ==
  ASSUME IInv, PollAfterTool \/ PollAfterGroup
  PROVE  /\ pc \in {"pollTool", "pollGroup"} /\ running = {} /\ DequeueSteering
         /\ UNCHANGED <<agentVars, context, calls, processedCount, called, via>>
         /\ \/ SkipRemaining /\ pending' # <<>>
            \/ /\ processedCount + 1 \in 1..Len(calls) /\ Launch(processedCount + 1)
               /\ results' = results
            \/ /\ UNCHANGED <<launched, running, results, stream>>
               /\ pc' = "pollGroup" \/ (pc' = "toolsDone" /\ processedCount = Len(calls))
<1>1. /\ calls \in Seq(CallKinds) /\ Len(calls) \in Nat /\ processedCount \in Nat
      /\ processedCount <= Len(calls)
  BY ContextTypes
<1>2. CASE PollAfterTool
  <2>1. /\ pc = "pollTool" /\ DequeueSteering
        /\ UNCHANGED <<agentVars, context, calls, processedCount, called, via>>
        /\ IF pending' # <<>> THEN SkipRemaining
           ELSE IF processedCount < GroupEnd(calls, processedCount) THEN GoOn(processedCount + 1)
           ELSE pc' = "pollGroup" /\ UNCHANGED <<launched, running, results, stream>>
    BY <1>2 DEF PollAfterTool
  <2>2. running = {} /\ processedCount \in 1..Len(calls)
    <3>1. running = {}
      BY <2>1, ContextTypes
    <3>2. processedCount >= 1
      BY <2>1 DEF IInv, GroupRuns
    <3> QED
      BY <1>1, <3>1, <3>2
  <2>3. processedCount < GroupEnd(calls, processedCount) => processedCount + 1 \in 1..Len(calls)
    <3>1. GroupEnd(calls, processedCount) \in processedCount..Len(calls)
      BY <1>1, <2>2, GroupEndType
    <3> QED
      BY <1>1, <3>1
  <2> QED
    BY <2>1, <2>2, <2>3 DEF GoOn
<1>3. CASE PollAfterGroup
  <2>1. /\ pc = "pollGroup" /\ DequeueSteering
        /\ UNCHANGED <<agentVars, context, calls, processedCount, called, via>>
        /\ IF pending' # <<>> THEN SkipRemaining
           ELSE IF processedCount < Len(calls) THEN GoOn(processedCount + 1)
           ELSE pc' = "toolsDone" /\ UNCHANGED <<launched, running, results, stream>>
    BY <1>3 DEF PollAfterGroup
  <2>2. running = {}
    BY <2>1, ContextTypes
  <2>3. processedCount < Len(calls) => processedCount + 1 \in 1..Len(calls)
    BY <1>1
  <2>4. ~(processedCount < Len(calls)) => processedCount = Len(calls)
    BY <1>1
  <2> QED
    BY <2>1, <2>2, <2>3, <2>4 DEF GoOn
<1> QED
  BY <1>2, <1>3

\* A step that leaves the stream and the calls that run.
LEMMA StreamSame ==
  ASSUME StreamInv, UNCHANGED <<stream, pendingToolCalls, running>>, pc' = pc \/ pc' # "idle"
  PROVE  StreamInv'
<1>1. StreamInv' <=> /\ pc' = "idle" => stream' = <<>>
                     /\ \A c \in Nat : Executing(stream', pendingToolCalls', c) <=> c \in running'
  BY DEF StreamInv, Executing, About
<1> QED
  BY <1>1 DEF StreamInv

\* A run starts when there is nothing left of the last one.
LEMMA StreamStart ==
  ASSUME IInv, StreamInv, NEW prompts \in Seq(Messages), StartRun(prompts), pc = "idle"
  PROVE  StreamInv'
<1>1. stream = <<>> /\ stream \in Seq(Events)
  BY ContextTypes DEF StreamInv
<1>2. Silent(stream') /\ stream' \in Seq(Events)
  BY StartTail DEF Adds
<1>3. PICK t \in Seq(Events) : t = stream'
  BY <1>2
<1>4. stream' = stream \o t /\ Silent(t)
  BY <1>1, <1>2, <1>3, ConcatEmptySeq
<1>5. pendingToolCalls' = pendingToolCalls /\ running' = running /\ pc' # "idle"
  BY DEF StartRun, toolVars
<1> QED
  BY <1>1, <1>4, <1>5, StreamQuiet

\* The prompts of each way to start a run.
LEMMA StartCases ==
  ASSUME IInv, Prompt \/ ContinueWithSteering \/ ContinueWithFollowUp \/ ContinueFromContext
  PROVE  /\ pc = "idle"
         /\ \E prompts \in Seq(Messages) :
              /\ StartRun(prompts)
              /\ \/ prompts = <<NextUser>>
                 \/ prompts = Taken(steeringQueue, SteeringMode)
                 \/ prompts = Taken(followUpQueue, FollowUpMode)
                 \/ prompts = <<>>
<1>1. NextUser \in Messages
  BY NextUserType DEF IInv, TypeOK
<1>2. steeringQueue \in Seq(Messages) /\ followUpQueue \in Seq(Messages)
  BY DEF IInv, TypeOK
<1>3. /\ <<NextUser>> \in Seq(Messages) /\ <<>> \in Seq(Messages)
      /\ Taken(steeringQueue, SteeringMode) \in Seq(Messages)
      /\ Taken(followUpQueue, FollowUpMode) \in Seq(Messages)
  BY <1>1, <1>2, TakenLeftType
<1>4. \/ StartRun(<<NextUser>>) \/ StartRun(Taken(steeringQueue, SteeringMode))
      \/ StartRun(Taken(followUpQueue, FollowUpMode)) \/ StartRun(<<>>)
  BY DEF Prompt, ContinueWithSteering, ContinueWithFollowUp, ContinueFromContext
<1>5. pc = "idle"
  BY DEF Prompt, ContinueWithSteering, ContinueWithFollowUp, ContinueFromContext
<1> QED
  BY <1>3, <1>4, <1>5

\* Every step keeps what the stream tells.
LEMMA StreamNext ==
  ASSUME IInv, StreamInv, [Next]_vars
  PROVE  StreamInv'
<1>1. /\ stream \in Seq(Events) /\ calls \in Seq(CallKinds) /\ Len(calls) \in Nat
      /\ processedCount \in Nat
  BY ContextTypes
<1>2. CASE Prompt \/ ContinueWithSteering \/ ContinueWithFollowUp \/ ContinueFromContext
  BY <1>2, StartCases, StreamStart
<1>3. CASE \/ DropFailedReply \/ Steer \/ FollowUp \/ ClearAllQueues \/ Abort \/ PollFollowUps
           \/ ContinueOuterLoop \/ Request \/ RequestThrows
  <2>1. UNCHANGED <<stream, pendingToolCalls, running>>
    BY <1>3 DEF DropFailedReply, Steer, FollowUp, ClearAllQueues, Abort, PollFollowUps,
       ContinueOuterLoop, Request, RequestThrows, agentVars, toolVars
  <2>2. pc' = pc \/ pc' # "idle"
    BY <1>3 DEF DropFailedReply, Steer, FollowUp, ClearAllQueues, Abort, PollFollowUps,
       ContinueOuterLoop, Request, RequestThrows
  <2> QED
    BY <2>1, <2>2, StreamSame
<1>4. CASE \/ BeginTurn \/ EndRun \/ StopOnFailure \/ FinishTurnWithoutTools
           \/ FinishTurnWithTools \/ Replies
  <2>1. \E t : stream' = stream \o t /\ t \in Seq(Events) /\ Silent(t)
    <3>1. CASE BeginTurn
      BY <3>1, BeginTail DEF Adds
    <3>2. CASE EndRun \/ StopOnFailure \/ FinishTurnWithoutTools \/ FinishTurnWithTools
      BY <3>2, EndTail DEF Adds
    <3>3. CASE Replies
      <4>1. \E kind, cs : Reply(kind, cs)
        BY <3>3 DEF Replies
      <4> QED
        BY <4>1, ReplyTail DEF Adds
    <3> QED
      BY <1>4, <3>1, <3>2, <3>3
  <2>2. pendingToolCalls' = pendingToolCalls /\ running' = running /\ pc' # "idle"
    <3>1. CASE \/ BeginTurn \/ EndRun \/ StopOnFailure \/ FinishTurnWithoutTools
               \/ FinishTurnWithTools
      BY <3>1 DEF BeginTurn, EndRun, StopOnFailure, FinishTurnWithoutTools, FinishTurnWithTools,
         agentVars, toolVars
    <3>2. CASE Replies
      BY <3>2 DEF Replies, Reply, agentVars
    <3> QED
      BY <1>4, <3>1, <3>2
  <2> QED
    BY <1>1, <2>1, <2>2, StreamQuiet
<1>5. CASE StartTools
  <2>1. /\ calls # <<>> /\ Launch(1) /\ pendingToolCalls' = pendingToolCalls /\ pc = "replied"
    BY <1>5 DEF StartTools, agentVars
  <2>2. 1 \in 1..Len(calls) /\ running = {}
    BY <1>1, <2>1, ContextTypes
  <2> QED
    BY <2>1, <2>2, StreamLaunch
<1>6. CASE PollAfterTool \/ PollAfterGroup
  <2>1. running = {} /\ pendingToolCalls' = pendingToolCalls
    BY <1>6, PollCases DEF agentVars
  <2>2. CASE SkipRemaining
    BY <2>1, <2>2, StreamSkip
  <2>3. CASE processedCount + 1 \in 1..Len(calls) /\ Launch(processedCount + 1)
    BY <2>1, <2>3, StreamLaunch
  <2>4. CASE UNCHANGED <<launched, running, results, stream>> /\ pc' # "idle"
    BY <2>1, <2>4, StreamSame
  <2> QED
    BY <1>6, <2>2, <2>3, <2>4, PollCases
<1>7. CASE Tools
  <2>1. PICK k \in 1..MaxCalls : CompleteTool(k)
    BY <1>7 DEF Tools
  <2>2. k \in Nat
    BY <2>1, ALAssumption
  <2> QED
    BY <2>1, <2>2, StreamComplete
<1>8. CASE Consumer
  BY <1>8, StreamConsumer
<1>9. CASE UNCHANGED vars
  BY <1>9, StreamSame DEF vars, agentVars, toolVars
<1> QED
  BY <1>2, <1>3, <1>4, <1>5, <1>6, <1>7, <1>8, <1>9 DEF Next, User, Loop

\* At the start nothing executes.
LEMMA StreamInit == Init => StreamInv /\ QueuesInv
<1> SUFFICES ASSUME Init PROVE StreamInv /\ QueuesInv
  OBVIOUS
<1>1. DOMAIN <<>> = {}
  OBVIOUS
<1>2. StreamInv
  BY <1>1 DEF Init, StreamInv, Executing
<1>3. QueuesInv
  BY <1>1 DEF Init, QueuesInv, FromSteering, FromUser, ToolPhases
<1> QED
  BY <1>2, <1>3
\* A set of positions of a sequence has a last one.
LEMMA MaxOfPositions ==
  ASSUME NEW n \in Nat, NEW S \in SUBSET (1..n), S # {}
  PROVE  Max(S) \in S /\ \A x \in S : x <= Max(S)
<1> DEFINE T == {n - x : x \in S}
<1>1. T \in SUBSET Nat /\ T # {}
  <2>1. \A x \in S : x \in 1..n
    OBVIOUS
  <2>2. \A x \in S : n - x \in Nat
    BY <2>1
  <2> QED
    BY <2>2
<1>2. PICK m \in T : \A y \in T : m <= y
  BY <1>1, LeastNat
<1>3. PICK a \in S : m = n - a
  BY <1>2
<1>4. \A x \in S : a >= x
  <2> SUFFICES ASSUME NEW x \in S PROVE a >= x
    OBVIOUS
  <2>1. n - a <= n - x
    BY <1>2, <1>3
  <2>2. a \in Nat /\ x \in Nat
    OBVIOUS
  <2> QED
    BY <2>1, <2>2
<1>5. \E x \in S : \A y \in S : x >= y
  BY <1>3, <1>4
<1>6. Max(S) \in S /\ \A y \in S : Max(S) >= y
  BY <1>5 DEF Max
<1>7. \A y \in S : y \in Nat
  OBVIOUS
<1> QED
  BY <1>6, <1>7

\* What the stream tells is what pendingToolCalls becomes.
LEMMA DrainedIsRunning ==
  ASSUME IInv, StreamInv
  PROVE  PendingCallsMatch
<1>1. /\ stream \in Seq(Events) /\ pendingToolCalls \in SUBSET Nat /\ running \in SUBSET Nat
      /\ DOMAIN stream = 1..Len(stream) /\ Len(stream) \in Nat
  BY ContextTypes, LenProperties
<1>2. \A i \in DOMAIN stream : stream[i].call \in Nat
  <2>1. \A i \in DOMAIN stream : stream[i] \in Events
    BY <1>1
  <2> QED
    BY <2>1 DEF Events
<1> DEFINE P(k) == {i \in DOMAIN stream :
                      /\ stream[i].type \in {"tool_execution_start", "tool_execution_end"}
                      /\ stream[i].call = k}
           D == {k \in pendingToolCalls \union {stream[i].call : i \in DOMAIN stream} :
                   IF P(k) = {} THEN k \in pendingToolCalls
                   ELSE stream[Max(P(k))].type = "tool_execution_start"}
<1>3. Drained = D
  BY DEF Drained
<1>4. \A k, i : i \in P(k) <=> i \in DOMAIN stream /\ About(stream, i, k)
  BY DEF About
<1> HIDE DEF P
<1>5. D \subseteq Nat
  BY <1>1, <1>2
<1>6. ASSUME NEW k \in Nat
      PROVE  k \in D <=> Executing(stream, pendingToolCalls, k)
  <2>1. CASE P(k) = {}
    <3>1. \A i \in DOMAIN stream : ~About(stream, i, k)
      BY <1>4, <2>1
    <3>2. Executing(stream, pendingToolCalls, k) <=> k \in pendingToolCalls
      BY <3>1 DEF Executing
    <3> QED
      BY <2>1, <3>2
  <2>2. CASE P(k) # {}
    <3> DEFINE l == Max(P(k))
    <3>1. P(k) \in SUBSET (1..Len(stream))
      BY <1>1, <1>4
    <3>2. l \in P(k) /\ \A x \in P(k) : x <= l
      BY <1>1, <2>2, <3>1, MaxOfPositions
    <3>3. l \in DOMAIN stream /\ About(stream, l, k)
      BY <1>4, <3>2
    <3>4. k \in D <=> stream[l].type = "tool_execution_start"
      <4>1. stream[l].call = k
        BY <3>3 DEF About
      <4> QED
        BY <2>2, <3>3, <4>1
    <3> HIDE DEF l, D
    <3>5. \A j \in l + 1..Len(stream) : ~About(stream, j, k)
      <4> SUFFICES ASSUME NEW j \in l + 1..Len(stream), About(stream, j, k) PROVE FALSE
        OBVIOUS
      <4>1. j \in DOMAIN stream /\ ~(j <= l)
        BY <1>1, <3>3
      <4> QED
        BY <1>4, <3>2, <4>1
    <3>6. Executing(stream, pendingToolCalls, k) <=> stream[l].type = "tool_execution_start"
      <4>1. stream \in Seq(Events) /\ <<>> \in Seq(Events)
        BY <1>1
      <4>2. Executing(<<>> \o stream, pendingToolCalls, k) <=> stream[l].type = "tool_execution_start"
        BY <3>3, <3>5, <4>1, LastDecides
      <4>3. <<>> \o stream = stream
        BY <4>1, ConcatEmptySeq
      <4> QED
        BY <4>2, <4>3
    <3> QED
      BY <3>4, <3>6
  <2> QED
    BY <2>1, <2>2
<1>7. \A k \in Nat : k \in D <=> k \in running
  BY <1>6 DEF StreamInv
<1> HIDE DEF D
<1>8. D = running
  BY <1>1, <1>5, <1>7
<1> QED
  BY <1>3, <1>8 DEF PendingCallsMatch

\* The invariants of the queues and of the stream hold.
LEMMA StreamAlways == Spec => [](IInv /\ QueuesInv /\ StreamInv)
<1>1. Init => IInv /\ QueuesInv /\ StreamInv
  BY InitInv, StreamInit
<1>2. IInv /\ QueuesInv /\ StreamInv /\ [Next]_vars => (IInv /\ QueuesInv /\ StreamInv)'
  BY NextInv, QueuesNext, StreamNext
<1> QED
  BY <1>1, <1>2, PTL DEF Spec
-----------------------------------------------------------------------------
(* Conversations *)

\* The parts of a concatenation.
LEMMA PartsOf ==
  ASSUME NEW c \in Seq(Messages), NEW d \in Seq(Messages)
  PROVE  /\ c \o d \in Seq(Messages) /\ Len(c) \in Nat /\ Len(d) \in Nat
         /\ DOMAIN c = 1..Len(c) /\ DOMAIN d = 1..Len(d)
         /\ Len(c \o d) = Len(c) + Len(d) /\ DOMAIN (c \o d) = 1..(Len(c) + Len(d))
         /\ \A i \in DOMAIN c : i \in DOMAIN (c \o d) /\ (c \o d)[i] = c[i]
         /\ \A i \in DOMAIN d : Len(c) + i \in DOMAIN (c \o d) /\ (c \o d)[Len(c) + i] = d[i]
         /\ \A i \in DOMAIN (c \o d) :
              i \in DOMAIN c \/ (i - Len(c) \in DOMAIN d /\ Len(c) + (i - Len(c)) = i)
<1> DEFINE x == c \o d
           lc == Len(c)
           ld == Len(d)
<1>1. /\ x \in Seq(Messages) /\ Len(x) = lc + ld
      /\ \A i \in 1..lc : x[i] = c[i]
      /\ \A i \in 1..ld : x[lc + i] = d[i]
  BY ConcatAt
<1>2. /\ lc \in Nat /\ ld \in Nat /\ DOMAIN c = 1..lc /\ DOMAIN d = 1..ld /\ DOMAIN x = 1..(lc + ld)
  BY <1>1, LenProperties
<1> HIDE DEF x, lc, ld
<1>3. \A i \in 1..lc : i \in 1..(lc + ld)
  BY <1>2
<1>4. \A i \in 1..ld : lc + i \in 1..(lc + ld)
  BY <1>2
<1>5. \A i \in 1..(lc + ld) : i \in 1..lc \/ (i - lc \in 1..ld /\ lc + (i - lc) = i)
  BY <1>2
<1>6. /\ x \in Seq(Messages) /\ lc \in Nat /\ ld \in Nat
      /\ DOMAIN c = 1..lc /\ DOMAIN d = 1..ld
      /\ Len(x) = lc + ld /\ DOMAIN x = 1..(lc + ld)
      /\ \A i \in DOMAIN c : i \in DOMAIN x /\ x[i] = c[i]
      /\ \A i \in DOMAIN d : lc + i \in DOMAIN x /\ x[lc + i] = d[i]
      /\ \A i \in DOMAIN x : i \in DOMAIN c \/ (i - lc \in DOMAIN d /\ lc + (i - lc) = i)
  BY <1>1, <1>2, <1>3, <1>4, <1>5
<1> QED
  BY <1>6 DEF x, lc, ld

\* The same results behind the same reply, wherever both are in a conversation.
LEMMA AnsweredShift ==
  ASSUME NEW c \in Seq(Messages), NEW x \in Seq(Messages), NEW at \in Nat, NEW i \in Nat,
         NEW count \in Nat, AnsweredBy(c, i, count), i \in DOMAIN c,
         at + Len(c) <= Len(x), \A k \in DOMAIN c : x[at + k] = c[k]
  PROVE  AnsweredBy(x, at + i, count)
<1>1. /\ Len(c) \in Nat /\ DOMAIN c = 1..Len(c) /\ Len(x) \in Nat /\ i + count <= Len(c)
      /\ i >= 1
  BY LenProperties DEF AnsweredBy
<1>2. at + i + count <= Len(x)
  BY <1>1
<1>3. \A j \in i + 1..i + count : j \in DOMAIN c /\ at + j \in at + i + 1..at + i + count
  BY <1>1
<1>4. \A j \in at + i + 1..at + i + count : j - at \in i + 1..i + count /\ at + (j - at) = j
  BY <1>1
<1>5. x[at + i] = c[i] /\ \A j \in i + 1..i + count : x[at + j] = c[j]
  BY <1>3
<1>6. \A j \in at + i + 1..at + i + count :
        IsResult(x[j]) /\ x[j].n = x[at + i].n
  BY <1>4, <1>5, SMTT(20), ZenonT(20) DEF AnsweredBy
<1>7. {x[j].call : j \in at + i + 1..at + i + count} = {c[j].call : j \in i + 1..i + count}
  <2> DEFINE J == at + i + 1..at + i + count
             K == i + 1..i + count
  <2>1. \A j \in J : \E k \in K : x[j].call = c[k].call
    BY <1>4, <1>5
  <2>2. \A k \in K : \E j \in J : x[j].call = c[k].call
    BY <1>3, <1>5
  <2> HIDE DEF J, K
  <2>3. {x[j].call : j \in J} = {c[k].call : k \in K}
    <3> DEFINE A == {x[j].call : j \in J}
               B == {c[k].call : k \in K}
    <3>1. \A v : v \in A => v \in B
      BY <2>1
    <3>2. \A v : v \in B => v \in A
      BY <2>2
    <3> HIDE DEF A, B
    <3>3. A = B
      BY <3>1, <3>2
    <3> QED
      BY <3>3 DEF A, B
  <2> QED
    BY <2>3 DEF J, K
<1> QED
  BY <1>2, <1>6, <1>7 DEF AnsweredBy

\* A result that belongs to a reply, and the same wherever both are.
ResultAt(c, i, asked) ==
  \E j \in 1..i - 1 : /\ c[j].kind = "assistant"
                     /\ c[j].n = c[i].n
                     /\ i <= j + Len(asked[c[j].n])

\* Two well answered conversations, one after the other, are one.
LEMMA AnsweredConcat ==
  ASSUME NEW c \in Seq(Messages), NEW d \in Seq(Messages), NEW asked \in Seq(Seq(CallKinds)),
         WellAnswered(c, asked), WellAnswered(d, asked)
  PROVE  WellAnswered(c \o d, asked)
<1> DEFINE x == c \o d
           l == Len(c)
<1>1. /\ x \in Seq(Messages) /\ l \in Nat /\ Len(d) \in Nat
      /\ DOMAIN c = 1..l /\ DOMAIN d = 1..Len(d)
      /\ Len(x) = l + Len(d)
      /\ \A i \in DOMAIN c : i \in DOMAIN x /\ x[i] = c[i]
      /\ \A i \in DOMAIN d : l + i \in DOMAIN x /\ x[l + i] = d[i]
      /\ \A i \in DOMAIN x : i \in DOMAIN c \/ (i - l \in DOMAIN d /\ l + (i - l) = i)
  BY PartsOf
<1> HIDE DEF x, l
<1>2. \A n \in DOMAIN asked : Len(asked[n]) \in Nat
  OBVIOUS
<1>3. ASSUME NEW i \in DOMAIN x, x[i].kind = "assistant"
      PROVE  x[i].n \in DOMAIN asked /\ AnsweredBy(x, i, Len(asked[x[i].n]))
  <2>1. CASE i \in DOMAIN c
    <3>1. /\ x[i] = c[i] /\ c[i].n \in DOMAIN asked /\ AnsweredBy(c, i, Len(asked[c[i].n]))
          /\ i \in Nat /\ 0 + i = i
      BY <1>1, <1>3, <2>1 DEF WellAnswered
    <3>2. 0 + Len(c) <= Len(x) /\ \A k \in DOMAIN c : x[0 + k] = c[k]
      <4>1. \A k \in DOMAIN c : 0 + k = k /\ x[k] = c[k]
        BY <1>1
      <4>2. 0 + Len(c) <= Len(x)
        BY <1>1 DEF l
      <4> QED
        BY <4>1, <4>2
    <3>3. AnsweredBy(x, 0 + i, Len(asked[c[i].n]))
      BY <1>1, <1>2, <2>1, <3>1, <3>2, AnsweredShift
    <3> QED
      BY <3>1, <3>3
  <2>2. CASE i \notin DOMAIN c
    <3> DEFINE k == i - l
    <3>1. k \in DOMAIN d /\ l + k = i /\ x[l + k] = d[k] /\ k \in Nat
      BY <1>1, <2>2
    <3> HIDE DEF k
    <3>2. d[k].n \in DOMAIN asked /\ AnsweredBy(d, k, Len(asked[d[k].n]))
      BY <1>3, <3>1 DEF WellAnswered
    <3>3. l + Len(d) <= Len(x) /\ \A m \in DOMAIN d : x[l + m] = d[m]
      BY <1>1
    <3>4. AnsweredBy(x, l + k, Len(asked[d[k].n]))
      BY <1>1, <1>2, <3>1, <3>2, <3>3, AnsweredShift
    <3> QED
      BY <3>1, <3>2, <3>4
  <2> QED
    BY <2>1, <2>2
<1>4. ASSUME NEW i \in DOMAIN x, IsResult(x[i])
      PROVE  ResultAt(x, i, asked)
  <2>1. CASE i \in DOMAIN c
    <3>1. x[i] = c[i]
      BY <1>1, <2>1
    <3>2. PICK j \in 1..i - 1 : /\ c[j].kind = "assistant" /\ c[j].n = c[i].n
                               /\ i <= j + Len(asked[c[j].n])
      BY <1>4, <2>1, <3>1 DEF WellAnswered
    <3>3. j \in DOMAIN c
      BY <1>1, <2>1
    <3>4. x[j] = c[j]
      BY <1>1, <3>3
    <3> QED
      BY <3>1, <3>2, <3>4 DEF ResultAt
  <2>2. CASE i \notin DOMAIN c
    <3> DEFINE k == i - l
    <3>1. k \in DOMAIN d /\ l + k = i /\ x[l + k] = d[k] /\ k \in Nat
      BY <1>1, <2>2
    <3> HIDE DEF k
    <3>2. PICK j \in 1..k - 1 : /\ d[j].kind = "assistant" /\ d[j].n = d[k].n
                               /\ k <= j + Len(asked[d[j].n])
      BY <1>4, <3>1 DEF WellAnswered
    <3>3. j \in DOMAIN d /\ l + j \in 1..i - 1
      BY <1>1, <3>1
    <3>4. x[l + j] = d[j]
      BY <1>1, <3>3
    <3>5. d[j].n \in DOMAIN asked
      BY <3>2, <3>3 DEF WellAnswered
    <3> DEFINE q == Len(asked[d[j].n])
    <3>6. q \in Nat /\ k <= j + q
      BY <1>2, <3>2, <3>5
    <3> HIDE DEF q
    <3>7. i <= l + j + q
      BY <1>1, <3>1, <3>6
    <3>8. i <= (l + j) + Len(asked[x[l + j].n])
      BY <3>4, <3>7 DEF q
    <3> QED
      BY <3>1, <3>2, <3>3, <3>4, <3>8 DEF ResultAt
  <2> QED
    BY <2>1, <2>2
<1>5. WellAnswered(x, asked)
  BY <1>3, <1>4 DEF WellAnswered, ResultAt
<1> QED
  BY <1>5 DEF x
\* Messages of the user and failed replies ask for nothing and answer nothing.
LEMMA QuietAnswered ==
  ASSUME NEW d \in Seq(Messages), NEW asked,
         \A i \in DOMAIN d : d[i].kind \in {"user", "failed"}
  PROVE  WellAnswered(d, asked)
BY DEF WellAnswered, IsResult

\* A reply that follows leaves what was asked before.
LEMMA AnsweredGrows ==
  ASSUME NEW c \in Seq(Messages), NEW asked \in Seq(Seq(CallKinds)), NEW cs \in Seq(CallKinds),
         WellAnswered(c, asked)
  PROVE  WellAnswered(c, Append(asked, cs))
<1> DEFINE more == Append(asked, cs)
<1>1. \A n \in DOMAIN asked : n \in DOMAIN more /\ more[n] = asked[n]
  OBVIOUS
<1> HIDE DEF more
<1>2. ASSUME NEW i \in DOMAIN c, c[i].kind = "assistant"
      PROVE  c[i].n \in DOMAIN more /\ AnsweredBy(c, i, Len(more[c[i].n]))
  <2>1. c[i].n \in DOMAIN asked /\ AnsweredBy(c, i, Len(asked[c[i].n]))
    BY <1>2 DEF WellAnswered
  <2> QED
    BY <1>1, <2>1
<1>3. ASSUME NEW i \in DOMAIN c, IsResult(c[i])
      PROVE  \E j \in 1..i - 1 : /\ c[j].kind = "assistant" /\ c[j].n = c[i].n
                                /\ i <= j + Len(more[c[j].n])
  <2>1. PICK j \in 1..i - 1 : /\ c[j].kind = "assistant" /\ c[j].n = c[i].n
                             /\ i <= j + Len(asked[c[j].n])
    BY <1>3 DEF WellAnswered
  <2>2. j \in DOMAIN c
    <3>1. i \in Nat /\ i <= Len(c) /\ Len(c) \in Nat /\ DOMAIN c = 1..Len(c)
      BY LenProperties
    <3> QED
      BY <3>1
  <2>3. c[j].n \in DOMAIN asked
    BY <2>1, <2>2 DEF WellAnswered
  <2> QED
    BY <1>1, <2>1, <2>3
<1>4. WellAnswered(c, more)
  BY <1>2, <1>3 DEF WellAnswered
<1> QED
  BY <1>4 DEF more

\* The front of a conversation.
LEMMA FrontOf ==
  ASSUME NEW c \in Seq(Messages), c # <<>>
  PROVE  /\ Front(c) \in Seq(Messages) /\ Len(c) \in Nat \ {0}
         /\ Len(Front(c)) = Len(c) - 1 /\ DOMAIN Front(c) = 1..(Len(c) - 1)
         /\ DOMAIN c = 1..Len(c)
         /\ \A i \in DOMAIN Front(c) : i \in DOMAIN c /\ i < Len(c) /\ Front(c)[i] = c[i]
<1>1. Len(c) \in Nat \ {0} /\ DOMAIN c = 1..Len(c)
  OBVIOUS
<1> DEFINE f == SubSeq(c, 1, Len(c) - 1)
<1>2. \A i \in 1..Len(c) - 1 : c[i] \in Messages
  BY <1>1
<1>3. /\ f \in Seq(Messages) /\ Len(f) = Len(c) - 1
      /\ \A i \in 1..Len(c) - 1 : f[i] = c[i]
  BY <1>1, <1>2
<1>4. Front(c) = f
  BY DEF Front
<1> HIDE DEF f
<1>5. DOMAIN f = 1..Len(f)
  BY <1>3, LenProperties
<1>6. \A i \in 1..Len(c) - 1 : i \in 1..Len(c) /\ i < Len(c)
  BY <1>1
<1> QED
  BY <1>1, <1>3, <1>4, <1>5, <1>6

\* Without a failed reply at its end a conversation is as well answered.
LEMMA AnsweredFront ==
  ASSUME NEW c \in Seq(Messages), c # <<>>, c[Len(c)].kind = "failed",
         NEW asked \in Seq(Seq(CallKinds)), WellAnswered(c, asked)
  PROVE  WellAnswered(Front(c), asked)
<1> DEFINE f == Front(c)
<1>1. /\ f \in Seq(Messages) /\ Len(c) \in Nat \ {0}
      /\ Len(f) = Len(c) - 1 /\ DOMAIN f = 1..(Len(c) - 1) /\ DOMAIN c = 1..Len(c)
      /\ \A i \in DOMAIN f : i \in DOMAIN c /\ i < Len(c) /\ f[i] = c[i]
  BY FrontOf
<1> HIDE DEF f
<1>2. \A n \in DOMAIN asked : Len(asked[n]) \in Nat
  OBVIOUS
<1>3. ASSUME NEW i \in DOMAIN f, f[i].kind = "assistant"
      PROVE  f[i].n \in DOMAIN asked /\ AnsweredBy(f, i, Len(asked[f[i].n]))
  <2> DEFINE q == Len(asked[f[i].n])
  <2>1. i \in DOMAIN c /\ f[i] = c[i] /\ c[i].n \in DOMAIN asked /\ AnsweredBy(c, i, q) /\ i \in Nat
    BY <1>1, <1>3 DEF WellAnswered
  <2>2. q \in Nat
    BY <1>2, <2>1
  <2> HIDE DEF q
  <2>3. i + q <= Len(c)
    BY <2>1 DEF AnsweredBy
  <2>4. i + q # Len(c)
    <3> SUFFICES ASSUME i + q = Len(c) PROVE FALSE
      OBVIOUS
    <3>1. i < Len(c)
      BY <1>1
    <3>2. Len(c) \in i + 1..i + q
      BY <1>1, <2>1, <2>2, <3>1
    <3>3. IsResult(c[Len(c)])
      BY <2>1, <3>2 DEF AnsweredBy
    <3> QED
      BY <3>3 DEF IsResult
  <2>5. i + q <= Len(f)
    BY <1>1, <2>1, <2>2, <2>3, <2>4
  <2>6. \A j \in i + 1..i + q : f[j] = c[j]
    <3>1. \A j \in i + 1..i + q : j \in DOMAIN f
      BY <1>1, <2>1, <2>2, <2>5
    <3> QED
      BY <1>1, <3>1
  <2>7. {f[j].call : j \in i + 1..i + q} = {c[j].call : j \in i + 1..i + q}
    BY <2>6
  <2>8. AnsweredBy(f, i, q)
    BY <2>1, <2>5, <2>6, <2>7 DEF AnsweredBy
  <2> QED
    BY <2>1, <2>8 DEF q
<1>4. ASSUME NEW i \in DOMAIN f, IsResult(f[i])
      PROVE  \E j \in 1..i - 1 : /\ f[j].kind = "assistant" /\ f[j].n = f[i].n
                                /\ i <= j + Len(asked[f[j].n])
  <2>1. i \in DOMAIN c /\ f[i] = c[i] /\ i \in Nat
    BY <1>1
  <2>2. PICK j \in 1..i - 1 : /\ c[j].kind = "assistant" /\ c[j].n = c[i].n
                             /\ i <= j + Len(asked[c[j].n])
    BY <1>4, <2>1 DEF WellAnswered
  <2>3. j \in DOMAIN f
    BY <1>1, <2>1
  <2>4. f[j] = c[j]
    BY <1>1, <2>3
  <2> QED
    BY <2>1, <2>2, <2>4
<1>5. WellAnswered(f, asked)
  BY <1>3, <1>4 DEF WellAnswered
<1> QED
  BY <1>5 DEF f

\* A reply and the results of its calls.
LEMMA ReplyAnswered ==
  ASSUME NEW asked \in Seq(Seq(CallKinds)), NEW n \in DOMAIN asked, NEW answers \in Seq(Messages),
         Len(answers) = Len(asked[n]),
         \A i \in DOMAIN answers : IsResult(answers[i]) /\ answers[i].n = n,
         {answers[i].call : i \in DOMAIN answers} = 1..Len(asked[n])
  PROVE  /\ <<Message("assistant", n, 0)>> \o answers \in Seq(Messages)
         /\ WellAnswered(<<Message("assistant", n, 0)>> \o answers, asked)
<1> DEFINE m == Message("assistant", n, 0)
           ms == <<m>>
           x == ms \o answers
           q == Len(asked[n])
<1>1. m \in Messages /\ m.kind = "assistant" /\ m.n = n /\ q \in Nat
  <2>1. n \in Nat
    BY LenProperties
  <2>2. asked[n] \in Seq(CallKinds)
    OBVIOUS
  <2> QED
    BY <2>1, <2>2, MessageType DEF Message, MessageKinds
<1>2. ms \in Seq(Messages) /\ Len(ms) = 1 /\ ms[1] = m
  BY <1>1
<1> HIDE DEF m, ms
<1>3. /\ x \in Seq(Messages) /\ DOMAIN ms = 1..1 /\ DOMAIN answers = 1..q
      /\ Len(x) = 1 + q
      /\ \A i \in DOMAIN ms : i \in DOMAIN x /\ x[i] = ms[i]
      /\ \A i \in DOMAIN answers : 1 + i \in DOMAIN x /\ x[1 + i] = answers[i]
      /\ \A i \in DOMAIN x : i \in DOMAIN ms \/ (i - 1 \in DOMAIN answers /\ 1 + (i - 1) = i)
  <2> DEFINE l == Len(ms)
  <2>1. /\ x \in Seq(Messages) /\ DOMAIN ms = 1..l /\ DOMAIN answers = 1..Len(answers)
        /\ Len(x) = l + Len(answers)
        /\ \A i \in DOMAIN ms : i \in DOMAIN x /\ x[i] = ms[i]
        /\ \A i \in DOMAIN answers : l + i \in DOMAIN x /\ x[l + i] = answers[i]
        /\ \A i \in DOMAIN x : i \in DOMAIN ms \/ (i - l \in DOMAIN answers /\ l + (i - l) = i)
    BY <1>2, PartsOf
  <2>2. l = 1 /\ Len(answers) = q
    BY <1>2
  <2> HIDE DEF l, q, x
  <2> QED
    BY <2>1, <2>2
<1> HIDE DEF x
<1>4. x[1] = m /\ \A i \in 1..q : x[1 + i] = answers[i]
  BY <1>2, <1>3
<1>5. \A i \in DOMAIN x : i = 1 \/ (i - 1 \in 1..q /\ x[i] = answers[i - 1])
  <2> SUFFICES ASSUME NEW i \in DOMAIN x, i # 1
               PROVE  i - 1 \in 1..q /\ x[i] = answers[i - 1]
    OBVIOUS
  <2>1. i - 1 \in 1..q /\ 1 + (i - 1) = i
    <3>1. i \notin 1..1
      OBVIOUS
    <3> QED
      BY <1>3, <3>1
  <2> QED
    BY <1>4, <2>1
<1> HIDE DEF q
<1>6. \A i \in 1..q : IsResult(answers[i]) /\ answers[i].n = n
  BY <1>3
<1>7. AnsweredBy(x, 1, q)
  <2>1. 1 + q <= Len(x)
    BY <1>1, <1>3
  <2>2. \A j \in 1 + 1..1 + q : j - 1 \in 1..q /\ 1 + (j - 1) = j
    BY <1>1
  <2>3. \A j \in 1 + 1..1 + q : x[j] = answers[j - 1]
    BY <1>4, <2>2
  <2>4. \A j \in 1 + 1..1 + q : IsResult(x[j]) /\ x[j].n = x[1].n
    <3>1. \A j \in 1 + 1..1 + q : IsResult(answers[j - 1]) /\ answers[j - 1].n = n
      BY <1>6, <2>2
    <3>2. x[1].n = n
      BY <1>1, <1>4
    <3> QED
      BY <2>3, <3>1, <3>2
  <2>5. {x[j].call : j \in 1 + 1..1 + q} = {answers[i].call : i \in 1..q}
    <3> DEFINE J == 1 + 1..1 + q
               K == 1..q
    <3>1. \A j \in J : \E i \in 1..q : x[j].call = answers[i].call
      BY <2>2, <2>3
    <3>2. \A i \in 1..q : 1 + i \in J
      BY <1>1
    <3>3. \A i \in 1..q : \E j \in J : x[j].call = answers[i].call
      BY <1>4, <3>2
    <3>5. /\ \A j \in J : \E i \in K : x[j].call = answers[i].call
          /\ \A i \in K : \E j \in J : x[j].call = answers[i].call
      BY <3>1, <3>3
    <3> HIDE DEF J, K
    <3>4. {x[j].call : j \in J} = {answers[i].call : i \in K}
      <4>1. ASSUME NEW j \in J PROVE x[j].call \in {answers[i].call : i \in K}
        <5>1. PICK i \in K : x[j].call = answers[i].call
          BY <3>5
        <5> QED
          BY <5>1
      <4>2. \A e : e \in {answers[i].call : i \in K} => e \in {x[j].call : j \in J}
        BY <3>5
      <4> QED
        BY <4>1, <4>2
    <3> QED
      BY <3>4 DEF J, K
  <2>6. {answers[i].call : i \in 1..q} = 1..q
    BY <1>3 DEF q
  <2> QED
    BY <2>1, <2>4, <2>5, <2>6 DEF AnsweredBy
<1>8. \A i \in DOMAIN x : x[i].kind = "assistant" => i = 1
  BY <1>5, <1>6 DEF IsResult
<1>9. ASSUME NEW i \in DOMAIN x, x[i].kind = "assistant"
      PROVE  x[i].n \in DOMAIN asked /\ AnsweredBy(x, i, Len(asked[x[i].n]))
  BY <1>1, <1>4, <1>7, <1>8, <1>9 DEF q
<1>10. ASSUME NEW i \in DOMAIN x, IsResult(x[i])
       PROVE  \E j \in 1..i - 1 : /\ x[j].kind = "assistant" /\ x[j].n = x[i].n
                                 /\ i <= j + Len(asked[x[j].n])
  <2>1. i # 1
    BY <1>1, <1>4, <1>10 DEF IsResult
  <2>2. i - 1 \in 1..q /\ x[i] = answers[i - 1]
    BY <1>5, <2>1
  <2>3. i \in Nat
    BY <1>3, LenProperties
  <2>4. 1 \in 1..i - 1 /\ i <= 1 + q
    BY <1>1, <2>2, <2>3
  <2>5. x[1].kind = "assistant" /\ x[1].n = x[i].n /\ Len(asked[x[1].n]) = q
    BY <1>1, <1>4, <1>6, <2>2 DEF q
  <2> QED
    BY <2>4, <2>5
<1>11. WellAnswered(x, asked)
  BY <1>9, <1>10 DEF WellAnswered
<1> QED
  BY <1>3, <1>11 DEF x, ms, m
\* What is said of skipped calls holds of one conversation after another.
LEMMA SkipsConcat ==
  ASSUME NEW c \in Seq(Messages), NEW d \in Seq(Messages), NEW sent,
         SkipsFollowed(c, sent), SkipsFollowed(d, sent)
  PROVE  SkipsFollowed(c \o d, sent)
<1> DEFINE x == c \o d
           l == Len(c)
<1>1. /\ x \in Seq(Messages) /\ l \in Nat /\ Len(d) \in Nat
      /\ DOMAIN c = 1..l /\ DOMAIN d = 1..Len(d)
      /\ Len(x) = l + Len(d)
      /\ \A i \in DOMAIN c : i \in DOMAIN x /\ x[i] = c[i]
      /\ \A i \in DOMAIN d : l + i \in DOMAIN x /\ x[l + i] = d[i]
      /\ \A i \in DOMAIN x : i \in DOMAIN c \/ (i - l \in DOMAIN d /\ l + (i - l) = i)
  BY PartsOf
<1>2. Len(c) = l
  OBVIOUS
<1> HIDE DEF x, l
<1>3. ASSUME NEW i \in DOMAIN x, x[i].kind = "skipped"
      PROVE  \E j \in i + 1..Len(x) :
               /\ x[j].kind = "user" /\ x[j].n \in DOMAIN sent /\ sent[x[j].n] = "steer"
               /\ \A k \in i + 1..j - 1 : IsResult(x[k])
  <2>1. CASE i \in DOMAIN c
    <3>1. x[i] = c[i]
      BY <1>1, <2>1
    <3>2. PICK j \in i + 1..l :
            /\ c[j].kind = "user" /\ c[j].n \in DOMAIN sent /\ sent[c[j].n] = "steer"
            /\ \A k \in i + 1..j - 1 : IsResult(c[k])
      BY <1>2, <1>3, <2>1, <3>1 DEF SkipsFollowed
    <3>3. j \in DOMAIN c /\ j \in i + 1..Len(x) /\ \A k \in i + 1..j - 1 : k \in DOMAIN c
      BY <1>1, <2>1
    <3>4. x[j] = c[j] /\ \A k \in i + 1..j - 1 : x[k] = c[k]
      BY <1>1, <3>3
    <3> QED
      BY <3>2, <3>3, <3>4
  <2>2. CASE i \notin DOMAIN c
    <3> DEFINE m == i - l
    <3>1. m \in DOMAIN d /\ l + m = i /\ x[l + m] = d[m] /\ m \in Nat
      BY <1>1, <2>2
    <3> HIDE DEF m
    <3>2. PICK j \in m + 1..Len(d) :
            /\ d[j].kind = "user" /\ d[j].n \in DOMAIN sent /\ sent[d[j].n] = "steer"
            /\ \A k \in m + 1..j - 1 : IsResult(d[k])
      BY <1>3, <3>1 DEF SkipsFollowed
    <3>3. j \in DOMAIN d /\ l + j \in i + 1..Len(x)
      BY <1>1, <3>1
    <3>4. x[l + j] = d[j]
      BY <1>1, <3>3
    <3>5. ASSUME NEW k \in i + 1..(l + j) - 1 PROVE IsResult(x[k])
      <4>1. k - l \in m + 1..j - 1 /\ k - l \in DOMAIN d /\ l + (k - l) = k
        BY <1>1, <3>1, <3>3, SMTT(20), ZenonT(20)
      <4>2. x[k] = d[k - l]
        BY <1>1, <4>1
      <4> QED
        BY <3>2, <4>1, <4>2
    <3> QED
      BY <3>2, <3>3, <3>4, <3>5
  <2> QED
    BY <2>1, <2>2
<1>4. SkipsFollowed(x, sent)
  BY <1>3 DEF SkipsFollowed
<1> QED
  BY <1>4 DEF x

\* It holds where nothing is skipped.
LEMMA SkipsNone ==
  ASSUME NEW d \in Seq(Messages), NEW sent, \A i \in DOMAIN d : d[i].kind # "skipped"
  PROVE  SkipsFollowed(d, sent)
BY DEF SkipsFollowed

\* It holds when more messages are sent.
LEMMA SkipsGrows ==
  ASSUME NEW c \in Seq(Messages), NEW W, NEW sent \in Seq(W), NEW how, SkipsFollowed(c, sent)
  PROVE  SkipsFollowed(c, Append(sent, how))
<1> DEFINE more == Append(sent, how)
<1>1. \A n \in DOMAIN sent : n \in DOMAIN more /\ more[n] = sent[n]
  OBVIOUS
<1> HIDE DEF more
<1>2. SkipsFollowed(c, more)
  BY <1>1 DEF SkipsFollowed
<1> QED
  BY <1>2 DEF more

\* It holds without the failed reply at the end.
LEMMA SkipsFront ==
  ASSUME NEW c \in Seq(Messages), c # <<>>, c[Len(c)].kind = "failed",
         NEW sent, SkipsFollowed(c, sent)
  PROVE  SkipsFollowed(Front(c), sent)
<1> DEFINE f == Front(c)
<1>1. /\ f \in Seq(Messages) /\ Len(c) \in Nat \ {0}
      /\ Len(f) = Len(c) - 1 /\ DOMAIN f = 1..(Len(c) - 1) /\ DOMAIN c = 1..Len(c)
      /\ \A i \in DOMAIN f : i \in DOMAIN c /\ i < Len(c) /\ f[i] = c[i]
  BY FrontOf
<1> HIDE DEF f
<1>2. ASSUME NEW i \in DOMAIN f, f[i].kind = "skipped"
      PROVE  \E j \in i + 1..Len(f) :
               /\ f[j].kind = "user" /\ f[j].n \in DOMAIN sent /\ sent[f[j].n] = "steer"
               /\ \A k \in i + 1..j - 1 : IsResult(f[k])
  <2>1. i \in DOMAIN c /\ f[i] = c[i]
    BY <1>1
  <2>2. PICK j \in i + 1..Len(c) :
          /\ c[j].kind = "user" /\ c[j].n \in DOMAIN sent /\ sent[c[j].n] = "steer"
          /\ \A k \in i + 1..j - 1 : IsResult(c[k])
    BY <1>2, <2>1 DEF SkipsFollowed
  <2>3. j # Len(c)
    BY <2>2
  <2>4. j \in i + 1..Len(f) /\ j \in DOMAIN f /\ \A k \in i + 1..j - 1 : k \in DOMAIN f
    BY <1>1, <2>1, <2>3
  <2>5. f[j] = c[j] /\ \A k \in i + 1..j - 1 : f[k] = c[k]
    BY <1>1, <2>4
  <2> QED
    BY <2>2, <2>4, <2>5
<1>3. SkipsFollowed(f, sent)
  BY <1>2 DEF SkipsFollowed
<1> QED
  BY <1>3 DEF f

\* Results and what comes after them: a steering message first, if any of the
\* calls was skipped.
LEMMA SkipsAnswers ==
  ASSUME NEW answers \in Seq(Messages), \A i \in DOMAIN answers : IsResult(answers[i]),
         NEW p \in Seq(Messages), \A i \in DOMAIN p : p[i].kind = "user", NEW sent,
         (\E i \in DOMAIN answers : answers[i].kind = "skipped") =>
           p # <<>> /\ p[1].n \in DOMAIN sent /\ sent[p[1].n] = "steer"
  PROVE  SkipsFollowed(answers \o p, sent)
<1> DEFINE x == answers \o p
           l == Len(answers)
<1>1. /\ x \in Seq(Messages) /\ l \in Nat /\ Len(p) \in Nat
      /\ DOMAIN answers = 1..l /\ DOMAIN p = 1..Len(p)
      /\ Len(x) = l + Len(p)
      /\ \A i \in DOMAIN answers : i \in DOMAIN x /\ x[i] = answers[i]
      /\ \A i \in DOMAIN p : l + i \in DOMAIN x /\ x[l + i] = p[i]
      /\ \A i \in DOMAIN x : i \in DOMAIN answers \/ (i - l \in DOMAIN p /\ l + (i - l) = i)
  BY PartsOf
<1> HIDE DEF x, l
<1>2. ASSUME NEW i \in DOMAIN x, x[i].kind = "skipped"
      PROVE  \E j \in i + 1..Len(x) :
               /\ x[j].kind = "user" /\ x[j].n \in DOMAIN sent /\ sent[x[j].n] = "steer"
               /\ \A k \in i + 1..j - 1 : IsResult(x[k])
  <2>1. i \in DOMAIN answers
    <3> SUFFICES ASSUME i \notin DOMAIN answers PROVE FALSE
      OBVIOUS
    <3>1. i - l \in DOMAIN p /\ x[i] = p[i - l]
      BY <1>1
    <3> QED
      BY <1>2, <3>1
  <2>2. p # <<>> /\ p[1].n \in DOMAIN sent /\ sent[p[1].n] = "steer"
    BY <1>1, <1>2, <2>1
  <2>3. 1 \in DOMAIN p /\ Len(p) >= 1
    BY <1>1, <2>2
  <2>4. x[l + 1] = p[1] /\ p[1].kind = "user"
    BY <1>1, <2>3
  <2>5. l + 1 \in i + 1..Len(x)
    BY <1>1, <2>1, <2>3
  <2>6. ASSUME NEW k \in i + 1..(l + 1) - 1 PROVE IsResult(x[k])
    <3>1. k \in DOMAIN answers
      BY <1>1, <2>1
    <3> QED
      BY <1>1, <3>1
  <2> QED
    BY <2>2, <2>4, <2>5, <2>6
<1>3. SkipsFollowed(x, sent)
  BY <1>2 DEF SkipsFollowed
<1> QED
  BY <1>3 DEF x

\* Conversations that agree, and messages that are the same.
LEMMA AgreeSame ==
  ASSUME NEW c \in Seq(Messages)
  PROVE  Agree(c, c)
BY DEF Agree

\* Two that agree, after two that agree.
LEMMA AgreeConcat ==
  ASSUME NEW a \in Seq(Messages), NEW b \in Seq(Messages), Agree(a, b),
         NEW c \in Seq(Messages), NEW d \in Seq(Messages), Agree(c, d)
  PROVE  Agree(a \o c, b \o d)
<1> DEFINE x == a \o c
           y == b \o d
           l == Len(a)
<1>1. /\ x \in Seq(Messages) /\ l \in Nat /\ Len(c) \in Nat
      /\ DOMAIN a = 1..l /\ DOMAIN c = 1..Len(c)
      /\ Len(x) = l + Len(c)
      /\ \A i \in DOMAIN a : i \in DOMAIN x /\ x[i] = a[i]
      /\ \A i \in DOMAIN c : l + i \in DOMAIN x /\ x[l + i] = c[i]
      /\ \A i \in DOMAIN x : i \in DOMAIN a \/ (i - l \in DOMAIN c /\ l + (i - l) = i)
  BY PartsOf
<1>2. Len(a) = Len(b) /\ Len(c) = Len(d)
  BY DEF Agree
<1>3. /\ y \in Seq(Messages)
      /\ DOMAIN b = DOMAIN a /\ DOMAIN d = DOMAIN c
      /\ Len(y) = Len(x) /\ DOMAIN y = DOMAIN x
      /\ \A i \in DOMAIN a : y[i] = b[i]
      /\ \A i \in DOMAIN c : y[l + i] = d[i]
  <2> DEFINE m == Len(b)
  <2>1. /\ y \in Seq(Messages)
        /\ DOMAIN b = 1..m /\ DOMAIN d = 1..Len(d)
        /\ Len(y) = m + Len(d)
        /\ \A i \in DOMAIN b : y[i] = b[i]
        /\ \A i \in DOMAIN d : y[m + i] = d[i]
    BY PartsOf, SMTT(20), ZenonT(20)
  <2>2. m = l /\ Len(c) = Len(d)
    BY <1>2
  <2> HIDE DEF m, x, y, l
  <2>3. DOMAIN b = DOMAIN a /\ DOMAIN d = DOMAIN c /\ Len(y) = Len(x)
    BY <1>1, <2>1, <2>2
  <2>4. DOMAIN y = DOMAIN x
    BY <1>1, <2>1, <2>3, LenProperties
  <2> QED
    BY <2>1, <2>2, <2>3, <2>4
<1> HIDE DEF x, y, l
<1>4. /\ \A i \in DOMAIN a : \E j \in DOMAIN a : a[i] = b[j]
      /\ \A j \in DOMAIN a : \E i \in DOMAIN a : a[i] = b[j]
      /\ \A i \in DOMAIN c : \E j \in DOMAIN c : c[i] = d[j]
      /\ \A j \in DOMAIN c : \E i \in DOMAIN c : c[i] = d[j]
  <2>1. ToSet(a) = ToSet(b) /\ ToSet(c) = ToSet(d)
    BY DEF Agree
  <2>2. \A i \in DOMAIN a : a[i] \in {b[j] : j \in DOMAIN a}
    BY <1>3, <2>1 DEF ToSet
  <2>3. \A j \in DOMAIN a : b[j] \in {a[i] : i \in DOMAIN a}
    BY <1>3, <2>1 DEF ToSet
  <2>4. \A i \in DOMAIN c : c[i] \in {d[j] : j \in DOMAIN c}
    BY <1>3, <2>1 DEF ToSet
  <2>5. \A j \in DOMAIN c : d[j] \in {c[i] : i \in DOMAIN c}
    BY <1>3, <2>1 DEF ToSet
  <2> QED
    BY <2>2, <2>3, <2>4, <2>5
<1>5. \A i \in DOMAIN x : \E j \in DOMAIN x : x[i] = y[j]
  <2> SUFFICES ASSUME NEW i \in DOMAIN x PROVE \E j \in DOMAIN x : x[i] = y[j]
    OBVIOUS
  <2>1. CASE i \in DOMAIN a
    BY <1>1, <1>3, <1>4, <2>1
  <2>2. CASE i - l \in DOMAIN c /\ l + (i - l) = i
    <3>1. PICK j \in DOMAIN c : c[i - l] = d[j]
      BY <1>4, <2>2
    <3>2. x[i] = c[i - l] /\ y[l + j] = d[j] /\ l + j \in DOMAIN x
      BY <1>1, <1>3, <2>2
    <3> QED
      BY <3>1, <3>2
  <2> QED
    BY <1>1, <2>1, <2>2
<1>6. \A j \in DOMAIN x : \E i \in DOMAIN x : x[i] = y[j]
  <2> SUFFICES ASSUME NEW j \in DOMAIN x PROVE \E i \in DOMAIN x : x[i] = y[j]
    OBVIOUS
  <2>1. CASE j \in DOMAIN a
    BY <1>1, <1>3, <1>4, <2>1
  <2>2. CASE j - l \in DOMAIN c /\ l + (j - l) = j
    <3>1. PICK i \in DOMAIN c : c[i] = d[j - l]
      BY <1>4, <2>2
    <3>2. y[j] = d[j - l] /\ x[l + i] = c[i] /\ l + i \in DOMAIN x
      BY <1>1, <1>3, <2>2
    <3> QED
      BY <3>1, <3>2
  <2> QED
    BY <1>1, <2>1, <2>2
<1>7. ToSet(x) = ToSet(y)
  BY <1>3, <1>5, <1>6 DEF ToSet
<1>8. ASSUME NEW i \in DOMAIN x
      PROVE  x[i] = y[i] \/ (IsResult(x[i]) /\ IsResult(y[i]) /\ x[i].n = y[i].n)
  <2>1. CASE i \in DOMAIN a
    <3>1. a[i] = b[i] \/ (IsResult(a[i]) /\ IsResult(b[i]) /\ a[i].n = b[i].n)
      BY <2>1 DEF Agree
    <3> QED
      BY <1>1, <1>3, <2>1, <3>1
  <2>2. CASE i - l \in DOMAIN c /\ l + (i - l) = i
    <3> DEFINE k == i - l
    <3>1. c[k] = d[k] \/ (IsResult(c[k]) /\ IsResult(d[k]) /\ c[k].n = d[k].n)
      BY <2>2 DEF Agree
    <3>2. x[i] = c[k] /\ y[i] = d[k]
      BY <1>1, <1>3, <2>2
    <3> QED
      BY <3>1, <3>2
  <2> QED
    BY <1>1, <2>1, <2>2
<1>9. Agree(x, y)
  BY <1>3, <1>7, <1>8 DEF Agree
<1> QED
  BY <1>9 DEF x, y

\* Results of the n-th reply, the calls that results are for, and the results of
\* some calls in another order than that of the calls.
ResultsOf(ms, n) == \A i \in DOMAIN ms : IsResult(ms[i]) /\ ms[i].n = n
CallsIn(ms) == {ms[i].call : i \in DOMAIN ms}
SameResults(all, whole) == \A i \in DOMAIN all : all[i] = whole[all[i].call]

\* The results of a reply in the order in which they came, and in that of the
\* calls.
LEMMA AgreeResults ==
  ASSUME NEW answers \in Seq(Messages), NEW rs \in Seq(Messages), Len(answers) = Len(rs),
         NEW n, ResultsOf(rs, n), SameResults(answers, rs), CallsIn(answers) = 1..Len(rs)
  PROVE  Agree(answers, rs) /\ ResultsOf(answers, n)
<1>a. /\ \A i \in DOMAIN rs : IsResult(rs[i]) /\ rs[i].n = n
      /\ \A i \in DOMAIN answers : answers[i] = rs[answers[i].call]
      /\ {answers[i].call : i \in DOMAIN answers} = 1..Len(rs)
  BY DEF ResultsOf, SameResults, CallsIn
<1> USE <1>a
<1>1. DOMAIN answers = 1..Len(rs) /\ DOMAIN rs = 1..Len(rs) /\ Len(rs) \in Nat
  BY LenProperties
<1>2. \A i \in DOMAIN answers : answers[i].call \in DOMAIN rs
  BY <1>1
<1>3. \A i \in DOMAIN answers : IsResult(answers[i]) /\ answers[i].n = n
  BY <1>2
<1>4. \A k \in DOMAIN rs : \E i \in DOMAIN answers : answers[i] = rs[k]
  <2> SUFFICES ASSUME NEW k \in DOMAIN rs PROVE \E i \in DOMAIN answers : answers[i] = rs[k]
    OBVIOUS
  <2>1. k \in {answers[i].call : i \in DOMAIN answers}
    BY <1>1
  <2>2. PICK i \in DOMAIN answers : answers[i].call = k
    BY <2>1
  <2> QED
    BY <2>2
<1>5. ToSet(answers) = ToSet(rs)
  BY <1>2, <1>4 DEF ToSet
<1>6. Agree(answers, rs)
  BY <1>1, <1>3, <1>5 DEF Agree
<1> QED
  BY <1>3, <1>6 DEF ResultsOf
-----------------------------------------------------------------------------
(* The conversation of the loop and that of the consumer *)

ViewInv ==
  \E view \in Seq(Messages) :
    /\ Catches(messages, stream, view)
    /\ IF pc \in AnsweringPhases
       THEN \E talk, seen, answers \in Seq(Messages) : Answering(view, talk, seen, answers)
       ELSE Settled(view)

\* What there is to show after a step that leads to a settled conversation.
LEMMA SettledNext ==
  ASSUME NEW view \in Seq(Messages), Catches(messages', stream', view),
         pc' \notin AnsweringPhases,
         WellAnswered(view, called'), SkipsFollowed(view \o pending', via'),
         SkipsFollowed(context' \o pending', via'),
         pc' # "idle" => WellAnswered(context', called') /\ Agree(view, context')
  PROVE  ViewInv'
<1>1. Settled(view)'
  BY DEF Settled, WellAnswered, AnsweredBy, SkipsFollowed, Agree, IsResult, ToSet
<1>2. Catches(messages, stream, view)'
  BY DEF Catches
<1>3. ~(pc \in AnsweringPhases)'
  BY DEF AnsweringPhases
<1> QED
  BY <1>1, <1>2, <1>3 DEF ViewInv

\* What there is to show after a step that leads to a turn's tools.
LEMMA AnsweringNext ==
  ASSUME NEW view \in Seq(Messages), Catches(messages', stream', view),
         pc' \in AnsweringPhases,
         NEW talk \in Seq(Messages), NEW seen \in Seq(Messages), NEW answers \in Seq(Messages),
         NEW reply, reply = Message("assistant", Len(called'), 0),
         called' # <<>>, calls' = called'[Len(called')],
         context' = Append(talk, reply), view = Append(seen, reply) \o answers,
         Agree(seen, talk),
         WellAnswered(talk, called'), WellAnswered(seen, called'),
         SkipsFollowed(talk, via'), SkipsFollowed(seen, via'),
         pc' = "replied" => launched' = 0,
         pc' \in {"pollTool", "pollGroup"} => launched' = processedCount',
         pc' = "toolsDone" =>
           /\ \A i \in DOMAIN answers : answers[i] = results'[answers[i].call]
           /\ {answers[i].call : i \in DOMAIN answers} = 1..Len(calls')
           /\ Len(answers) = Len(calls'),
         pc' # "toolsDone" =>
           /\ \A i \in DOMAIN answers :
                answers[i] = Message("result", Len(called'), answers[i].call)
           /\ {answers[i].call : i \in DOMAIN answers} = (1..launched') \ running'
           /\ Len(answers) = Cardinality((1..launched') \ running')
  PROVE  ViewInv'
<1>1. Answering(view, talk, seen, answers)'
  BY DEF Answering, LastReply, Message, WellAnswered, AnsweredBy, SkipsFollowed, Agree, IsResult, ToSet
<1>2. Catches(messages, stream, view)'
  BY DEF Catches
<1>3. (pc \in AnsweringPhases)'
  BY DEF AnsweringPhases
<1> QED
  BY <1>1, <1>2, <1>3 DEF ViewInv
\* What is known of a settled conversation.
LEMMA SettledNow ==
  ASSUME ViewInv, pc \notin AnsweringPhases
  PROVE  \E view \in Seq(Messages) :
           /\ Catches(messages, stream, view)
           /\ WellAnswered(view, called)
           /\ SkipsFollowed(view \o pending, via) /\ SkipsFollowed(context \o pending, via)
           /\ pc # "idle" => WellAnswered(context, called) /\ Agree(view, context)
BY DEF ViewInv, Settled

\* Messages are only sent, never taken back.
ViaGrowsBy == via' = via \/ \E how : via' = Append(via, how)

\* A message that is sent leaves what is known of the calls that were skipped.
LEMMA SkipsVia ==
  ASSUME NEW c \in Seq(Messages), via \in Seq({"prompt", "steer", "followUp"}), ViaGrowsBy,
         SkipsFollowed(c, via)
  PROVE  SkipsFollowed(c, via')
<1>1. CASE via' = via
  BY <1>1
<1>2. CASE \E how : via' = Append(via, how)
  <2>1. PICK how : via' = Append(via, how)
    BY <1>2
  <2>2. SkipsFollowed(c, Append(via, how))
    BY SkipsGrows
  <2> QED
    BY <2>1, <2>2
<1> QED
  BY <1>1, <1>2 DEF ViaGrowsBy

\* Messages of the user.
FromUsers(ms) == \A i \in DOMAIN ms : ms[i].kind = "user"

\* They add nothing that has to be answered or explained.
LEMMA UsersFollow ==
  ASSUME NEW c \in Seq(Messages), NEW ms \in Seq(Messages), FromUsers(ms)
  PROVE  /\ c \o ms \in Seq(Messages)
         /\ \A asked \in Seq(Seq(CallKinds)) : WellAnswered(c, asked) => WellAnswered(c \o ms, asked)
         /\ \A sent : SkipsFollowed(c, sent) => SkipsFollowed(c \o ms, sent)
<1>1. \A i \in DOMAIN ms : ms[i].kind = "user"
  BY DEF FromUsers
<1>2. ASSUME NEW asked \in Seq(Seq(CallKinds)), WellAnswered(c, asked)
      PROVE  WellAnswered(c \o ms, asked)
  <2>1. WellAnswered(ms, asked)
    BY <1>1, QuietAnswered
  <2> QED
    BY <1>2, <2>1, AnsweredConcat
<1>3. ASSUME NEW sent, SkipsFollowed(c, sent) PROVE SkipsFollowed(c \o ms, sent)
  <2>1. SkipsFollowed(ms, sent)
    BY <1>1, SkipsNone
  <2> QED
    BY <1>3, <2>1, SkipsConcat
<1> QED
  BY <1>2, <1>3, PartsOf

\* Of the messages that were pending, only those of a turn's head, of the last
\* poll of a run and of the poll that skipped calls may still be.
LEMMA PendingNone ==
  ASSUME QueuesInv, pc \notin {"turnHead", "toolsDone", "followUps"}
  PROVE  pending = <<>>
BY DEF QueuesInv

\* Steps that change neither the conversation nor what was asked.
LEMMA SettledSame ==
  ASSUME IInv, QueuesInv, ViewInv,
         pc \notin AnsweringPhases, pc' \notin AnsweringPhases, pc' # "idle" => pc # "idle",
         UNCHANGED <<context, called>>, ViaGrowsBy,
         pending' = pending \/ (pending = <<>> /\ FromUsers(pending') /\ pending' \in Seq(Messages)),
         \A v \in Seq(Messages) : Catches(messages, stream, v) => Catches(messages', stream', v)
  PROVE  ViewInv'
<1>1. /\ context \in Seq(Messages) /\ pending \in Seq(Messages)
      /\ via \in Seq({"prompt", "steer", "followUp"})
  BY ContextTypes DEF IInv, TypeOK
<1>2. PICK view \in Seq(Messages) :
        /\ Catches(messages, stream, view)
        /\ WellAnswered(view, called)
        /\ SkipsFollowed(view \o pending, via) /\ SkipsFollowed(context \o pending, via)
        /\ pc # "idle" => WellAnswered(context, called) /\ Agree(view, context)
  BY SettledNow
<1>3. ASSUME NEW c \in Seq(Messages), SkipsFollowed(c \o pending, via)
      PROVE  SkipsFollowed(c \o pending', via')
  <2>1. CASE pending' = pending
    <3>1. c \o pending \in Seq(Messages)
      BY <1>1
    <3>2. SkipsFollowed(c \o pending, via')
      BY <1>1, <1>3, <3>1, SkipsVia
    <3> QED
      BY <2>1, <3>2
  <2>2. CASE pending = <<>> /\ FromUsers(pending') /\ pending' \in Seq(Messages)
    <3>1. c \o pending = c
      BY <2>2, ConcatEmptySeq
    <3>2. SkipsFollowed(c, via')
      BY <1>1, <1>3, <3>1, SkipsVia
    <3> QED
      BY <2>2, <3>2, UsersFollow
  <2> QED
    BY <2>1, <2>2
<1>4. SkipsFollowed(view \o pending', via') /\ SkipsFollowed(context \o pending', via')
  BY <1>1, <1>2, <1>3
<1>5. Catches(messages', stream', view) /\ WellAnswered(view, called')
  BY <1>2
<1>6. pc' # "idle" => WellAnswered(context', called') /\ Agree(view, context')
  BY <1>2
<1>7. SkipsFollowed(context' \o pending', via')
  BY <1>4
<1> QED
  BY <1>4, <1>5, <1>6, <1>7, SettledNext

\* A run starts: what the consumer has is what the model gets.
LEMMA ViewStart ==
  ASSUME IInv, QueuesInv, StreamInv, ViewInv, pc = "idle",
         NEW prompts \in Seq(Messages), FromUsers(prompts), StartRun(prompts),
         ViaGrowsBy, pending' \in Seq(Messages), FromUsers(pending')
  PROVE  ViewInv'
<1>1. /\ messages \in Seq(Messages) /\ called \in Seq(Seq(CallKinds))
      /\ stream = <<>> /\ pending = <<>>
      /\ via \in Seq({"prompt", "steer", "followUp"})
  BY ContextTypes, PendingNone DEF StreamInv, IInv, TypeOK
<1>2. PICK view \in Seq(Messages) :
        /\ Catches(messages, stream, view)
        /\ WellAnswered(view, called) /\ SkipsFollowed(view \o pending, via)
  BY SettledNow DEF AnsweringPhases
<1>3. view = messages
  BY <1>1, <1>2, CatchesNothing
<1>4. WellAnswered(messages, called) /\ SkipsFollowed(messages, via')
  <2>1. view \o pending = messages
    BY <1>1, <1>3, ConcatEmptySeq
  <2>2. SkipsFollowed(messages, via)
    BY <1>2, <2>1
  <2> QED
    BY <1>1, <1>2, <1>3, <2>2, SkipsVia
<1> DEFINE talk == messages \o prompts
<1>5. /\ talk \in Seq(Messages) /\ WellAnswered(talk, called)
      /\ SkipsFollowed(talk, via')
  BY <1>1, <1>4, UsersFollow
<1>6. /\ context' = talk /\ messages' = messages /\ called' = called /\ pc' = "turnHead"
  BY DEF StartRun
<1>7. Catches(messages', stream', talk)
  <2>1. Adds(stream', prompts)
    BY StartTail
  <2>2. /\ stream' \in Seq(Events) /\ Catches(<<>>, stream', prompts)
    BY <2>1 DEF Adds
  <2>3. PICK t \in Seq(Events) : t = stream'
    BY <2>2
  <2>4. Catches(messages, <<>>, messages) /\ <<>> \in Seq(Events)
    BY <1>1, CatchesNothing
  <2>5. Catches(messages, <<>> \o t, talk)
    BY <1>1, <2>2, <2>3, <2>4, CatchesMore
  <2>6. <<>> \o t = t
    BY ConcatEmptySeq
  <2> QED
    BY <1>6, <2>3, <2>5, <2>6
<1> HIDE DEF talk
<1>8. SkipsFollowed(talk \o pending', via')
  BY <1>5, UsersFollow
<1>9. Agree(talk, talk)
  BY <1>5, AgreeSame
<1>10. pc' \notin AnsweringPhases
  BY <1>6 DEF AnsweringPhases
<1>11. WellAnswered(talk, called') /\ WellAnswered(context', called') /\ Agree(talk, context')
  BY <1>5, <1>6, <1>9
<1>12. SkipsFollowed(context' \o pending', via')
  BY <1>6, <1>8
<1> QED
  BY <1>5, <1>7, <1>8, <1>10, <1>11, <1>12, SettledNext

\* The failed reply is dropped.
LEMMA ViewDrop ==
  ASSUME IInv, QueuesInv, StreamInv, ViewInv, DropFailedReply
  PROVE  ViewInv'
<1>1. /\ pc = "idle" /\ pc' = "idle" /\ messages # <<>> /\ messages[Len(messages)].kind = "failed"
      /\ messages' = Front(messages) /\ UNCHANGED <<stream, called, context, pending, via>>
  BY DEF DropFailedReply, Last, turnVars
<1>2. /\ messages \in Seq(Messages) /\ called \in Seq(Seq(CallKinds))
      /\ stream = <<>> /\ pending = <<>> /\ context \in Seq(Messages)
  BY <1>1, ContextTypes, PendingNone DEF StreamInv
<1>3. PICK view \in Seq(Messages) :
        /\ Catches(messages, stream, view)
        /\ WellAnswered(view, called) /\ SkipsFollowed(view \o pending, via)
        /\ SkipsFollowed(context \o pending, via)
  BY <1>1, SettledNow DEF AnsweringPhases
<1>4. view = messages
  BY <1>2, <1>3, CatchesNothing
<1>5. view \o pending = messages
  BY <1>2, <1>4, ConcatEmptySeq
<1> DEFINE f == Front(messages)
<1>6. f \in Seq(Messages) /\ WellAnswered(f, called) /\ SkipsFollowed(f, via)
  BY <1>1, <1>2, <1>3, <1>4, <1>5, FrontOf, AnsweredFront, SkipsFront
<1> HIDE DEF f
<1>7. f \o pending = f
  BY <1>2, <1>6, ConcatEmptySeq
<1>8. Catches(f, <<>>, f)
  BY <1>6, CatchesNothing
<1>9. messages' = f /\ stream' = <<>>
  BY <1>1, <1>2 DEF f
<1>10. /\ WellAnswered(f, called') /\ SkipsFollowed(f \o pending', via')
       /\ SkipsFollowed(context' \o pending', via') /\ Catches(messages', stream', f)
  BY <1>1, <1>3, <1>6, <1>7, <1>8, <1>9
<1>11. pc' \notin AnsweringPhases
  BY <1>1 DEF AnsweringPhases
<1> QED
  BY <1>1, <1>6, <1>10, <1>11, SettledNext

\* What the consumer will have after more events.
LEMMA ViewMore ==
  ASSUME IInv, NEW view \in Seq(Messages), Catches(messages, stream, view),
         NEW t, NEW ms, Adds(t, ms), stream' = stream \o t, messages' = messages
  PROVE  view \o ms \in Seq(Messages) /\ Catches(messages', stream', view \o ms)
<1>1. stream \in Seq(Events) /\ messages \in Seq(Messages)
  BY ContextTypes
<1>2. t \in Seq(Events) /\ ms \in Seq(Messages) /\ Catches(<<>>, t, ms)
  BY DEF Adds
<1>3. Catches(messages, stream \o t, view \o ms)
  BY <1>1, <1>2, CatchesMore
<1> QED
  BY <1>2, <1>3

\* Nothing more when they are the ends of no messages.
LEMMA ViewKept ==
  ASSUME IInv, NEW t, Adds(t, <<>>), stream' = stream \o t, messages' = messages
  PROVE  \A v \in Seq(Messages) : Catches(messages, stream, v) => Catches(messages', stream', v)
<1>1. ASSUME NEW v \in Seq(Messages), Catches(messages, stream, v)
      PROVE  Catches(messages', stream', v)
  <2>1. Catches(messages', stream', v \o <<>>)
    BY <1>1, ViewMore
  <2>2. v \o <<>> = v
    BY ConcatEmptySeq
  <2> QED
    BY <2>1, <2>2
<1> QED
  BY <1>1

\* The pending messages are injected.
LEMMA ViewBegin ==
  ASSUME IInv, QueuesInv, ViewInv, BeginTurn
  PROVE  ViewInv'
<1>1. /\ pc = "turnHead" /\ pc' = "request" /\ context' = context \o pending
      /\ pending' = <<>> /\ UNCHANGED <<messages, called, via>>
  BY DEF BeginTurn, agentVars
<1>2. /\ context \in Seq(Messages) /\ pending \in Seq(Messages) /\ called \in Seq(Seq(CallKinds))
  BY ContextTypes
<1>3. FromUsers(pending)
  BY DEF QueuesInv, FromUser, FromUsers
<1>4. PICK t : stream' = stream \o t /\ Adds(t, pending)
  BY BeginTail
<1>5. PICK view \in Seq(Messages) :
        /\ Catches(messages, stream, view)
        /\ WellAnswered(view, called)
        /\ SkipsFollowed(view \o pending, via) /\ SkipsFollowed(context \o pending, via)
        /\ WellAnswered(context, called) /\ Agree(view, context)
  BY <1>1, SettledNow DEF AnsweringPhases
<1> DEFINE v == view \o pending
           c == context \o pending
<1>6. v \in Seq(Messages) /\ Catches(messages', stream', v)
  BY <1>1, <1>4, <1>5, ViewMore
<1>7. c \in Seq(Messages) /\ WellAnswered(v, called) /\ WellAnswered(c, called)
  BY <1>2, <1>3, <1>5, UsersFollow
<1>8. Agree(v, c)
  BY <1>2, <1>5, AgreeConcat, AgreeSame
<1>9. SkipsFollowed(v, via) /\ SkipsFollowed(c, via) /\ context' = c
  BY <1>1, <1>5
<1> HIDE DEF v, c
<1>10. v \o <<>> = v /\ c \o <<>> = c
  BY <1>6, <1>7, ConcatEmptySeq
<1>11. /\ WellAnswered(v, called') /\ SkipsFollowed(v \o pending', via')
       /\ SkipsFollowed(context' \o pending', via')
       /\ WellAnswered(context', called') /\ Agree(v, context')
  BY <1>1, <1>7, <1>8, <1>9, <1>10
<1>12. pc' \notin AnsweringPhases
  BY <1>1 DEF AnsweringPhases
<1> QED
  BY <1>6, <1>11, <1>12, SettledNext
\* The model replies, or fails.
LEMMA ViewReply ==
  ASSUME IInv, QueuesInv, ViewInv, NEW kind, NEW cs \in Seq(CallKinds), Reply(kind, cs)
  PROVE  ViewInv'
<1> DEFINE message == Message(kind, Len(called) + 1, 0)
           ms == <<message>>
           asked == Append(called, cs)
<1>1. /\ pc = "response" /\ called' = asked /\ calls' = cs /\ launched' = 0 /\ results' = <<>>
      /\ pc' = IF kind = "failed" THEN "failed" ELSE "replied"
      /\ kind \in {"assistant", "failed"}
      /\ UNCHANGED <<messages, pending, running, via>>
  BY DEF Reply, agentVars
<1>2. message \in Messages /\ context' = Append(context, message)
  BY ReplyTail
<1>3. PICK t : stream' = stream \o t /\ Adds(t, ms)
  BY ReplyTail
<1>4. message.kind = kind
  BY DEF Message
<1> HIDE DEF message
<1>5. ms \in Seq(Messages) /\ DOMAIN ms = 1..1 /\ ms[1] = message
  BY <1>2
<1> HIDE DEF ms
<1>6. /\ context \in Seq(Messages) /\ called \in Seq(Seq(CallKinds)) /\ Len(called) \in Nat
      /\ running = {} /\ pending = <<>>
  BY <1>1, ContextTypes, PendingNone
<1>7. /\ asked \in Seq(Seq(CallKinds)) /\ Len(asked) = Len(called) + 1
      /\ asked[Len(called) + 1] = cs /\ asked # <<>>
  <2>1. called \in Seq(Seq(CallKinds)) /\ cs \in Seq(CallKinds)
    BY <1>6
  <2>2. /\ Append(called, cs) \in Seq(Seq(CallKinds)) /\ Len(Append(called, cs)) = Len(called) + 1
        /\ Append(called, cs)[Len(called) + 1] = cs /\ Append(called, cs) # <<>>
    <3> DEFINE grown == Append(called, cs)
    <3>1. grown \in Seq(Seq(CallKinds)) /\ Len(grown) = Len(called) + 1
      BY <2>1
    <3>2. grown[Len(called) + 1] = cs
      BY <2>1
    <3>3. grown # <<>>
      <4>1. Len(grown) # 0
        BY <1>6, <3>1
      <4> HIDE DEF grown
      <4> QED
        BY <4>1
    <3> QED
      BY <3>1, <3>2, <3>3
  <2> QED
    BY <2>2
<1>8. PICK view \in Seq(Messages) :
        /\ Catches(messages, stream, view)
        /\ WellAnswered(view, called)
        /\ SkipsFollowed(view \o pending, via) /\ SkipsFollowed(context \o pending, via)
        /\ WellAnswered(context, called) /\ Agree(view, context)
  BY <1>1, SettledNow DEF AnsweringPhases
<1>9. view \o ms \in Seq(Messages) /\ Catches(messages', stream', view \o ms)
  BY <1>1, <1>3, <1>8, ViewMore
<1>10. WellAnswered(view, asked) /\ WellAnswered(context, asked)
  BY <1>6, <1>8, AnsweredGrows
<1>11. SkipsFollowed(view, via) /\ SkipsFollowed(context, via)
  <2>1. view \o pending = view /\ context \o pending = context
    BY <1>6, ConcatEmptySeq
  <2> QED
    BY <1>8, <2>1
<1>12. Append(context, message) = context \o ms /\ Append(view, message) = view \o ms
  BY <1>2, <1>6, AppendIsConcat DEF ms
<1> HIDE DEF asked
<1>13. CASE kind = "failed"
  <2> DEFINE v == view \o ms
             c == context \o ms
  <2>1. \A i \in DOMAIN ms : ms[i].kind \in {"user", "failed"} /\ ms[i].kind # "skipped"
    BY <1>4, <1>5, <1>13
  <2>2. WellAnswered(ms, asked) /\ SkipsFollowed(ms, via)
    BY <1>5, <2>1, QuietAnswered, SkipsNone
  <2>3. v \in Seq(Messages) /\ c \in Seq(Messages)
    BY <1>5, <1>6, PartsOf
  <2>4. WellAnswered(v, asked) /\ WellAnswered(c, asked)
    BY <1>5, <1>6, <1>7, <1>10, <2>2, AnsweredConcat
  <2>5. SkipsFollowed(v, via) /\ SkipsFollowed(c, via)
    BY <1>5, <1>6, <1>11, <2>2, SkipsConcat
  <2>6. Agree(v, c)
    BY <1>5, <1>6, <1>8, AgreeConcat, AgreeSame
  <2>7. context' = c /\ pending' = <<>> /\ pc' \notin AnsweringPhases
    BY <1>1, <1>2, <1>6, <1>12, <1>13 DEF AnsweringPhases
  <2>8. Catches(messages', stream', v)
    BY <1>9
  <2> HIDE DEF v, c
  <2>9. v \o <<>> = v /\ c \o <<>> = c
    BY <2>3, ConcatEmptySeq
  <2>10. /\ WellAnswered(v, called') /\ SkipsFollowed(v \o pending', via')
         /\ SkipsFollowed(context' \o pending', via')
         /\ WellAnswered(context', called') /\ Agree(v, context')
    BY <1>1, <2>4, <2>5, <2>6, <2>7, <2>9
  <2> QED
    BY <2>3, <2>7, <2>8, <2>10, SettledNext
<1>14. CASE kind = "assistant"
  <2> DEFINE v == view \o ms
  <2>1. v \in Seq(Messages) /\ Catches(messages', stream', v)
    BY <1>9
  <2>2. v = Append(view, message) \o <<>>
    <3>1. v \o <<>> = v
      BY <2>1, ConcatEmptySeq
    <3> QED
      BY <1>12, <3>1
  <2> HIDE DEF v
  <2>3. pc' = "replied" /\ pc' \in AnsweringPhases
    BY <1>1, <1>14 DEF AnsweringPhases
  <2>4. message = Message("assistant", Len(called'), 0)
    BY <1>1, <1>7, <1>14 DEF message
  <2>5. called' # <<>> /\ calls' = called'[Len(called')]
    BY <1>1, <1>7
  <2>6. /\ WellAnswered(context, called') /\ WellAnswered(view, called')
        /\ SkipsFollowed(context, via') /\ SkipsFollowed(view, via') /\ Agree(view, context)
    BY <1>1, <1>8, <1>10, <1>11
  <2>7. /\ <<>> \in Seq(Messages) /\ DOMAIN <<>> = {} /\ Len(<<>>) = 0
    OBVIOUS
  <2>8. (1..launched') \ running' = {}
    BY <1>1
  <2>9. Cardinality((1..launched') \ running') = 0
    BY <2>8, FS_EmptySet
  <2>10. /\ \A i \in DOMAIN <<>> :
              <<>>[i] = Message("result", Len(called'), <<>>[i].call)
         /\ {<<>>[i].call : i \in DOMAIN <<>>} = (1..launched') \ running'
         /\ Len(<<>>) = Cardinality((1..launched') \ running')
    <3>1. \A i \in DOMAIN <<>> :
              <<>>[i] = Message("result", Len(called'), <<>>[i].call)
      BY <2>7
    <3>2. {<<>>[i].call : i \in DOMAIN <<>>} = {}
      BY <2>7
    <3> QED
      BY <2>7, <2>8, <2>9, <3>1, <3>2
  <2>11. launched' = 0 /\ context' = Append(context, message)
    BY <1>1, <1>2
  <2> QED
    BY <1>6, <2>1, <2>2, <2>3, <2>4, <2>5, <2>6, <2>7, <2>10, <2>11, AnsweringNext
<1> QED
  BY <1>1, <1>13, <1>14
\* What is known of a conversation in a turn that has its reply.
LEMMA AnsweringNow ==
  ASSUME ViewInv, pc \in AnsweringPhases
  PROVE  \E view \in Seq(Messages) :
           /\ Catches(messages, stream, view)
           /\ \E talk, seen, answers \in Seq(Messages) : Answering(view, talk, seen, answers)
BY DEF ViewInv

\* Three parts of a conversation, either way.
LEMMA ThreeParts ==
  ASSUME NEW a \in Seq(Messages), NEW b \in Seq(Messages), NEW c \in Seq(Messages)
  PROVE  (a \o b) \o c = a \o (b \o c)
BY ConcatAssociative

\* A step within such a turn: more results have come.
LEMMA AnsweringStep ==
  ASSUME IInv, pc' \in AnsweringPhases, UNCHANGED <<context, calls, called>>, ViaGrowsBy,
         NEW view \in Seq(Messages), NEW talk \in Seq(Messages), NEW seen \in Seq(Messages),
         NEW answers \in Seq(Messages), Answering(view, talk, seen, answers),
         NEW more \in Seq(Messages), Catches(messages', stream', view \o more),
         pc' = "replied" => launched' = 0,
         pc' \in {"pollTool", "pollGroup"} => launched' = processedCount',
         NEW all, all = answers \o more,
         pc' = "toolsDone" =>
           /\ \A i \in DOMAIN all : all[i] = results'[all[i].call]
           /\ CallsIn(all) = 1..Len(calls')
           /\ Len(all) = Len(calls'),
         pc' # "toolsDone" =>
           /\ \A i \in DOMAIN all : all[i] = Message("result", Len(called'), all[i].call)
           /\ CallsIn(all) = (1..launched') \ running'
           /\ Len(all) = Cardinality((1..launched') \ running')
  PROVE  ViewInv'
<1>1. /\ called # <<>> /\ calls = called[Len(called)]
      /\ context = Append(talk, LastReply) /\ view = Append(seen, LastReply) \o answers
      /\ Agree(seen, talk)
      /\ WellAnswered(talk, called) /\ WellAnswered(seen, called)
      /\ SkipsFollowed(talk, via) /\ SkipsFollowed(seen, via)
  BY DEF Answering
<1>2. called \in Seq(Seq(CallKinds)) /\ Len(called) \in Nat
  BY ContextTypes
<1> DEFINE reply == Message("assistant", Len(called), 0)
<1>3. reply \in Messages /\ LastReply = reply
  BY <1>2, MessageType DEF LastReply, MessageKinds
<1>4. Append(seen, reply) \in Seq(Messages)
  BY <1>3
<1>5. all \in Seq(Messages) /\ view \o more \in Seq(Messages)
  BY PartsOf
<1>6. view \o more = Append(seen, reply) \o all
  <2> DEFINE head == Append(seen, reply)
  <2>1. head \in Seq(Messages)
    BY <1>4
  <2>2. view = head \o answers
    BY <1>1, <1>3
  <2> HIDE DEF head
  <2>3. (head \o answers) \o more = head \o (answers \o more)
    BY <2>1, ThreeParts, SMTT(20), ZenonT(20)
  <2> QED
    BY <2>2, <2>3 DEF head
<1>7. SkipsFollowed(talk, via') /\ SkipsFollowed(seen, via')
  <2>1. via \in Seq({"prompt", "steer", "followUp"})
    BY DEF IInv, TypeOK
  <2> QED
    BY <1>1, <2>1, SkipsVia
<1>8. /\ reply = Message("assistant", Len(called'), 0)
      /\ called' # <<>> /\ calls' = called'[Len(called')]
      /\ context' = Append(talk, reply)
      /\ WellAnswered(talk, called') /\ WellAnswered(seen, called')
  BY <1>1, <1>3
<1> HIDE DEF reply
<1> DEFINE v == view \o more
<1>9. v \in Seq(Messages) /\ v = Append(seen, reply) \o all /\ Catches(messages', stream', v)
  BY <1>5, <1>6
<1> HIDE DEF v
<1>10. Agree(seen, talk) /\ all \in Seq(Messages)
  BY <1>1, <1>5
<1>11. Answering(v, talk, seen, all)'
  BY <1>7, <1>8, <1>9, <1>10
  DEF Answering, LastReply, Message, WellAnswered, AnsweredBy, SkipsFollowed, Agree, IsResult, ToSet, CallsIn
<1>12. Catches(messages, stream, v)'
  BY <1>9 DEF Catches
<1>13. (pc \in AnsweringPhases)'
  BY DEF AnsweringPhases
<1> QED
  BY <1>9, <1>10, <1>11, <1>12, <1>13 DEF ViewInv

\* A step that brings no result.
LEMMA AnsweringSame ==
  ASSUME IInv, ViewInv, pc \in AnsweringPhases, pc' = pc,
         UNCHANGED <<context, calls, called, launched, running, processedCount, results>>,
         ViaGrowsBy,
         \A v \in Seq(Messages) : Catches(messages, stream, v) => Catches(messages', stream', v)
  PROVE  ViewInv'
<1>1. PICK view \in Seq(Messages) :
        /\ Catches(messages, stream, view)
        /\ \E talk, seen, answers \in Seq(Messages) : Answering(view, talk, seen, answers)
  BY AnsweringNow
<1>2. PICK talk \in Seq(Messages), seen \in Seq(Messages), answers \in Seq(Messages) :
        Answering(view, talk, seen, answers)
  BY <1>1
<1>3. view \o <<>> = view /\ answers = answers \o <<>> /\ <<>> \in Seq(Messages)
  BY ConcatEmptySeq
<1>4. Catches(messages', stream', view \o <<>>)
  BY <1>1, <1>3
<1>5. /\ pc' = "replied" => launched' = 0
      /\ pc' \in {"pollTool", "pollGroup"} => launched' = processedCount'
  BY <1>2 DEF Answering
<1>6. pc' = "toolsDone" =>
        /\ \A i \in DOMAIN answers : answers[i] = results'[answers[i].call]
        /\ CallsIn(answers) = 1..Len(calls')
        /\ Len(answers) = Len(calls')
  BY <1>2 DEF Answering, CallsIn
<1>7. pc' # "toolsDone" =>
        /\ \A i \in DOMAIN answers : answers[i] = Message("result", Len(called'), answers[i].call)
        /\ CallsIn(answers) = (1..launched') \ running'
        /\ Len(answers) = Cardinality((1..launched') \ running')
  BY <1>2 DEF Answering, CallsIn
<1> QED
  BY <1>2, <1>3, <1>4, <1>5, <1>6, <1>7, AnsweringStep

\* Calls start behind those that returned.
LEMMA ViewLaunch ==
  ASSUME IInv, ViewInv, pc \in {"replied", "pollTool", "pollGroup"},
         NEW k \in 1..Len(calls), Launch(k),
         IF pc = "replied" THEN k = 1 ELSE k = processedCount + 1,
         UNCHANGED <<messages, context, calls, called, processedCount, via>>
  PROVE  ViewInv'
<1>1. PICK view \in Seq(Messages) :
        /\ Catches(messages, stream, view)
        /\ \E talk, seen, answers \in Seq(Messages) : Answering(view, talk, seen, answers)
  BY AnsweringNow DEF AnsweringPhases
<1>2. PICK talk \in Seq(Messages), seen \in Seq(Messages), answers \in Seq(Messages) :
        Answering(view, talk, seen, answers)
  BY <1>1
<1>3. /\ running = {} /\ launched \in Nat /\ processedCount \in Nat /\ Len(calls) \in Nat
  BY ContextTypes
<1>4. k = launched + 1
  BY <1>2, <1>3 DEF Answering
<1>5. running' = k..launched' /\ launched' \in k..Len(calls) /\ pc' = "tools"
  BY LaunchTail DEF Launch
<1>6. (1..launched') \ running' = (1..launched) \ running
  <2> DEFINE l == launched'
             q == running'
  <2>1. l \in k..Len(calls) /\ q = k..l
    BY <1>5
  <2> HIDE DEF l, q
  <2>2. (1..l) \ (k..l) = 1..launched
    BY <1>3, <1>4, <2>1
  <2> QED
    BY <1>3, <2>1, <2>2 DEF l, q
<1>7. \A v \in Seq(Messages) : Catches(messages, stream, v) => Catches(messages', stream', v)
  <2>1. PICK t \in Seq(Events) : stream' = stream \o t /\ Adds(t, <<>>)
    BY LaunchTail
  <2> QED
    BY <2>1, ViewKept
<1>8. view \o <<>> = view /\ answers = answers \o <<>> /\ <<>> \in Seq(Messages)
  BY ConcatEmptySeq
<1>9. Catches(messages', stream', view \o <<>>)
  BY <1>1, <1>7, <1>8
<1>10. pc # "toolsDone" =>
        /\ \A i \in DOMAIN answers : answers[i] = Message("result", Len(called), answers[i].call)
        /\ CallsIn(answers) = (1..launched) \ running
        /\ Len(answers) = Cardinality((1..launched) \ running)
  BY <1>2 DEF Answering, CallsIn
<1>11. /\ \A i \in DOMAIN answers : answers[i] = Message("result", Len(called'), answers[i].call)
       /\ CallsIn(answers) = (1..launched') \ running'
       /\ Len(answers) = Cardinality((1..launched') \ running')
  BY <1>6, <1>10
<1>12. pc' \in AnsweringPhases /\ ViaGrowsBy
  BY <1>5 DEF AnsweringPhases, ViaGrowsBy
<1> QED
  BY <1>2, <1>5, <1>8, <1>9, <1>11, <1>12, AnsweringStep
\* The calls that both of two lists of results are for.
LEMMA CallsConcat ==
  ASSUME NEW a \in Seq(Messages), NEW b \in Seq(Messages)
  PROVE  CallsIn(a \o b) = CallsIn(a) \union CallsIn(b)
<1> DEFINE x == a \o b
           l == Len(a)
<1>1. /\ \A i \in DOMAIN a : i \in DOMAIN x /\ x[i] = a[i]
      /\ \A i \in DOMAIN b : l + i \in DOMAIN x /\ x[l + i] = b[i]
      /\ \A i \in DOMAIN x : i \in DOMAIN a \/ (i - l \in DOMAIN b /\ l + (i - l) = i)
  BY PartsOf
<1> HIDE DEF x, l
<1>2. ASSUME NEW i \in DOMAIN x PROVE x[i].call \in CallsIn(a) \union CallsIn(b)
  <2>1. CASE i \in DOMAIN a
    BY <1>1, <2>1 DEF CallsIn
  <2>2. CASE i - l \in DOMAIN b /\ l + (i - l) = i
    <3>1. x[i] = b[i - l]
      BY <1>1, <2>2
    <3> QED
      BY <2>2, <3>1 DEF CallsIn
  <2> QED
    BY <1>1, <2>1, <2>2
<1>3. ASSUME NEW i \in DOMAIN a PROVE a[i].call \in CallsIn(x)
  BY <1>1 DEF CallsIn
<1>4. ASSUME NEW i \in DOMAIN b PROVE b[i].call \in CallsIn(x)
  <2>1. l + i \in DOMAIN x /\ x[l + i].call = b[i].call
    BY <1>1
  <2> QED
    BY <2>1 DEF CallsIn
<1>5. \A c \in CallsIn(x) : c \in CallsIn(a) \union CallsIn(b)
  BY <1>2 DEF CallsIn
<1>6. \A c \in CallsIn(a) : c \in CallsIn(x)
  BY <1>3 DEF CallsIn
<1>7. \A c \in CallsIn(b) : c \in CallsIn(x)
  BY <1>4 DEF CallsIn
<1>8. CallsIn(x) = CallsIn(a) \union CallsIn(b)
  BY <1>5, <1>6, <1>7
<1> QED
  BY <1>8 DEF x

\* The calls up to l that no longer run, when call k of those that do returns.
LEMMA OneReturns ==
  ASSUME NEW l \in Nat, NEW runs, runs \subseteq 1..l, NEW k \in runs
  PROVE  /\ (1..l) \ (runs \ {k}) = ((1..l) \ runs) \union {k}
         /\ (1..(l + 1)) \ ((runs \ {k}) \union {l + 1}) = ((1..l) \ runs) \union {k}
         /\ Cardinality(((1..l) \ runs) \union {k}) = Cardinality((1..l) \ runs) + 1
<1>1. (1..l) \ (runs \ {k}) = ((1..l) \ runs) \union {k}
  OBVIOUS
<1>2. 1..(l + 1) = (1..l) \union {l + 1} /\ l + 1 \notin 1..l
  OBVIOUS
<1>3. (1..(l + 1)) \ ((runs \ {k}) \union {l + 1}) = ((1..l) \ runs) \union {k}
  BY <1>2, Zenon
<1>4. IsFiniteSet((1..l) \ runs)
  <2>1. IsFiniteSet(1..l)
    BY FS_Interval
  <2> QED
    BY <2>1, FS_Difference
<1>5. k \notin (1..l) \ runs
  OBVIOUS
<1>6. Cardinality(((1..l) \ runs) \union {k}) = Cardinality((1..l) \ runs) + 1
  BY <1>4, <1>5, FS_AddElement
<1> QED
  BY <1>1, <1>3, <1>6

\* A call returns.
LEMMA ViewComplete ==
  ASSUME IInv, ViewInv, NEW k \in Nat, CompleteTool(k)
  PROVE  ViewInv'
<1> DEFINE m == Result("result", k)
           ms == <<m>>
<1>1. /\ pc = "tools" /\ UNCHANGED <<messages, context, calls, called, via>>
      /\ pc' \in {"tools", "pollTool", "pollGroup"}
      /\ pc' # "tools" => launched' = processedCount'
  BY DEF CompleteTool, agentVars, turnVars
<1>2. PICK view \in Seq(Messages) :
        /\ Catches(messages, stream, view)
        /\ \E talk, seen, answers \in Seq(Messages) : Answering(view, talk, seen, answers)
  BY <1>1, AnsweringNow DEF AnsweringPhases
<1>3. PICK talk \in Seq(Messages), seen \in Seq(Messages), answers \in Seq(Messages) :
        Answering(view, talk, seen, answers)
  BY <1>2
<1>4. k \in running /\ m \in Messages
  BY CompleteTail
<1>5. PICK t \in Seq(Events) :
        /\ stream' = stream \o t /\ Adds(t, ms)
        /\ \/ running' = running \ {k} /\ launched' = launched
           \/ running' = (running \ {k}) \union {launched + 1} /\ launched' = launched + 1
  BY CompleteTail
<1>6. m = Message("result", Len(called), k) /\ m.call = k
  BY DEF Result, Message
<1> HIDE DEF m
<1>7. ms \in Seq(Messages) /\ DOMAIN ms = 1..1 /\ ms[1] = m /\ Len(ms) = 1
  BY <1>4
<1> HIDE DEF ms
<1>8. Catches(messages', stream', view \o ms)
  BY <1>1, <1>2, <1>5, ViewMore
<1>9. /\ \A i \in DOMAIN answers : answers[i] = Message("result", Len(called), answers[i].call)
      /\ CallsIn(answers) = (1..launched) \ running
      /\ Len(answers) = Cardinality((1..launched) \ running)
  BY <1>1, <1>3 DEF Answering, CallsIn
<1>10. /\ (1..launched') \ running' = ((1..launched) \ running) \union {k}
       /\ Cardinality(((1..launched) \ running) \union {k}) = Cardinality((1..launched) \ running) + 1
  <2>1. launched \in Nat /\ running \subseteq 1..launched
    BY ContextTypes
  <2> DEFINE rest == (1..launched) \ running
             r == running'
             l == launched'
  <2>2. /\ (1..launched) \ (running \ {k}) = rest \union {k}
        /\ (1..(launched + 1)) \ ((running \ {k}) \union {launched + 1}) = rest \union {k}
        /\ Cardinality(rest \union {k}) = Cardinality(rest) + 1
    BY <1>4, <2>1, OneReturns, SMTT(20), ZenonT(20)
  <2>3. \/ r = running \ {k} /\ l = launched
        \/ r = (running \ {k}) \union {launched + 1} /\ l = launched + 1
    BY <1>5
  <2> HIDE DEF rest, r, l
  <2>4. (1..l) \ r = rest \union {k}
    <3>1. CASE r = running \ {k} /\ l = launched
      BY <2>2, <3>1
    <3>2. CASE r = (running \ {k}) \union {launched + 1} /\ l = launched + 1
      BY <2>2, <3>2
    <3> QED
      BY <2>3, <3>1, <3>2
  <2> QED
    BY <2>2, <2>4 DEF rest, r, l
<1> DEFINE all == answers \o ms
<1>11. /\ Len(all) = Len(answers) + 1
       /\ \A i \in DOMAIN all : all[i] = Message("result", Len(called), all[i].call)
  <2> DEFINE l == Len(answers)
  <2>1. /\ Len(all) = l + Len(ms)
        /\ \A i \in DOMAIN answers : all[i] = answers[i]
        /\ \A i \in DOMAIN ms : all[l + i] = ms[i]
        /\ \A i \in DOMAIN all : i \in DOMAIN answers \/ (i - l \in DOMAIN ms /\ l + (i - l) = i)
    <3>1. ms \in Seq(Messages)
      BY <1>7
    <3>2. Len(all) = l + Len(ms)
      BY <3>1, PartsOf
    <3>3. /\ \A i \in DOMAIN answers : i \in DOMAIN all /\ all[i] = answers[i]
          /\ \A i \in DOMAIN ms : l + i \in DOMAIN all /\ all[l + i] = ms[i]
      BY <3>1, PartsOf
    <3>4. \A i \in DOMAIN all : i \in DOMAIN answers \/ (i - l \in DOMAIN ms /\ l + (i - l) = i)
      BY <3>1, PartsOf
    <3> QED
      BY <3>2, <3>3, <3>4
  <2> HIDE DEF all, l
  <2>2. ASSUME NEW i \in DOMAIN all PROVE all[i] = Message("result", Len(called), all[i].call)
    <3>1. CASE i \in DOMAIN answers
      BY <1>9, <2>1, <3>1
    <3>2. CASE i - l \in DOMAIN ms /\ l + (i - l) = i
      <4>1. all[i] = ms[i - l] /\ i - l = 1
        BY <1>7, <2>1, <3>2
      <4> QED
        BY <1>6, <1>7, <4>1
    <3> QED
      BY <2>1, <3>1, <3>2
  <2>3. Len(all) = l + 1
    BY <1>7, <2>1
  <2> QED
    BY <2>2, <2>3 DEF l
<1>12. CallsIn(all) = CallsIn(answers) \union {k}
  <2>1. CallsIn(ms) = {k}
    BY <1>6, <1>7 DEF CallsIn
  <2> QED
    BY <1>7, <2>1, CallsConcat
<1>13. /\ \A i \in DOMAIN all : all[i] = Message("result", Len(called'), all[i].call)
       /\ CallsIn(all) = (1..launched') \ running'
       /\ Len(all) = Cardinality((1..launched') \ running')
  BY <1>1, <1>9, <1>10, <1>11, <1>12
<1>14. /\ pc' \in AnsweringPhases /\ ViaGrowsBy /\ pc' # "replied" /\ pc' # "toolsDone"
       /\ pc' \in {"pollTool", "pollGroup"} => launched' = processedCount'
  BY <1>1 DEF AnsweringPhases, ViaGrowsBy
<1> DEFINE more == ms
<1>15. all = answers \o more /\ more \in Seq(Messages) /\ Catches(messages', stream', view \o more)
  BY <1>7, <1>8
<1> HIDE DEF all, more
<1> QED
  BY <1>1, <1>3, <1>13, <1>14, <1>15, AnsweringStep
\* A message is what it was made of.
LEMMA MessageParts ==
  /\ \A m \in Messages : m = Message(m.kind, m.n, m.call)
  /\ \A kind, n, call : Message(kind, n, call).kind = kind
                        /\ Message(kind, n, call).n = n /\ Message(kind, n, call).call = call
BY DEF Message, Messages

\* The results of the calls that returned, of which there are l, in the order of
\* the calls and in that of the answers, and those of the n calls left.
Returned(rs, rest, answers, l, n, reply) ==
  /\ rs \in Seq(Messages) /\ rest \in Seq(Messages) /\ answers \in Seq(Messages)
  /\ l \in Nat /\ n \in Nat /\ Len(rs) = l /\ Len(rest) = n /\ Len(answers) = l
  /\ \A i \in 1..l : rs[i] = Message("result", reply, i)
  /\ \A i \in 1..n : rest[i] = Message("skipped", reply, l + i)
  /\ \A i \in DOMAIN answers : answers[i] = Message("result", reply, answers[i].call)
  /\ CallsIn(answers) = 1..l

\* The results of the calls that returned and of those that were skipped, together.
LEMMA AllResults ==
  ASSUME NEW rs, NEW rest, NEW answers, NEW l, NEW n, NEW reply,
         Returned(rs, rest, answers, l, n, reply)
  PROVE  /\ SameResults(answers \o rest, rs \o rest)
         /\ CallsIn(answers \o rest) = 1..(l + n)
         /\ Len(answers \o rest) = l + n
<1> DEFINE all == answers \o rest
           whole == rs \o rest
<1>a. /\ rs \in Seq(Messages) /\ rest \in Seq(Messages) /\ answers \in Seq(Messages)
      /\ l \in Nat /\ n \in Nat /\ Len(rs) = l /\ Len(rest) = n /\ Len(answers) = l
  BY DEF Returned
<1>b. /\ \A i \in 1..l : rs[i] = Message("result", reply, i)
      /\ \A i \in 1..n : rest[i] = Message("skipped", reply, l + i)
      /\ \A i \in DOMAIN answers : answers[i] = Message("result", reply, answers[i].call)
      /\ CallsIn(answers) = 1..l
  BY DEF Returned
<1> USE <1>a, <1>b
<1>1. DOMAIN rs = 1..l /\ DOMAIN rest = 1..n
  BY LenProperties
<1>2. /\ Len(all) = l + n
      /\ \A i \in DOMAIN answers : i \in DOMAIN all /\ all[i] = answers[i]
      /\ \A i \in DOMAIN rest : l + i \in DOMAIN all /\ all[l + i] = rest[i]
      /\ \A i \in DOMAIN all : i \in DOMAIN answers \/ (i - l \in DOMAIN rest /\ l + (i - l) = i)
  <2> DEFINE k == Len(answers)
  <2>1. Len(all) = k + Len(rest)
    BY PartsOf
  <2>2. /\ \A i \in DOMAIN answers : i \in DOMAIN all /\ all[i] = answers[i]
        /\ \A i \in DOMAIN rest : k + i \in DOMAIN all /\ all[k + i] = rest[i]
    BY PartsOf
  <2>3. \A i \in DOMAIN all : i \in DOMAIN answers \/ (i - k \in DOMAIN rest /\ k + (i - k) = i)
    BY PartsOf
  <2>4. k = l /\ Len(rest) = n
    OBVIOUS
  <2> HIDE DEF all, k
  <2> QED
    BY <2>1, <2>2, <2>3, <2>4
<1>3. /\ \A i \in DOMAIN rs : i \in DOMAIN whole /\ whole[i] = rs[i]
      /\ \A i \in DOMAIN rest : l + i \in DOMAIN whole /\ whole[l + i] = rest[i]
  BY PartsOf
<1> HIDE DEF all, whole
<1>4. ASSUME NEW i \in DOMAIN all PROVE all[i] = whole[all[i].call]
  <2>1. CASE i \in DOMAIN answers
    <3> DEFINE c == answers[i].call
    <3>1. c \in 1..l
      BY <2>1 DEF CallsIn
    <3>2. answers[i] = Message("result", reply, c)
      BY <2>1
    <3>3. all[i] = answers[i] /\ all[i].call = c
      BY <1>2, <2>1
    <3> HIDE DEF c
    <3>4. whole[c] = Message("result", reply, c)
      BY <1>1, <1>3, <3>1
    <3> QED
      BY <3>2, <3>3, <3>4
  <2>2. CASE i - l \in DOMAIN rest /\ l + (i - l) = i
    <3> DEFINE j == i - l
    <3>1. j \in 1..n /\ all[i] = rest[j] /\ whole[l + j] = rest[j]
      BY <1>1, <1>2, <1>3, <2>2
    <3> HIDE DEF j
    <3>2. rest[j] = Message("skipped", reply, l + j)
      BY <3>1
    <3>3. all[i].call = l + j
      BY <3>1, <3>2, MessageParts
    <3> QED
      BY <3>1, <3>3
  <2> QED
    BY <1>2, <2>1, <2>2
<1>5. CallsIn(rest) = (l + 1)..(l + n)
  <2>1. \A i \in 1..n : rest[i].call = l + i
    BY MessageParts
  <2>2. \A c \in (l + 1)..(l + n) : c - l \in 1..n /\ l + (c - l) = c
    OBVIOUS
  <2>3. \A i \in 1..n : l + i \in (l + 1)..(l + n)
    OBVIOUS
  <2>4. \A c \in (l + 1)..(l + n) : c \in CallsIn(rest)
    <3>1. ASSUME NEW c \in (l + 1)..(l + n) PROVE c \in CallsIn(rest)
      <4>1. PICK j \in 1..n : l + j = c
        BY <2>2
      <4> QED
        BY <1>1, <2>1, <4>1 DEF CallsIn
    <3> QED
      BY <3>1
  <2>5. \A c \in CallsIn(rest) : c \in (l + 1)..(l + n)
    <3>1. \A i \in DOMAIN rest : rest[i].call \in (l + 1)..(l + n)
      BY <1>1, <2>1, <2>3
    <3> QED
      BY <3>1 DEF CallsIn
  <2> QED
    BY <2>4, <2>5
<1>6. CallsIn(all) = 1..(l + n)
  <2>1. (1..l) \union ((l + 1)..(l + n)) = 1..(l + n)
    OBVIOUS
  <2>2. CallsIn(all) = CallsIn(answers) \union CallsIn(rest)
    BY CallsConcat DEF all
  <2> QED
    BY <1>5, <2>1, <2>2
<1>7. SameResults(all, whole)
  BY <1>4 DEF SameResults
<1> QED
  BY <1>2, <1>6, <1>7 DEF all, whole
\* The last poll of a turn's tools: the calls left, if any, are skipped.
LEMMA ViewDone ==
  ASSUME IInv, QueuesInv, ViewInv, pc \in {"pollTool", "pollGroup"}, pc' = "toolsDone",
         NEW n \in Nat, processedCount + n = Len(calls),
         NEW rest \in Seq(Messages), Len(rest) = n,
         \A i \in 1..n : rest[i] = Result("skipped", processedCount + i),
         results' = results \o rest, NEW t, stream' = stream \o t, Adds(t, rest),
         UNCHANGED <<messages, context, calls, called, via>>
  PROVE  ViewInv'
<1>1. PICK view \in Seq(Messages) :
        /\ Catches(messages, stream, view)
        /\ \E talk, seen, answers \in Seq(Messages) : Answering(view, talk, seen, answers)
  BY AnsweringNow DEF AnsweringPhases
<1>2. PICK talk \in Seq(Messages), seen \in Seq(Messages), answers \in Seq(Messages) :
        Answering(view, talk, seen, answers)
  BY <1>1
<1> DEFINE l == processedCount
           reply == Len(called)
           all == answers \o rest
<1>3. /\ l \in Nat /\ reply \in Nat /\ results \in Seq(Messages) /\ running = {} /\ launched = l
  BY <1>2, ContextTypes DEF Answering
<1>4. Len(results) = l /\ \A i \in 1..l : results[i] = Message("result", reply, i)
  <2>1. /\ Len(results) = l
        /\ \A i \in 1..l : results[i].call = i /\ results[i].n = reply
    BY DEF IInv, GroupRuns, ToolPhases, ResultsFor
  <2>2. \A i \in 1..l : results[i] \in Messages /\ results[i].kind = "result"
    <3>1. DOMAIN results = 1..l
      BY <1>3, <2>1, LenProperties
    <3>2. \A i \in DOMAIN results : results[i].kind = "result"
      BY DEF QueuesInv, ToolPhases
    <3> QED
      BY <1>3, <3>1, <3>2
  <2>3. ASSUME NEW i \in 1..l PROVE results[i] = Message("result", reply, i)
    <3> DEFINE m == results[i]
    <3>1. m \in Messages /\ m.kind = "result" /\ m.n = reply /\ m.call = i
      BY <2>1, <2>2
    <3> HIDE DEF m
    <3>2. m = Message(m.kind, m.n, m.call)
      BY <3>1, MessageParts
    <3>3. m = Message("result", reply, i)
      BY <3>1, <3>2
    <3> QED
      BY <3>3 DEF m
  <2> QED
    BY <2>1, <2>3
<1>5. \A i \in 1..n : rest[i] = Message("skipped", reply, l + i)
  BY DEF Result
<1>6. /\ \A i \in DOMAIN answers : answers[i] = Message("result", reply, answers[i].call)
      /\ CallsIn(answers) = (1..launched) \ running
      /\ Len(answers) = Cardinality((1..launched) \ running)
  BY <1>2 DEF Answering, CallsIn
<1>7. CallsIn(answers) = 1..l /\ Len(answers) = l
  <2>1. (1..launched) \ running = 1..l
    BY <1>3
  <2>2. Cardinality(1..l) = l
    BY <1>3, FS_Interval
  <2> QED
    BY <1>6, <2>1, <2>2
<1>8. /\ SameResults(all, results \o rest)
      /\ CallsIn(all) = 1..(l + n)
      /\ Len(all) = l + n
  <2> DEFINE rs == results
  <2>1. /\ l \in Nat /\ reply \in Nat /\ rs \in Seq(Messages)
        /\ Len(rs) = l /\ Len(rest) = n
        /\ \A i \in 1..l : rs[i] = Message("result", reply, i)
        /\ \A i \in 1..n : rest[i] = Message("skipped", reply, l + i)
        /\ \A i \in DOMAIN answers : answers[i] = Message("result", reply, answers[i].call)
        /\ CallsIn(answers) = 1..l /\ Len(answers) = l
    BY <1>3, <1>4, <1>5, <1>6, <1>7
  <2> HIDE DEF l, reply, rs
  <2>2. /\ SameResults(answers \o rest, rs \o rest)
        /\ CallsIn(answers \o rest) = 1..(l + n)
        /\ Len(answers \o rest) = l + n
    <3>1. Returned(rs, rest, answers, l, n, reply)
      BY <2>1 DEF Returned
    <3>2. Len(answers \o rest) = l + n
      BY <3>1, AllResults
    <3>3. CallsIn(answers \o rest) = 1..(l + n)
      BY <3>1, AllResults
    <3>4. SameResults(answers \o rest, rs \o rest)
      BY <3>1, AllResults
    <3> QED
      BY <3>2, <3>3, <3>4
  <2> QED
    BY <2>2 DEF rs
<1>9. Catches(messages', stream', view \o rest)
  BY <1>1, ViewMore
<1> HIDE DEF all
<1>10. /\ \A i \in DOMAIN all : all[i] = results'[all[i].call]
       /\ CallsIn(all) = 1..Len(calls')
       /\ Len(all) = Len(calls')
  BY <1>8 DEF SameResults
<1>11. pc' \in AnsweringPhases /\ ViaGrowsBy /\ all = answers \o rest
  BY DEF AnsweringPhases, ViaGrowsBy, all
<1> QED
  BY <1>2, <1>9, <1>10, <1>11, AnsweringStep

\* The polls between the calls and behind them.
LEMMA ViewPoll ==
  ASSUME IInv, QueuesInv, ViewInv, PollAfterTool \/ PollAfterGroup
  PROVE  ViewInv'
<1>1. /\ pc \in {"pollTool", "pollGroup"} /\ running = {}
      /\ UNCHANGED <<messages, context, calls, processedCount, called, via>>
      /\ \/ SkipRemaining
         \/ /\ processedCount + 1 \in 1..Len(calls) /\ Launch(processedCount + 1)
            /\ results' = results
         \/ /\ UNCHANGED <<launched, running, results, stream>>
            /\ pc' = "pollGroup" \/ (pc' = "toolsDone" /\ processedCount = Len(calls))
  BY PollCases DEF agentVars
<1>2. /\ processedCount \in Nat /\ Len(calls) \in Nat /\ processedCount <= Len(calls)
      /\ called \in Seq(Seq(CallKinds)) /\ results \in Seq(Messages) /\ stream \in Seq(Events)
  BY ContextTypes
<1> DEFINE n == Len(calls) - processedCount
<1>3. n \in Nat /\ processedCount + n = Len(calls)
  BY <1>2
<1>4. CASE SkipRemaining
  <2> DEFINE rest == Results("skipped", processedCount + 1, Len(calls))
             t == [i \in 1..(3 * n) |->
                     SkipEvents(processedCount + 1 + ((i - 1) \div 3))[1 + ((i - 1) % 3)]]
  <2>1. pc' = "toolsDone" /\ results' = results \o rest /\ stream' = stream \o t
    BY <1>4 DEF SkipRemaining
  <2>2. Adds(t, rest)
    <3>1. Adds(t, Results("skipped", processedCount + 1, processedCount + n))
      BY <1>2, <1>3, SkipTail
    <3> QED
      BY <1>3, <3>1
  <2>3. /\ rest \in Seq(Messages) /\ Len(rest) = n
        /\ \A i \in 1..n : rest[i] = Result("skipped", processedCount + i)
    <3> DEFINE a == processedCount + 1
               b == Len(calls)
    <3>1. /\ a \in Nat /\ b \in Nat /\ a <= b + 1 /\ b - a + 1 = n
          /\ \A i \in 1..n : a + i - 1 = processedCount + i
      BY <1>2, <1>3
    <3> HIDE DEF a, b, n
    <3>2. /\ Results("skipped", a, b) \in Seq(Messages) /\ Len(Results("skipped", a, b)) = n
          /\ \A i \in 1..n : Results("skipped", a, b)[i] = Message("skipped", Len(called), a + i - 1)
      BY <1>2, <3>1, ResultsType
    <3> QED
      BY <3>1, <3>2 DEF a, b, Result
  <2> HIDE DEF rest, t, n
  <2> QED
    BY <1>1, <1>3, <2>1, <2>2, <2>3, ViewDone
<1>5. CASE processedCount + 1 \in 1..Len(calls) /\ Launch(processedCount + 1)
  <2> DEFINE k == processedCount + 1
  <2>1. k \in 1..Len(calls) /\ Launch(k) /\ pc # "replied" /\ k = processedCount + 1
    BY <1>1, <1>5
  <2> HIDE DEF k
  <2> QED
    BY <1>1, <2>1, ViewLaunch
<1>6. CASE UNCHANGED <<launched, running, results, stream>> /\ pc' = "toolsDone" /\ processedCount = Len(calls)
  <2>1. /\ 0 \in Nat /\ processedCount + 0 = Len(calls) /\ <<>> \in Seq(Messages) /\ Len(<<>>) = 0
        /\ \A i \in 1..0 : <<>>[i] = Result("skipped", processedCount + i)
    BY <1>2, <1>6
  <2>2. results' = results \o <<>> /\ stream' = stream \o <<>>
    BY <1>2, <1>6, ConcatEmptySeq
  <2> QED
    BY <1>1, <1>6, <2>1, <2>2, EmptyTail, ViewDone
<1>7. CASE UNCHANGED <<launched, running, results, stream>> /\ pc' = "pollGroup"
  <2>1. PICK view \in Seq(Messages) :
          /\ Catches(messages, stream, view)
          /\ \E talk, seen, answers \in Seq(Messages) : Answering(view, talk, seen, answers)
    BY <1>1, AnsweringNow DEF AnsweringPhases
  <2>2. PICK talk \in Seq(Messages), seen \in Seq(Messages), answers \in Seq(Messages) :
          Answering(view, talk, seen, answers)
    BY <2>1
  <2>3. view \o <<>> = view /\ answers = answers \o <<>> /\ <<>> \in Seq(Messages)
    BY ConcatEmptySeq
  <2>4. Catches(messages', stream', view \o <<>>)
    BY <1>1, <1>7, <2>1, <2>3
  <2>5. launched' = processedCount'
    BY <1>1, <1>7, <2>2 DEF Answering
  <2>6. /\ \A i \in DOMAIN answers : answers[i] = Message("result", Len(called'), answers[i].call)
        /\ CallsIn(answers) = (1..launched') \ running'
        /\ Len(answers) = Cardinality((1..launched') \ running')
    BY <1>1, <1>7, <2>2 DEF Answering, CallsIn
  <2>7. pc' \in AnsweringPhases /\ ViaGrowsBy
    BY <1>1, <1>7 DEF AnsweringPhases, ViaGrowsBy
  <2> QED
    BY <1>1, <1>7, <2>2, <2>3, <2>4, <2>5, <2>6, <2>7, AnsweringStep
<1> QED
  BY <1>1, <1>4, <1>5, <1>6, <1>7
\* A message, and what follows it.
LEMMA AppendThen ==
  ASSUME NEW c \in Seq(Messages), NEW m \in Messages, NEW rs \in Seq(Messages)
  PROVE  Append(c, m) \o rs = c \o (<<m>> \o rs)
<1>1. <<m>> \in Seq(Messages)
  OBVIOUS
<1>2. Append(c, m) = c \o <<m>>
  BY AppendIsConcat
<1>3. (c \o <<m>>) \o rs = c \o (<<m>> \o rs)
  BY <1>1, ThreeParts
<1> QED
  BY <1>2, <1>3

\* A reply and its results, behind a conversation whose replies have theirs.
LEMMA AnsweredReply ==
  ASSUME NEW c \in Seq(Messages), NEW asked \in Seq(Seq(CallKinds)), asked # <<>>,
         NEW reply, reply = Message("assistant", Len(asked), 0),
         NEW rs \in Seq(Messages), Len(rs) = Len(asked[Len(asked)]),
         ResultsOf(rs, Len(asked)), CallsIn(rs) = 1..Len(rs), WellAnswered(c, asked)
  PROVE  /\ reply \in Messages /\ Append(c, reply) \o rs \in Seq(Messages)
         /\ Append(c, reply) \o rs = c \o (<<reply>> \o rs)
         /\ WellAnswered(Append(c, reply) \o rs, asked)
<1> DEFINE n == Len(asked)
           both == <<reply>> \o rs
<1>1. n \in DOMAIN asked /\ n \in Nat
  <2>1. Len(asked) \in Nat /\ DOMAIN asked = 1..Len(asked)
    BY LenProperties
  <2>2. Len(asked) # 0
    OBVIOUS
  <2> QED
    BY <2>1, <2>2
<1>2. reply \in Messages
  BY <1>1, MessageType DEF MessageKinds
<1>3. both \in Seq(Messages) /\ WellAnswered(both, asked)
  <2>1. {rs[i].call : i \in DOMAIN rs} = 1..Len(asked[n])
    BY DEF CallsIn
  <2>a. \A i \in DOMAIN rs : IsResult(rs[i]) /\ rs[i].n = n
    BY DEF ResultsOf
  <2>2. /\ <<Message("assistant", n, 0)>> \o rs \in Seq(Messages)
        /\ WellAnswered(<<Message("assistant", n, 0)>> \o rs, asked)
    BY <1>1, <2>1, <2>a, ReplyAnswered
  <2> QED
    BY <2>2
<1>4. Append(c, reply) \o rs = c \o both
  BY <1>2, AppendThen
<1> HIDE DEF both
<1>5. c \o both \in Seq(Messages) /\ WellAnswered(c \o both, asked)
  BY <1>3, AnsweredConcat, PartsOf
<1> QED
  BY <1>2, <1>4, <1>5 DEF both

\* The messages that are injected next explain the calls that were skipped.
LEMMA ExplainedReply ==
  ASSUME NEW c \in Seq(Messages), NEW sent, SkipsFollowed(c, sent),
         NEW reply \in Messages, reply.kind = "assistant",
         NEW rs \in Seq(Messages), \A i \in DOMAIN rs : IsResult(rs[i]),
         NEW p \in Seq(Messages), FromUsers(p),
         (\E i \in DOMAIN rs : rs[i].kind = "skipped") =>
           p # <<>> /\ p[1].n \in DOMAIN sent /\ sent[p[1].n] = "steer"
  PROVE  SkipsFollowed((c \o (<<reply>> \o rs)) \o p, sent)
<1> DEFINE one == <<reply>>
           tail == rs \o p
<1>1. one \in Seq(Messages) /\ \A i \in DOMAIN one : one[i].kind # "skipped"
  OBVIOUS
<1>2. tail \in Seq(Messages)
  BY PartsOf
<1>3. SkipsFollowed(tail, sent)
  BY SkipsAnswers DEF FromUsers
<1> HIDE DEF one, tail
<1>4. one \o tail \in Seq(Messages)
  BY <1>1, <1>2, PartsOf
<1>5. SkipsFollowed(one \o tail, sent)
  <2>1. SkipsFollowed(one, sent)
    BY <1>1, SkipsNone
  <2> QED
    BY <1>1, <1>2, <1>3, <2>1, SkipsConcat
<1>6. SkipsFollowed(c \o (one \o tail), sent)
  BY <1>4, <1>5, SkipsConcat
<1>7. (c \o (one \o rs)) \o p = c \o (one \o tail)
  <2>1. one \o rs \in Seq(Messages)
    BY <1>1, PartsOf
  <2>2. (c \o (one \o rs)) \o p = c \o ((one \o rs) \o p)
    BY <2>1, ThreeParts, SMTT(20), ZenonT(20)
  <2>3. (one \o rs) \o p = one \o (rs \o p)
    BY <1>1, ThreeParts
  <2> QED
    BY <2>2, <2>3 DEF tail
<1> QED
  BY <1>6, <1>7 DEF one
\* The results of a turn's calls join the context.
LEMMA ViewTurnEnds ==
  ASSUME IInv, pc' = "turnHead", UNCHANGED <<called, via>>,
         NEW view \in Seq(Messages), NEW talk \in Seq(Messages), NEW seen \in Seq(Messages),
         NEW answers \in Seq(Messages), Answering(view, talk, seen, answers),
         Catches(messages', stream', view),
         NEW rs \in Seq(Messages), Len(rs) = Len(calls), context' = context \o rs,
         ResultsOf(rs, Len(called)), CallsIn(rs) = 1..Len(rs),
         Len(answers) = Len(rs), SameResults(answers, rs), CallsIn(answers) = 1..Len(rs),
         NEW p \in Seq(Messages), pending' = p, FromUsers(p),
         (\E i \in DOMAIN rs : rs[i].kind = "skipped") =>
           p # <<>> /\ p[1].n \in DOMAIN via /\ via[p[1].n] = "steer"
  PROVE  ViewInv'
<1> DEFINE reply == Message("assistant", Len(called), 0)
           one == <<reply>>
           v == Append(seen, reply) \o answers
           c == Append(talk, reply) \o rs
<1>1. /\ called # <<>> /\ calls = called[Len(called)]
      /\ context = Append(talk, reply) /\ view = v
      /\ Agree(seen, talk)
      /\ WellAnswered(talk, called) /\ WellAnswered(seen, called)
      /\ SkipsFollowed(talk, via) /\ SkipsFollowed(seen, via)
  BY DEF Answering, LastReply
<1>2. called \in Seq(Seq(CallKinds))
  BY ContextTypes
<1>3. Agree(answers, rs) /\ ResultsOf(answers, Len(called))
  BY AgreeResults
<1>b. \A i \in DOMAIN rs : IsResult(rs[i])
  BY DEF ResultsOf
<1>c. \A i \in DOMAIN answers : IsResult(answers[i])
  BY <1>3 DEF ResultsOf
<1>4. \A i \in DOMAIN answers : answers[i].call \in DOMAIN rs
  <2>1. DOMAIN rs = 1..Len(rs)
    BY LenProperties
  <2> QED
    BY <2>1 DEF CallsIn
<1>5. (\E i \in DOMAIN answers : answers[i].kind = "skipped") =>
        p # <<>> /\ p[1].n \in DOMAIN via /\ via[p[1].n] = "steer"
  BY <1>4 DEF SameResults
<1>6. /\ reply \in Messages /\ c \in Seq(Messages)
      /\ c = talk \o (one \o rs) /\ WellAnswered(c, called)
  BY <1>1, <1>2, AnsweredReply
<1>7. v \in Seq(Messages) /\ v = seen \o (one \o answers) /\ WellAnswered(v, called)
  <2>1. Len(answers) = Len(called[Len(called)]) /\ CallsIn(answers) = 1..Len(answers)
    BY <1>1
  <2>2. ResultsOf(answers, Len(called)) /\ WellAnswered(seen, called) /\ called # <<>>
    BY <1>1, <1>3
  <2>3. PICK asked \in Seq(Seq(CallKinds)) : asked = called
    BY <1>2
  <2>4. /\ reply = Message("assistant", Len(asked), 0) /\ asked # <<>>
        /\ Len(answers) = Len(asked[Len(asked)]) /\ CallsIn(answers) = 1..Len(answers)
        /\ ResultsOf(answers, Len(asked)) /\ WellAnswered(seen, asked)
    BY <2>1, <2>2, <2>3
  <2> HIDE DEF reply
  <2>5. /\ Append(seen, reply) \o answers \in Seq(Messages)
        /\ Append(seen, reply) \o answers = seen \o (<<reply>> \o answers)
        /\ WellAnswered(Append(seen, reply) \o answers, asked)
    <3>1. Append(seen, reply) \o answers \in Seq(Messages)
      BY <2>4, AnsweredReply
    <3>2. Append(seen, reply) \o answers = seen \o (<<reply>> \o answers)
      <4>1. reply \in Messages
        BY <1>6
      <4> QED
        BY <4>1, AppendThen
    <3>3. WellAnswered(Append(seen, reply) \o answers, asked)
      BY <2>4, AnsweredReply
    <3> QED
      BY <3>1, <3>2, <3>3
  <2> QED
    BY <2>3, <2>5
<1>8. reply.kind = "assistant"
  BY DEF Message
<1> HIDE DEF reply
<1>9. SkipsFollowed(c \o p, via)
  <2>1. SkipsFollowed((talk \o (<<reply>> \o rs)) \o p, via)
    BY <1>1, <1>6, <1>8, <1>b, ExplainedReply
  <2> QED
    BY <1>6, <2>1
<1>10. SkipsFollowed(v \o p, via)
  <2>1. SkipsFollowed((seen \o (<<reply>> \o answers)) \o p, via)
    BY <1>1, <1>5, <1>6, <1>8, <1>c, ExplainedReply
  <2> QED
    BY <1>7, <2>1
<1>11. Agree(v, c)
  <2>1. one \in Seq(Messages)
    BY <1>6
  <2> HIDE DEF one
  <2>2. Agree(one \o answers, one \o rs)
    BY <1>3, <2>1, AgreeSame, AgreeConcat
  <2>3. one \o answers \in Seq(Messages) /\ one \o rs \in Seq(Messages)
    BY <2>1, PartsOf
  <2>4. Agree(seen \o (one \o answers), talk \o (one \o rs))
    BY <1>1, <2>2, <2>3, AgreeConcat
  <2> QED
    BY <1>6, <1>7, <2>4
<1>12. context' = c /\ view = v
  BY <1>1
<1> HIDE DEF v, c, one
<1>13. /\ WellAnswered(v, called') /\ SkipsFollowed(v \o pending', via')
       /\ SkipsFollowed(context' \o pending', via')
       /\ WellAnswered(context', called') /\ Agree(v, context')
       /\ Catches(messages', stream', v) /\ pc' \notin AnsweringPhases
  BY <1>6, <1>7, <1>9, <1>10, <1>11, <1>12 DEF AnsweringPhases
<1> QED
  BY <1>7, <1>13, SettledNext

\* Whatever the last poll of a turn takes was sent to steer.
LEMMA SteeringTaken ==
  ASSUME IInv, QueuesInv, DequeueSteering
  PROVE  pending' \in Seq(Messages) /\ FromUsers(pending')
<1>1. steeringQueue \in Seq(Messages) /\ FromUsers(steeringQueue)
  BY DEF IInv, TypeOK, QueuesInv, FromSteering, FromUsers
<1>2. pending' = Taken(steeringQueue, SteeringMode)
  BY DEF DequeueSteering
<1>3. Taken(steeringQueue, SteeringMode) \in Seq(Messages)
  BY <1>1, TakenLeftType
<1>4. FromUsers(Taken(steeringQueue, SteeringMode))
  BY <1>1, TakenLeftMembers DEF FromUsers
<1> QED
  BY <1>2, <1>3, <1>4

\* A turn without tools is over.
LEMMA ViewNoTools ==
  ASSUME IInv, QueuesInv, ViewInv, FinishTurnWithoutTools
  PROVE  ViewInv'
<1>1. /\ pc = "replied" /\ calls = <<>> /\ pc' = "turnHead" /\ DequeueSteering
      /\ UNCHANGED <<messages, context, called, via>>
  BY DEF FinishTurnWithoutTools, agentVars
<1>2. PICK view \in Seq(Messages) :
        /\ Catches(messages, stream, view)
        /\ \E talk, seen, answers \in Seq(Messages) : Answering(view, talk, seen, answers)
  BY <1>1, AnsweringNow DEF AnsweringPhases
<1>3. PICK talk \in Seq(Messages), seen \in Seq(Messages), answers \in Seq(Messages) :
        Answering(view, talk, seen, answers)
  BY <1>2
<1>4. PICK t : stream' = stream \o t /\ Adds(t, <<>>)
  BY EndTail
<1>5. Catches(messages', stream', view)
  BY <1>1, <1>2, <1>4, ViewKept
<1>6. answers = <<>>
  <2>1. launched = 0 /\ Len(answers) = Cardinality((1..launched) \ running)
    BY <1>1, <1>3 DEF Answering
  <2>2. (1..0) \ running = {}
    OBVIOUS
  <2>3. Len(answers) = 0
    BY <2>1, <2>2, FS_EmptySet
  <2> QED
    BY <2>3
<1> DEFINE rs == <<>>
           p == pending'
<1>7. /\ rs \in Seq(Messages) /\ Len(rs) = 0 /\ DOMAIN rs = {} /\ Len(calls) = 0
      /\ context' = context \o rs
  <2>1. context \in Seq(Messages)
    BY ContextTypes
  <2>2. context \o <<>> = context
    BY <2>1, ConcatEmptySeq
  <2> QED
    BY <1>1, <2>2
<1>8. p \in Seq(Messages) /\ FromUsers(p)
  BY <1>1, SteeringTaken
<1>9. /\ CallsIn(rs) = 1..Len(rs) /\ ResultsOf(rs, Len(called)) /\ SameResults(answers, rs)
      /\ CallsIn(answers) = 1..Len(rs) /\ Len(answers) = Len(rs)
  <2>1. CallsIn(<<>>) = {} /\ 1..0 = {} /\ SameResults(<<>>, <<>>)
    BY DEF CallsIn, SameResults
  <2> QED
    BY <1>6, <1>7, <2>1 DEF ResultsOf
<1> HIDE DEF rs
<1>10. PICK q \in Seq(Messages) : q = pending'
  BY <1>8
<1> QED
  BY <1>1, <1>3, <1>5, <1>7, <1>8, <1>9, <1>10, ViewTurnEnds

\* A turn with tools is over.
LEMMA ViewFinish ==
  ASSUME IInv, QueuesInv, ViewInv, FinishTurnWithTools
  PROVE  ViewInv'
<1>1. /\ pc = "toolsDone" /\ pc' = "turnHead" /\ context' = context \o results
      /\ UNCHANGED <<messages, called, via>>
      /\ IF pending # <<>> THEN pending' = pending ELSE DequeueSteering
  BY DEF FinishTurnWithTools, agentVars
<1>2. PICK view \in Seq(Messages) :
        /\ Catches(messages, stream, view)
        /\ \E talk, seen, answers \in Seq(Messages) : Answering(view, talk, seen, answers)
  BY <1>1, AnsweringNow DEF AnsweringPhases
<1>3. PICK talk \in Seq(Messages), seen \in Seq(Messages), answers \in Seq(Messages) :
        Answering(view, talk, seen, answers)
  BY <1>2
<1>4. PICK t : stream' = stream \o t /\ Adds(t, <<>>)
  BY EndTail
<1>5. Catches(messages', stream', view)
  BY <1>1, <1>2, <1>4, ViewKept
<1>6. PICK rs \in Seq(Messages) : rs = results
  BY ContextTypes
<1>7. /\ Len(rs) = Len(calls)
      /\ \A i \in DOMAIN rs : rs[i].call = i /\ rs[i].n = Len(called) /\ IsResult(rs[i])
  <2>1. /\ Len(rs) = Len(calls)
        /\ \A i \in 1..Len(calls) : rs[i].call = i /\ rs[i].n = Len(called) /\ IsResult(rs[i])
    BY <1>1, <1>6 DEF IInv, ResultsComplete, ResultsFor
  <2> QED
    BY <2>1, LenProperties
<1>8. CallsIn(rs) = 1..Len(rs)
  <2>1. DOMAIN rs = 1..Len(rs)
    BY LenProperties
  <2> QED
    BY <1>7, <2>1 DEF CallsIn
<1>9. /\ ResultsOf(rs, Len(called))
      /\ SameResults(answers, rs) /\ CallsIn(answers) = 1..Len(rs) /\ Len(answers) = Len(rs)
  BY <1>1, <1>3, <1>6, <1>7 DEF Answering, SameResults, CallsIn, ResultsOf
<1>10. /\ pending' \in Seq(Messages) /\ FromUsers(pending')
       /\ (\E i \in DOMAIN rs : rs[i].kind = "skipped") =>
            pending' # <<>> /\ pending'[1].n \in DOMAIN via /\ via[pending'[1].n] = "steer"
  <2>1. pending \in Seq(Messages)
    BY ContextTypes
  <2>2. (\E i \in DOMAIN rs : rs[i].kind = "skipped") => pending # <<>> /\ FromSteering(pending)
    BY <1>1, <1>6 DEF QueuesInv
  <2>3. CASE pending # <<>>
    <3>1. pending' = pending /\ FromUsers(pending)
      BY <1>1, <2>3 DEF QueuesInv, FromUser, FromUsers
    <3>2. 1 \in DOMAIN pending
      BY <2>1, <2>3
    <3>3. FromSteering(pending) => pending[1].n \in DOMAIN via /\ via[pending[1].n] = "steer"
      BY <3>2 DEF FromSteering
    <3> QED
      BY <2>1, <2>2, <2>3, <3>1, <3>3
  <2>4. CASE pending = <<>>
    BY <1>1, <2>2, <2>4, SteeringTaken
  <2> QED
    BY <2>3, <2>4
<1>11. PICK p \in Seq(Messages) : p = pending'
  BY <1>10
<1>12. /\ FromUsers(p)
       /\ (\E i \in DOMAIN rs : rs[i].kind = "skipped") =>
            p # <<>> /\ p[1].n \in DOMAIN via /\ via[p[1].n] = "steer"
  BY <1>10, <1>11
<1>13. context' = context \o rs /\ pending' = p
  BY <1>1, <1>6, <1>11
<1> QED
  BY <1>1, <1>3, <1>5, <1>7, <1>8, <1>9, <1>12, <1>13, ViewTurnEnds
\* A step that leaves the loop where it is, but for what was sent and consumed.
LEMMA ViewSame ==
  ASSUME IInv, QueuesInv, ViewInv, pc' = pc, UNCHANGED <<context, pending, toolVars, called>>,
         ViaGrowsBy,
         \A v \in Seq(Messages) : Catches(messages, stream, v) => Catches(messages', stream', v)
  PROVE  ViewInv'
<1>1. UNCHANGED <<context, calls, called, launched, running, processedCount, results, pending>>
  BY DEF toolVars
<1>2. CASE pc \in AnsweringPhases
  BY <1>1, <1>2, AnsweringSame
<1>3. CASE pc \notin AnsweringPhases
  BY <1>1, <1>3, SettledSame
<1> QED
  BY <1>2, <1>3

\* The user starts a run.
LEMMA ViewStarts ==
  ASSUME IInv, QueuesInv, StreamInv, ViewInv,
         Prompt \/ ContinueWithSteering \/ ContinueWithFollowUp \/ ContinueFromContext
  PROVE  ViewInv'
<1>1. /\ steeringQueue \in Seq(Messages) /\ followUpQueue \in Seq(Messages)
      /\ FromUsers(steeringQueue) /\ FromUsers(followUpQueue)
  BY DEF IInv, TypeOK, QueuesInv, FromSteering, FromUser, FromUsers
<1>2. /\ Taken(steeringQueue, SteeringMode) \in Seq(Messages)
      /\ FromUsers(Taken(steeringQueue, SteeringMode))
  BY <1>1, TakenLeftType, TakenLeftMembers DEF FromUsers
<1>3. /\ Taken(followUpQueue, FollowUpMode) \in Seq(Messages)
      /\ FromUsers(Taken(followUpQueue, FollowUpMode))
  BY <1>1, TakenLeftType, TakenLeftMembers DEF FromUsers
<1>4. /\ NextUser \in Messages /\ <<NextUser>> \in Seq(Messages) /\ FromUsers(<<NextUser>>)
      /\ <<>> \in Seq(Messages) /\ FromUsers(<<>>)
  <2>1. NextUser \in Messages /\ NextUser.kind = "user"
    BY NextUserType DEF IInv, TypeOK, NextUser, Message
  <2> QED
    BY <2>1 DEF FromUsers
<1>5. pc = "idle" /\ ViaGrowsBy
  BY DEF Prompt, ContinueWithSteering, ContinueWithFollowUp, ContinueFromContext, ViaGrowsBy
<1>6. pending' \in Seq(Messages) /\ FromUsers(pending')
  BY <1>2, <1>4 DEF Prompt, ContinueWithSteering, ContinueWithFollowUp, ContinueFromContext,
     DequeueSteering
<1>7. \/ StartRun(<<NextUser>>) \/ StartRun(Taken(steeringQueue, SteeringMode))
      \/ StartRun(Taken(followUpQueue, FollowUpMode)) \/ StartRun(<<>>)
  BY DEF Prompt, ContinueWithSteering, ContinueWithFollowUp, ContinueFromContext
<1>8. \E prompts \in Seq(Messages) : FromUsers(prompts) /\ StartRun(prompts)
  BY <1>2, <1>3, <1>4, <1>7
<1> QED
  BY <1>5, <1>6, <1>8, ViewStart

\* The consumer takes an event.
LEMMA ViewConsume ==
  ASSUME IInv, QueuesInv, ViewInv, Consume
  PROVE  ViewInv'
<1>1. /\ stream # <<>> /\ stream' = Tail(stream)
      /\ messages' = IF Head(stream).type = "message_end"
                     THEN Append(messages, Head(stream).message) ELSE messages
      /\ pc' = pc /\ UNCHANGED <<context, pending, toolVars, called, via>>
  BY DEF Consume, turnVars
<1>2. PICK s \in Seq(Events), ms \in Seq(Messages) : s = stream /\ ms = messages
  BY ContextTypes
<1>3. ASSUME NEW v \in Seq(Messages), Catches(messages, stream, v)
      PROVE  Catches(messages', stream', v)
  <2>1. s # <<>> /\ Catches(ms, s, v)
    BY <1>1, <1>2, <1>3
  <2>2. Catches(IF Head(s).type = "message_end" THEN Append(ms, Head(s).message) ELSE ms,
                Tail(s), v)
    BY <2>1, CatchesConsume
  <2>3. /\ stream' = Tail(s)
        /\ messages' = IF Head(s).type = "message_end" THEN Append(ms, Head(s).message) ELSE ms
    BY <1>1, <1>2
  <2> QED
    BY <2>2, <2>3
<1>4. ViaGrowsBy
  BY <1>1 DEF ViaGrowsBy
<1> QED
  BY <1>1, <1>3, <1>4, ViewSame

\* The steps between turns and behind the last one.
LEMMA ViewBetween ==
  ASSUME IInv, QueuesInv, ViewInv,
         \/ PollFollowUps \/ ContinueOuterLoop \/ EndRun \/ Request \/ RequestThrows
         \/ StopOnFailure \/ FinishRun
  PROVE  ViewInv'
<1>1. /\ pc \notin AnsweringPhases /\ pc' \notin AnsweringPhases /\ pc # "idle"
      /\ UNCHANGED <<messages, context, called, via>>
  BY DEF PollFollowUps, ContinueOuterLoop, EndRun, Request, RequestThrows, StopOnFailure,
     FinishRun, AnsweringPhases, agentVars, turnVars
<1>2. pending' = pending \/ (pending = <<>> /\ FromUsers(pending') /\ pending' \in Seq(Messages))
  <2>1. CASE PollFollowUps
    <3>1. pending = <<>> /\ pending' = Taken(followUpQueue, FollowUpMode)
      BY <2>1 DEF PollFollowUps, DequeueFollowUp
    <3>2. followUpQueue \in Seq(Messages) /\ FromUsers(followUpQueue)
      BY DEF IInv, TypeOK, QueuesInv, FromUser, FromUsers
    <3>3. Taken(followUpQueue, FollowUpMode) \in Seq(Messages)
      BY <3>2, TakenLeftType
    <3>4. FromUsers(Taken(followUpQueue, FollowUpMode))
      BY <3>2, TakenLeftMembers DEF FromUsers
    <3> QED
      BY <3>1, <3>3, <3>4
  <2>2. CASE \/ ContinueOuterLoop \/ EndRun \/ Request \/ RequestThrows
             \/ StopOnFailure \/ FinishRun
    BY <2>2 DEF ContinueOuterLoop, EndRun, Request, RequestThrows, StopOnFailure, FinishRun, turnVars
  <2> QED
    BY <2>1, <2>2
<1>3. \A v \in Seq(Messages) : Catches(messages, stream, v) => Catches(messages', stream', v)
  <2>1. CASE EndRun \/ StopOnFailure
    <3>1. PICK t : stream' = stream \o t /\ Adds(t, <<>>)
      BY <2>1, EndTail
    <3> QED
      BY <1>1, <3>1, ViewKept
  <2>2. CASE \/ PollFollowUps \/ ContinueOuterLoop \/ Request \/ RequestThrows \/ FinishRun
    <3>1. stream' = stream
      BY <2>2 DEF PollFollowUps, ContinueOuterLoop, Request, RequestThrows, FinishRun
    <3> QED
      BY <1>1, <3>1
  <2> QED
    BY <2>1, <2>2
<1>4. ViaGrowsBy
  BY <1>1 DEF ViaGrowsBy
<1> QED
  BY <1>1, <1>2, <1>3, <1>4, SettledSame

\* Every step keeps the two conversations in step.
LEMMA ViewNext ==
  ASSUME IInv, QueuesInv, StreamInv, ViewInv, [Next]_vars
  PROVE  ViewInv'
<1>1. CASE Prompt \/ ContinueWithSteering \/ ContinueWithFollowUp \/ ContinueFromContext
  BY <1>1, ViewStarts
<1>2. CASE DropFailedReply
  BY <1>2, ViewDrop
<1>3. CASE Steer \/ FollowUp \/ ClearAllQueues \/ Abort \/ UNCHANGED vars
  <2>1. /\ pc' = pc /\ UNCHANGED <<context, pending, toolVars, called, messages, stream>>
    BY <1>3 DEF Steer, FollowUp, ClearAllQueues, Abort, vars, turnVars, agentVars
  <2>2. ViaGrowsBy
    BY <1>3 DEF Steer, FollowUp, ClearAllQueues, Abort, vars, ViaGrowsBy
  <2> QED
    BY <2>1, <2>2, ViewSame
<1>4. CASE BeginTurn
  BY <1>4, ViewBegin
<1>5. CASE \/ PollFollowUps \/ ContinueOuterLoop \/ EndRun \/ Request \/ RequestThrows
           \/ StopOnFailure \/ FinishRun
  BY <1>5, ViewBetween
<1>6. CASE Replies
  <2>1. PICK kind, cs : Reply(kind, cs) /\ cs \in Seq(CallKinds)
    <3>1. <<>> \in Seq(CallKinds)
      OBVIOUS
    <3>2. \A cs \in CallLists : cs \in Seq(CallKinds)
      BY CallListsType
    <3> QED
      BY <1>6, <3>1, <3>2 DEF Replies
  <2> QED
    BY <2>1, ViewReply
<1>7. CASE FinishTurnWithoutTools
  BY <1>7, ViewNoTools
<1>8. CASE StartTools
  <2>1. /\ calls # <<>> /\ Launch(1) /\ pc = "replied"
        /\ UNCHANGED <<messages, context, calls, called, processedCount, via>>
    BY <1>8 DEF StartTools, agentVars
  <2>2. 1 \in 1..Len(calls)
    <3>1. calls \in Seq(CallKinds)
      BY ContextTypes
    <3> QED
      BY <2>1, <3>1
  <2> QED
    BY <2>1, <2>2, ViewLaunch
<1>9. CASE PollAfterTool \/ PollAfterGroup
  BY <1>9, ViewPoll
<1>10. CASE Tools
  <2>1. PICK k \in 1..MaxCalls : CompleteTool(k)
    BY <1>10 DEF Tools
  <2>2. k \in Nat
    BY <2>1, ALAssumption
  <2> QED
    BY <2>1, <2>2, ViewComplete
<1>11. CASE FinishTurnWithTools
  BY <1>11, ViewFinish
<1>12. CASE Consume
  BY <1>12, ViewConsume
<1> QED
  BY <1>1, <1>2, <1>3, <1>4, <1>5, <1>6, <1>7, <1>8, <1>9, <1>10, <1>11, <1>12
  DEF Next, User, Loop, Consumer

\* Before the first run both are empty.
LEMMA ViewInit == Init => ViewInv
<1> SUFFICES ASSUME Init PROVE ViewInv
  OBVIOUS
<1>1. /\ messages = <<>> /\ stream = <<>> /\ context = <<>> /\ pending = <<>> /\ pc = "idle"
  BY DEF Init
<1>2. <<>> \in Seq(Messages) /\ <<>> \o <<>> = <<>> /\ DOMAIN <<>> = {}
  BY ConcatEmptySeq
<1>3. Catches(messages, stream, <<>>)
  BY <1>1, <1>2, CatchesNothing
<1>4. WellAnswered(<<>>, called) /\ SkipsFollowed(<<>>, via)
  BY <1>2 DEF WellAnswered, SkipsFollowed
<1>5. Settled(<<>>)
  BY <1>1, <1>2, <1>4 DEF Settled
<1> QED
  BY <1>1, <1>2, <1>3, <1>5 DEF ViewInv, AnsweringPhases

-----------------------------------------------------------------------------
(* The theorems *)

\* The inductive invariant of the conversation and of what the consumer sees of it.
LEMMA ViewAlways == Spec => [](IInv /\ QueuesInv /\ StreamInv /\ ViewInv)
<1>1. Init => IInv /\ QueuesInv /\ StreamInv /\ ViewInv
  BY InitInv, StreamInit, ViewInit
<1>2. /\ IInv /\ QueuesInv /\ StreamInv /\ ViewInv /\ [Next]_vars
      => (IInv /\ QueuesInv /\ StreamInv /\ ViewInv)'
  BY NextInv, QueuesNext, StreamNext, ViewNext
<1> QED
  BY <1>1, <1>2, PTL DEF Spec

\* Every request that runLoop sends is well formed, for any number of runs, turns,
\* calls and steering messages: each reply in it is followed at once by one result
\* for each of its calls, executed or skipped, and there is no other result.
THEOREM ToolCallsAnsweredAlways == Spec => []ToolCallsAnswered
<1>1. IInv /\ QueuesInv /\ ViewInv => ToolCallsAnswered
  <2> SUFFICES ASSUME IInv, QueuesInv, ViewInv, pc \in {"request", "response"}
               PROVE  /\ \A i \in DOMAIN context :
                           context[i].kind = "assistant" => AnsweredAt(context, i)
                      /\ \A i \in DOMAIN context : IsResult(context[i]) =>
                           \E j \in 1..i - 1 : /\ context[j].kind = "assistant"
                                              /\ context[j].n = context[i].n
                                              /\ i <= j + Len(called[context[j].n])
    BY DEF ToolCallsAnswered
  <2>1. WellAnswered(context, called)
    BY SettledNow DEF AnsweringPhases
  <2> QED
    BY <2>1 DEF WellAnswered, AnsweredAt
<1> QED
  BY <1>1, ViewAlways, PTL

\* executeToolCalls skips calls only for a steering message that getSteeringMessages
\* returned: whatever else is queued or aborted, that message is the first thing in
\* the conversation after the results of the turn.
THEOREM SkipsAreExplainedAlways == Spec => []SkipsAreExplained
<1>1. IInv /\ QueuesInv /\ ViewInv => SkipsAreExplained
  <2> SUFFICES ASSUME IInv, QueuesInv, ViewInv PROVE SkipsAreExplained
    OBVIOUS
  <2>1. /\ context \in Seq(Messages) /\ pending \in Seq(Messages)
        /\ called \in Seq(Seq(CallKinds)) /\ Len(called) \in Nat
    BY ContextTypes
  <2>2. SkipsFollowed(context \o pending, via)
    <3>1. CASE pc \notin AnsweringPhases
      BY <3>1, SettledNow
    <3>2. CASE pc \in AnsweringPhases
      <4>1. PICK view \in Seq(Messages) :
              /\ Catches(messages, stream, view)
              /\ \E talk, seen, answers \in Seq(Messages) : Answering(view, talk, seen, answers)
        BY <3>2, AnsweringNow
      <4>2. PICK talk \in Seq(Messages), seen \in Seq(Messages), answers \in Seq(Messages) :
              Answering(view, talk, seen, answers)
        BY <4>1
      <4>3. context = Append(talk, LastReply) /\ SkipsFollowed(talk, via)
        BY <4>2 DEF Answering
      <4> DEFINE rest == <<LastReply>> \o pending
                 one == <<LastReply>>
      <4>4. LastReply \in Messages /\ LastReply.kind = "assistant"
        BY <2>1, MessageType DEF LastReply, MessageKinds, Message
      <4>5. SkipsFollowed(one, via) /\ SkipsFollowed(pending, via) /\ one \in Seq(Messages)
        <5>1. \A i \in DOMAIN pending : pending[i].kind = "user"
          BY DEF QueuesInv, FromUser
        <5>2. one \in Seq(Messages) /\ \A i \in DOMAIN one : one[i].kind = "assistant"
          BY <4>4
        <5> HIDE DEF one
        <5> QED
          BY <2>1, <5>1, <5>2, SkipsNone
      <4> HIDE DEF one
      <4>6. one \o pending \in Seq(Messages) /\ SkipsFollowed(one \o pending, via)
        BY <2>1, <4>5, SkipsConcat, PartsOf
      <4>7. SkipsFollowed(talk \o (one \o pending), via)
        BY <4>3, <4>6, SkipsConcat
      <4>8. context \o pending = talk \o (one \o pending)
        BY <2>1, <4>3, <4>4, AppendThen DEF one
      <4> QED
        BY <4>7, <4>8
    <3> QED
      BY <3>1, <3>2
  <2> QED
    BY <2>2 DEF SkipsFollowed, SkipsAreExplained
<1> QED
  BY <1>1, ViewAlways, PTL

\* The agent's messages and pendingToolCalls, which Agent._runLoop builds from events
\* that arrive late, are what the loop did: the calls that execute are those that
\* are pending once the events are consumed, and after a run the messages are
\* the context, up to the order of the results of one reply.
THEOREM ViewFollowsLoopAlways == Spec => []ViewFollowsLoop
<1>1. IInv /\ QueuesInv /\ StreamInv /\ ViewInv => ViewFollowsLoop
  <2> SUFFICES ASSUME IInv, QueuesInv, StreamInv, ViewInv PROVE ViewFollowsLoop
    OBVIOUS
  <2>1. ASSUME pc = "ended", stream = <<>> PROVE Agree(messages, context)
    <3>1. PICK view \in Seq(Messages) : Catches(messages, stream, view) /\ Agree(view, context)
      BY <2>1, SettledNow DEF AnsweringPhases
    <3>2. PICK ms \in Seq(Messages) : ms = messages
      BY ContextTypes
    <3>3. Catches(ms, <<>>, view)
      BY <2>1, <3>1, <3>2
    <3>4. view = ms
      BY <3>3, CatchesNothing
    <3> QED
      BY <3>1, <3>2, <3>4
  <2>2. MessagesMatchContext
    BY <2>1 DEF MessagesMatchContext, Agree
  <2>3. PendingCallsMatch
    BY DrainedIsRunning
  <2> QED
    BY <2>2, <2>3 DEF ViewFollowsLoop
<1> QED
  BY <1>1, ViewAlways, PTL
=============================================================================
