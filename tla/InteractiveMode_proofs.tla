------------------------ MODULE InteractiveMode_proofs ------------------------
(***************************************************************************)
(* Proofs about the terminal around a session.                             *)
(***************************************************************************)
EXTENDS InteractiveMode, AgentHistory_proofs

-----------------------------------------------------------------------------
(* The texts, and the step of the session in every step of the terminal *)

\* The texts in a list were entered; so was the one that a call carries, which
\* has not begun its run. A flush has something to send.
Entered(queue) == queue \in Seq(ItemsOf({"user"})) /\ \A i \in 1..Len(queue) : queue[i].n \in typed
CarriedBy(c) ==
  carried[c] = NoItem \/ (carried[c] \in ItemsOf({"user"}) /\ carried[c].n \in typed /\ Busy(c))
Carries ==
  /\ typed \subseteq 1..clock
  /\ Entered(compactionQueue) /\ \A c \in Callers : Entered(batch[c]) /\ CarriedBy(c)
  /\ flushing # "none" => compactionQueue # <<>>

\* A text is in one queue or call, once, and a flush that failed puts back no
\* text twice.
Apart(queue) == \A i, j \in 1..Len(queue) : i # j => queue[i].n # queue[j].n
Once ==
  /\ Apart(compactionQueue) /\ \A c \in Callers : Apart(batch[c])
  /\ \A x \in ToSet(queued), i \in 1..Len(compactionQueue) : x.n # compactionQueue[i].n
  /\ \A c \in Callers : carried[c] # NoItem =>
       /\ \A x \in ToSet(queued) : x.n # carried[c].n
       /\ \A i \in 1..Len(compactionQueue) : compactionQueue[i].n # carried[c].n

\* Nothing runs when texts are flushed.
FlushesAlone == flushing # "none" => events = <<>> /\ ~streaming /\ admin = "none"

\* The controller is that of a compaction in progress.
Controlled == controller # "nobody" => controller # "manual" /\ compaction[controller].phase # "none"

TerminalInvariant ==
  /\ TerminalTypeOK /\ SessionInvariant /\ Carries /\ Controlled
  /\ ~disturbed => Once /\ FlushesAlone

\* A text that is sent is a message of the user.
LEMMA TextSent ==
  ASSUME TypeOK, typed \subseteq 1..clock, NEW text \in ItemsOf({"user"}), text.n \in typed,
         clock <= clock', clock' \in Nat
  PROVE  UserItem(text) /\ text.n \in 1..clock
<1>1. clock \in Nat /\ text.n \in 1..clock
  BY DEF TypeOK
<1> QED
  BY <1>1 DEF UserItem, ItemsOf

LEMMA TextsSent ==
  ASSUME TypeOK, typed \subseteq 1..clock, NEW queue, Entered(queue), clock <= clock', clock' \in Nat
  PROVE  UserItems(queue)
<1>1. queue \in Seq(ItemsOf({"user"})) /\ \A i \in 1..Len(queue) : queue[i] \in ItemsOf({"user"})
  BY DEF Entered
<1> QED
  BY <1>1, TextSent DEF Entered, UserItems

LEMMA EnteredTail ==
  ASSUME NEW queue, Entered(queue), queue # <<>>
  PROVE  Entered(Tail(queue)) /\ Head(queue) \in ItemsOf({"user"}) /\ Head(queue).n \in typed
BY DEF Entered

LEMMA EnteredSub ==
  ASSUME NEW queue, Entered(queue)
  PROVE  Entered(SubSeq(queue, 3, Len(queue)))
<1> DEFINE q == SubSeq(queue, 3, Len(queue))
<1>1. queue \in Seq(ItemsOf({"user"})) /\ Len(queue) \in Nat
  BY DEF Entered
<1>2. q \in Seq(ItemsOf({"user"})) /\ \A i \in 1..Len(q) : q[i] = queue[i + 2] /\ i + 2 \in 1..Len(queue)
  BY <1>1
<1> HIDE DEF q
<1>3. Entered(q)
  BY <1>2 DEF Entered
<1> QED
  BY <1>3 DEF q

\* What a step of the session is in a turn of the terminal.
LEMMA TerminalIsStep ==
  ASSUME TerminalInvariant, TerminalNext
  PROVE  SessionStep
<1> USE DEF agentVars, retryVars, compactVars, viewVars, fileVars, handlerVars, RunVars, ReplyVars,
            RestVars
<1>a. TypeOK /\ clock \in Nat /\ left \in [Inputs -> Nat] /\ SessionInvariant /\ Carries
  BY DEF TerminalInvariant, SessionInvariant, TypeOK
<1>b. typed \subseteq 1..clock /\ Entered(compactionQueue)
  BY <1>a DEF Carries
<1>c. Next => SessionStep
  BY <1>a, NextIsStep
<1>d. ASSUME NEW input \in Inputs, Spend(input) PROVE left' \in [Inputs -> Nat]
  BY <1>a, <1>d, SpendType
<1>1. CASE FlushSteered
  <2>1. UNCHANGED <<clock, left>> /\ clock <= clock' /\ clock' \in Nat
    BY <1>a, <1>1 DEF FlushSteered
  <2>2. UserItems(compactionQueue)
    BY <1>a, <1>b, <2>1, TextsSent
  <2>3. ~disturbed => events = <<>> /\ admin = "none"
    BY <1>1 DEF TerminalInvariant, FlushesAlone, FlushSteered
  <2>4. UNCHANGED <<RestVars, aborting, retryVars, pc>>
        /\ queued' = queued \o compactionQueue /\ shown' = shown \o compactionQueue
    BY <1>1 DEF FlushSteered
  <2>5. Steers
    BY <2>2, <2>3, <2>4, Zenon DEF Steers
  <2> QED
    BY <1>a, <2>1, <2>5 DEF SessionStep, SessionAction, Time
<1>2. ASSUME NEW c \in Callers, FlushPrompted(c) PROVE SessionStep
  <2>1. UNCHANGED <<clock, left>> /\ clock <= clock' /\ clock' \in Nat
    BY <1>a, <1>2 DEF FlushPrompted
  <2>2. Entered(Tail(compactionQueue))
    BY <1>2, <1>a, <1>b, EnteredTail DEF FlushPrompted, Carries
  <2>3. UserItems(Rest(compactionQueue))
    BY <1>a, <1>b, <2>1, <2>2, TextsSent DEF Rest
  <2>4. BeginsPrompt(c)
    BY <1>2, <2>3, Zenon DEF BeginsPrompt, FlushPrompted
  <2> QED
    BY <1>a, <2>1, <2>4 DEF SessionStep, SessionAction, Time
<1>3. CASE FlushRejected
  <2> DEFINE late == SubSeq(compactionQueue, 3, Len(compactionQueue))
  <2>1. UNCHANGED <<clock, left>> /\ clock <= clock' /\ clock' \in Nat
    BY <1>a, <1>3 DEF FlushRejected
  <2>2. UserItems(late)
    BY <1>a, <1>b, <2>1, EnteredSub, TextsSent
  <2>3. disturbed
    BY <1>3 DEF FlushRejected, TerminalInvariant, FlushesAlone
  <2>4. UNCHANGED <<RestVars, aborting, retryVars, pc>> /\ queued' = late /\ shown' = late
    BY <1>3 DEF FlushRejected
  <2> HIDE DEF late
  <2>5. Replaces
    BY <2>2, <2>3, <2>4, Zenon DEF Replaces
  <2> QED
    BY <1>a, <2>1, <2>5 DEF SessionStep, SessionAction, Time
<1>4. CASE TerminalRunStep \/ TerminalHandlerStep \/ TerminalAdminStep \/ ClientStep
  <2>1. CASE TerminalRunStep
    <3>1. AgentStep \/ ContinueSwallowed \/ Continue
      BY <2>1 DEF TerminalRunStep, Turn, Unnoticed, OnContinue
    <3> QED
      BY <3>1, <1>c DEF Next, TimerStep
  <2>2. CASE TerminalHandlerStep
    <3>1. HandlerStep
      BY <2>2 DEF TerminalHandlerStep, Turn, Unnoticed, OnStart, OnMessage, OnReply, OnEndRetry, OnEnd,
         HandlerStep
    <3> QED
      BY <3>1, <1>c DEF Next
  <2>3. CASE TerminalAdminStep
    <3>1. AdminStep
      BY <2>3 DEF TerminalAdminStep, Turn, Unnoticed, FinishNew, AdminStep
    <3> QED
      BY <3>1, <1>c DEF Next
  <2>4. CASE ClientStep
    <3>1. UserStep
      BY <2>4, IMAssumption DEF ClientStep, Turn, Unnoticed, ClientAborts, ClientClears, UserStep
    <3> QED
      BY <3>1, <1>c DEF Next
  <2> QED
    BY <1>4, <2>1, <2>2, <2>3, <2>4
<1>5. ASSUME NEW w \in Workers, TerminalCompactionStep(w) PROVE SessionStep
  <2>1. Compacts(w) /\ UNCHANGED left /\ (UNCHANGED clock \/ clock' = clock + 1)
    <3>1. CASE PrepareCompaction(w) \/ StopCompaction(w)
      BY <3>1 DEF Compacts, PrepareCompaction, StopCompaction
    <3>2. CASE OnFinishCompaction(w)
      BY <3>2 DEF OnFinishCompaction, Compacts, FinishCompactionWith
    <3> QED
      BY <1>5, <3>1, <3>2 DEF TerminalCompactionStep, Turn, Unnoticed, OnStopCompaction
  <2> QED
    BY <1>a, <2>1 DEF SessionStep, SessionAction, Time
<1>6. ASSUME NEW c \in Callers, TerminalCallerStep(c) PROVE SessionStep
  <2>1. CASE PromptCheck(c) \/ PromptRejected(c) \/ PromptStart(c)
    BY <1>c, <2>1 DEF Next, CallerStep
  <2>2. ASSUME carried[c] # NoItem, PromptStartWith(c, carried[c]), UNCHANGED clock
        PROVE  SessionStep
    <3>1. carried[c] \in ItemsOf({"user"}) /\ carried[c].n \in typed
      BY <1>a, <2>2 DEF Carries, CarriedBy
    <3>2. clock <= clock' /\ clock' \in Nat /\ UNCHANGED left
      BY <1>a, <2>2 DEF PromptStartWith
    <3>3. UserItem(carried[c])
      BY <1>a, <1>b, <3>1, <3>2, TextSent
    <3>4. ~disturbed => \A i \in 1..Len(queued) : queued[i] # carried[c]
      <4>1. \A i \in 1..Len(queued) : queued[i] \in ToSet(queued)
        BY <1>a, InSet DEF TypeOK
      <4> QED
        BY <2>2, <3>3, <4>1 DEF TerminalInvariant, Once
    <3>5. StartsPrompt(c)
      BY <2>2, <3>3, <3>4, Zenon DEF StartsPrompt
    <3> QED
      BY <3>2, <3>5, <1>a DEF SessionStep, SessionAction, Time
  <2>3. CASE RestoreQueue(c)
    <3>1. GivesUpPrompt(c) /\ UNCHANGED <<clock, left>>
      BY <2>3 DEF RestoreQueue, GivesUpPrompt, PromptThrows
    <3> QED
      BY <3>1, <1>a DEF SessionStep, SessionAction, Time
  <2> QED
    BY <1>6, <2>1, <2>2, <2>3 DEF TerminalCallerStep, Turn, OnPromptCheck, StartPrompt, FailPrompt
<1>7. CASE Keyboard
  <2>1. CASE SubmitWaits \/ SubmitIgnored
    <3>1. Spend("text") /\ clock' = clock + 1
          /\ UNCHANGED <<RestVars, aborting, retryVars, pc, queued, shown>>
      BY <2>1 DEF SubmitWaits, SubmitIgnored, Enter
    <3> QED
      BY <1>a, <1>d, <3>1 DEF SessionStep, SessionAction, Idles, Time, Inputs
  <2>2. CASE SubmitSteers
    <3>1. Spend("text") /\ clock' = clock + 1 /\ QueueMessage(Item("user"))
      BY <2>2 DEF SubmitSteers, Enter, QueueMessage, Text
    <3> QED
      BY <1>a, <1>d, <3>1 DEF SessionStep, SessionAction, Time, Inputs
  <2>3. CASE SubmitPrompts
    <3>1. Spend("text") /\ clock' = clock + 1 /\ PromptBeginWith(Loop, <<>>)
      BY <2>3 DEF SubmitPrompts, Enter
    <3>2. UserItems(<<>>) /\ Loop \in Callers
      BY IMAssumption DEF UserItems
    <3>3. BeginsPrompt(Loop)
      BY <3>1, <3>2, Zenon DEF BeginsPrompt
    <3> QED
      BY <1>a, <1>d, <3>1, <3>2, <3>3 DEF SessionStep, SessionAction, Time, Inputs
  <2>4. CASE Dequeue \/ EscapeMain
    <3>1. /\ queued' = <<>> /\ shown' = <<>> /\ (aborting' = aborting \/ aborting' = (aborting \/ streaming))
          /\ UNCHANGED <<RestVars, retryVars, pc>> /\ UNCHANGED clock
          /\ (Spend("dequeue") \/ Spend("escape"))
      BY <2>4 DEF Dequeue, EscapeMain, EmptyQueues
    <3>2. Clears
      BY <1>a, <3>1 DEF Clears, TypeOK
    <3> QED
      BY <1>a, <1>d, <3>1, <3>2 DEF SessionStep, SessionAction, Time, Inputs
  <2>5. CASE EscapeRetry
    <3>1. /\ AbortRetryEffects /\ UNCHANGED <<aborting, clock>> /\ Spend("escape")
          /\ UNCHANGED <<messages, streaming, ending, owner, connected, events, lastAssistant,
                 overflowTried, compactVars, timers, pendingBash, fileVars, admin, disturbed,
                 queued, shown>>
      BY <2>5 DEF EscapeRetry
    <3>2. Stops
      BY <1>a, <3>1 DEF Stops, TypeOK
    <3> QED
      BY <1>a, <1>d, <3>1, <3>2 DEF SessionStep, SessionAction, Time, Inputs
  <2>6. CASE EscapeCompaction
    <3>1. AbortCompactions /\ Spend("escape") /\ UNCHANGED clock
      BY <2>6 DEF EscapeCompaction, AbortCompactions
    <3> QED
      BY <1>a, <1>d, <3>1 DEF SessionStep, SessionAction, Time, Inputs
  <2>7. CASE CompactCommand \/ NewCommand \/ ResumeCommand
    <3>1. \E operation \in {"new", "switch", "compact"} : AdminBegin(operation)
      BY <2>7 DEF CompactCommand, NewCommand, ResumeCommand
    <3> QED
      BY <1>c, <3>1 DEF Next, UserStep
  <2> QED
    BY <1>7, <2>1, <2>2, <2>3, <2>4, <2>5, <2>6, <2>7 DEF Keyboard, Key, Turn
<1> QED
  BY <1>1, <1>2, <1>3, <1>4, <1>5, <1>6, <1>7, IMAssumption DEF TerminalNext, FlushStep, Flush

-----------------------------------------------------------------------------
(* Where the texts go *)

\* A call that has not begun its run goes on to it.
BusyOn(c) == Busy(c) => Busy(c)'
LEMMA BusyKept ==
  ASSUME TypeOK, Phases, NEW c \in Callers
  PROVE  /\ \A w \in Workers : Compacts(w) => BusyOn(c)
         /\ \A d \in Callers : BeginsPrompt(d) \/ PromptCheck(d) => BusyOn(c)
         /\ AgentStep \/ HandlerStep \/ TimerStep \/ AdminStep \/ UserStep => BusyOn(c)
         /\ \A d \in Callers : d # c /\ pc' = [pc EXCEPT ![d] = pc'[d]] => BusyOn(c)
         /\ UNCHANGED pc => BusyOn(c)
         /\ AbortRetryEffects => BusyOn(c)
<1> USE DEF agentVars, retryVars, compactVars, viewVars, fileVars, handlerVars, RunVars, ReplyVars
<1>a. pc \in [Callers -> PCs]
  BY PhaseTypes
<1>1. ASSUME NEW w \in Workers, Compacts(w) PROVE BusyOn(c)
  BY <1>1, <1>a DEF Compacts, PrepareCompaction, StopCompaction, FinishCompactionWith, Release, BusyOn, Busy
<1>2. ASSUME NEW d \in Callers, BeginsPrompt(d) \/ PromptCheck(d) PROVE BusyOn(c)
  BY <1>2, <1>a DEF BeginsPrompt, PromptBeginWith, PromptCheck, BusyOn, Busy
<1>3. ASSUME pc' = Woken PROVE BusyOn(c)
  BY <1>3, <1>a DEF Woken, BusyOn, Busy
<1>4. ASSUME UNCHANGED pc PROVE BusyOn(c)
  BY <1>4 DEF BusyOn, Busy
<1>5. CASE AgentStep
  <2>1. CASE EndRun
    <3>1. owner = c => pc[c] = "running"
      BY <2>1 DEF EndRun, Phases, Runs
    <3>2. owner # c => pc'[c] = pc[c]
      BY <2>1, <1>a DEF EndRun
    <3> QED
      BY <3>1, <3>2 DEF BusyOn, Busy
  <2>2. CASE ~EndRun
    <3>1. UNCHANGED pc
      BY <1>5, <2>2 DEF AgentStep, ReplyAndGoOn, ReplyAndDeliver, LastReply
    <3> QED
      BY <3>1, <1>4
  <2> QED
    BY <2>1, <2>2
<1>6. CASE HandlerStep
  <2>1. CASE HandleAssistant \/ HandleEndRetry
    <3>1. pc' = pc \/ pc' = Woken
      BY <2>1 DEF HandleAssistant, HandleEndRetry, StopRetrying, ResolveRetry
    <3> QED
      BY <3>1, <1>3, <1>4
  <2>2. CASE CompactionStep("handler")
    BY <2>2, <1>1, WorkersAre DEF CompactionStep, Compacts, FinishCompaction
  <2>3. CASE HandleStart \/ HandleUser \/ HandleResult \/ HandleEnd \/ SleepEnds
    <3>1. UNCHANGED pc
      BY <2>3 DEF HandleStart, HandleUser, HandleResult, HandleEnd, SleepEnds
    <3> QED
      BY <3>1, <1>4
  <2> QED
    BY <1>6, <2>1, <2>2, <2>3 DEF HandlerStep
<1>7. CASE TimerStep
  BY <1>7, <1>4 DEF TimerStep, ContinueSwallowed, Continue
<1>8. CASE AdminStep
  <2>1. CASE CompactionStep("manual")
    BY <2>1, <1>1, WorkersAre DEF CompactionStep, Compacts, FinishCompaction
  <2>2. CASE NewSession \/ SwitchSession \/ ManualCompact
    BY <2>2, <1>4 DEF NewSession, SwitchSession, ManualCompact
  <2> QED
    BY <1>8, <2>1, <2>2 DEF AdminStep
<1>9. CASE UserStep
  <2>1. \/ \E d \in Callers : PromptBegin(d)
        \/ pc' = pc \/ pc' = Woken
    BY <1>9 DEF UserStep, PromptQueued, Abort, AbortRetry, AbortCompaction, ClearQueue, RecordBash,
       AdminBegin, QueueMessage, AbortCompactions, AbortEffects, AbortRetryEffects, ResolveRetry
  <2>2. ASSUME NEW d \in Callers, PromptBegin(d) PROVE BusyOn(c)
    BY <2>2, <1>a DEF PromptBegin, PromptBeginWith, BusyOn, Busy
  <2> QED
    BY <2>1, <2>2, <1>3, <1>4
<1>10. ASSUME NEW d \in Callers, d # c, pc' = [pc EXCEPT ![d] = pc'[d]] PROVE BusyOn(c)
  <2>1. pc'[c] = pc[c]
    BY <1>10, <1>a
  <2> QED
    BY <2>1 DEF BusyOn, Busy
<1>11. ASSUME AbortRetryEffects PROVE BusyOn(c)
  BY <1>11, <1>3 DEF AbortRetryEffects, ResolveRetry
<1> QED
  BY <1>1, <1>2, <1>4, <1>5, <1>6, <1>7, <1>8, <1>9, <1>10, <1>11

\* What a step does to the texts.
Enters == typed' = typed \cup {Text.n} /\ clock' = clock + 1
QueueMoves ==
  \/ compactionQueue' = compactionQueue
  \/ compactionQueue' = <<>>
  \/ \E c \in Callers : compactionQueue' = batch[c]
  \/ Enters /\ compactionQueue' = Append(compactionQueue, Text)
CallMoves(c) ==
  /\ batch'[c] \in {batch[c], <<>>, compactionQueue}
  /\ \/ carried'[c] = NoItem
     \/ carried'[c] = carried[c] /\ BusyOn(c)
     \/ Busy(c)' /\ \/ Enters /\ carried'[c] = Text
                    \/ compactionQueue # <<>> /\ carried'[c] = Head(compactionQueue)
TextsMove ==
  /\ typed' = typed \/ Enters
  /\ QueueMoves
  /\ carried' \in [Callers -> Items] /\ batch' \in [Callers -> Seq(Items)]
  /\ \A c \in Callers : CallMoves(c)
  /\ flushing' \in {"none", "steer", "prompt"}
  /\ flushing' # "none" => compactionQueue' # <<>>

LEMMA TextIs ==
  ASSUME TypeOK
  PROVE  Text \in ItemsOf({"user"}) /\ Text.n = clock + 1 /\ Text \in Items
<1>1. Text.n = clock + 1
  BY DEF Text, Item
<1>2. Text \in ItemsOf({"user"}) /\ Text \in Items
  BY ItemIs DEF Text, Kinds
<1> QED
  BY <1>1, <1>2

EnteredIn(queue, texts) ==
  queue \in Seq(ItemsOf({"user"})) /\ \A i \in 1..Len(queue) : queue[i].n \in texts

LEMMA EnteredAppend ==
  ASSUME NEW texts, NEW queue, EnteredIn(queue, texts), NEW text \in ItemsOf({"user"}), text.n \in texts
  PROVE  EnteredIn(Append(queue, text), texts)
BY DEF EnteredIn

LEMMA CarriesKept ==
  ASSUME TypeOK, Carries, Time, TextsMove
  PROVE  Carries'
<1>a. clock \in Nat /\ clock' \in Nat /\ clock <= clock' /\ typed \subseteq 1..clock
  BY DEF TypeOK, Time, Carries
<1>b. Text \in ItemsOf({"user"}) /\ Text.n = clock + 1
  BY TextIs
<1>1. typed' \subseteq 1..clock' /\ typed \subseteq typed'
  <2>1. CASE typed' = typed
    BY <1>a, <2>1
  <2>2. CASE Enters
    BY <1>a, <1>b, <2>2 DEF Enters
  <2> QED
    BY <2>1, <2>2 DEF TextsMove
<1>2. ASSUME NEW queue, Entered(queue) PROVE EnteredIn(queue, typed')
  BY <1>1, <1>2 DEF Entered, EnteredIn
<1>3. EnteredIn(compactionQueue', typed')
  <2>1. CASE compactionQueue' = compactionQueue
    BY <1>2, <2>1 DEF Carries
  <2>2. CASE compactionQueue' = <<>>
    BY <2>2 DEF EnteredIn
  <2>3. ASSUME NEW c \in Callers, compactionQueue' = batch[c] PROVE EnteredIn(compactionQueue', typed')
    BY <1>2, <2>3 DEF Carries
  <2>4. CASE Enters /\ compactionQueue' = Append(compactionQueue, Text)
    <3>1. EnteredIn(compactionQueue, typed') /\ Text.n \in typed'
      BY <1>2, <2>4 DEF Carries, Enters
    <3> QED
      BY <1>b, <2>4, <3>1, EnteredAppend
  <2> QED
    BY <2>1, <2>2, <2>3, <2>4 DEF TextsMove, QueueMoves
<1>4. ASSUME NEW c \in Callers PROVE EnteredIn(batch'[c], typed') /\ CarriedBy(c)'
  <2>1. EnteredIn(<<>>, typed')
    BY DEF EnteredIn
  <2>2. CallMoves(c) /\ CarriedBy(c)
    BY DEF TextsMove, Carries
  <2>3. EnteredIn(batch'[c], typed')
    BY <1>2, <2>1, <2>2 DEF CallMoves, Carries
  <2>4. ASSUME carried'[c] = NoItem PROVE CarriedBy(c)'
    BY <2>4 DEF CarriedBy
  <2>5. ASSUME carried'[c] = carried[c] /\ BusyOn(c) PROVE CarriedBy(c)'
    BY <1>1, <2>2, <2>5 DEF CarriedBy, BusyOn
  <2>6. ASSUME Busy(c)' /\ Enters /\ carried'[c] = Text PROVE CarriedBy(c)'
    BY <1>b, <2>6 DEF CarriedBy, Enters
  <2>7. ASSUME Busy(c)' /\ compactionQueue # <<>> /\ carried'[c] = Head(compactionQueue) PROVE CarriedBy(c)'
    <3>1. Head(compactionQueue) \in ItemsOf({"user"}) /\ Head(compactionQueue).n \in typed
      BY <2>7, EnteredTail DEF Carries
    <3> QED
      BY <1>1, <2>7, <3>1 DEF CarriedBy
  <2> QED
    BY <2>2, <2>3, <2>4, <2>5, <2>6, <2>7 DEF CallMoves
<1>5. flushing' # "none" => compactionQueue' # <<>>
  BY DEF TextsMove
<1> QED
  BY <1>1, <1>3, <1>4, <1>5 DEF Carries, Entered, EnteredIn

\* The texts stay where they are; a flush may begin.
BeginsFlush ==
  /\ UNCHANGED <<compactionQueue, carried, batch>>
  /\ \/ flushing' = flushing
     \/ compactionQueue # <<>> /\ flushing' \in {"steer", "prompt"}

LEMMA MovesNothing ==
  ASSUME TerminalTypeOK, Carries, BeginsFlush, typed' = typed \/ Enters, \A c \in Callers : BusyOn(c)
  PROVE  TextsMove
<1>1. QueueMoves /\ \A c \in Callers : CallMoves(c)
  BY DEF BeginsFlush, QueueMoves, CallMoves
<1> QED
  BY <1>1 DEF TextsMove, BeginsFlush, TerminalTypeOK, Carries

LEMMA FlushBegins ==
  /\ \A how \in {"steer", "prompt"} : BeginFlush(how) => BeginsFlush
  /\ UNCHANGED textVars => BeginsFlush
BY DEF BeginFlush, BeginsFlush, textVars

LEMMA UpdateType ==
  ASSUME NEW S, NEW T, NEW f \in [S -> T], NEW x, NEW y \in T
  PROVE  [f EXCEPT ![x] = y] \in [S -> T]
OBVIOUS

\* One call begins with a text.
LEMMA MovesOne ==
  ASSUME TerminalTypeOK, Carries, Phases, NEW d \in Callers, NEW more, PromptBeginWith(d, more),
         flushing' \in {"none", flushing}, flushing' # "none" => compactionQueue' = compactionQueue,
         QueueMoves, typed' = typed \/ Enters,
         \/ /\ batch' = [batch EXCEPT ![d] = compactionQueue] /\ compactionQueue # <<>>
            /\ carried' = [carried EXCEPT ![d] = Head(compactionQueue)]
         \/ /\ UNCHANGED batch /\ Enters /\ carried' = [carried EXCEPT ![d] = Text]
  PROVE  TextsMove
<1>a. /\ carried \in [Callers -> Items] /\ batch \in [Callers -> Seq(Items)]
      /\ compactionQueue \in Seq(Items) /\ TypeOK
  BY DEF TerminalTypeOK
<1>b. Text \in Items
  BY <1>a, TextIs
<1>1. carried' \in [Callers -> Items] /\ batch' \in [Callers -> Seq(Items)]
  <2>1. compactionQueue # <<>> => Head(compactionQueue) \in Items
    BY <1>a
  <2>2. carried' \in [Callers -> Items]
    BY <1>a, <1>b, <2>1, UpdateType, Zenon
  <2>3. batch' \in [Callers -> Seq(Items)]
    BY <1>a, UpdateType, Zenon
  <2> QED
    BY <2>2, <2>3
<1>2. pc[d] = "idle" /\ pc' = [pc EXCEPT ![d] = "checking"] /\ pc \in [Callers -> PCs]
  BY <1>a, PhaseTypes DEF PromptBeginWith
<1>3. Busy(d)' /\ \A c \in Callers : BusyOn(c)
  BY <1>2 DEF Busy, BusyOn
<1>4. ASSUME NEW c \in Callers PROVE CallMoves(c)
  <2>1. CASE c = d
    BY <1>a, <1>3, <2>1 DEF CallMoves
  <2>2. CASE c # d
    BY <1>a, <1>3, <2>2 DEF CallMoves
  <2> QED
    BY <2>1, <2>2
<1>5. flushing' \in {"none", "steer", "prompt"} /\ (flushing' # "none" => compactionQueue' # <<>>)
  BY DEF TerminalTypeOK, Carries
<1> QED
  BY <1>1, <1>4, <1>5 DEF TextsMove

\* One call begins its run or fails.
LEMMA MovesBack ==
  ASSUME TerminalTypeOK, Carries, Phases, NEW d \in Callers, NEW p, pc' = [pc EXCEPT ![d] = p],
         UNCHANGED <<flushing, typed>>, compactionQueue' \in {compactionQueue, batch[d]},
         flushing # "none" => compactionQueue' # <<>>,
         batch' = batch \/ batch' = [batch EXCEPT ![d] = <<>>],
         carried' = [carried EXCEPT ![d] = NoItem]
  PROVE  TextsMove
<1>a. /\ carried \in [Callers -> Items] /\ batch \in [Callers -> Seq(Items)] /\ TypeOK
      /\ flushing \in {"none", "steer", "prompt"} /\ NoItem \in Items
  BY NoItemIs DEF TerminalTypeOK
<1>1. carried' \in [Callers -> Items] /\ batch' \in [Callers -> Seq(Items)]
  <2>1. carried' \in [Callers -> Items]
    BY <1>a, UpdateType, Zenon
  <2>2. <<>> \in Seq(Items)
    OBVIOUS
  <2>3. batch' \in [Callers -> Seq(Items)]
    BY <1>a, <2>2, UpdateType, Zenon
  <2> QED
    BY <2>1, <2>3
<1>2. pc \in [Callers -> PCs]
  BY <1>a, PhaseTypes
<1>4. ASSUME NEW c \in Callers PROVE CallMoves(c)
  <2>1. CASE c = d
    BY <1>a, <2>1 DEF CallMoves
  <2>2. CASE c # d
    <3>1. BusyOn(c)
      BY <1>2, <2>2 DEF Busy, BusyOn
    <3> QED
      BY <1>a, <3>1, <2>2 DEF CallMoves
  <2> QED
    BY <2>1, <2>2
<1>5. QueueMoves
  BY DEF QueueMoves
<1> QED
  BY <1>a, <1>1, <1>4, <1>5 DEF TextsMove

LEMMA TextsMoveIs ==
  ASSUME TerminalInvariant, TerminalNext
  PROVE  TextsMove
<1> USE DEF agentVars, retryVars, compactVars, viewVars, fileVars, handlerVars, RunVars, ReplyVars,
            fateVars, escapeVars
<1>a. TerminalTypeOK /\ Carries /\ TypeOK /\ Phases
  BY DEF TerminalInvariant, SessionInvariant
<1>b. ASSUME BeginsFlush, typed' = typed \/ Enters, \A c \in Callers : BusyOn(c) PROVE TextsMove
  BY <1>a, <1>b, MovesNothing
<1>c. UNCHANGED textVars => BeginsFlush
  BY FlushBegins
<1>1. CASE FlushSteered
  <2>1. flushing' = "none" /\ compactionQueue' = <<>> /\ UNCHANGED <<carried, batch, typed, pc>>
    BY <1>1 DEF FlushSteered
  <2>2. \A c \in Callers : CallMoves(c)
    BY <1>a, <2>1, BusyKept DEF CallMoves
  <2> QED
    BY <1>a, <2>1, <2>2 DEF TextsMove, QueueMoves, TerminalTypeOK
<1>2. ASSUME NEW c \in Callers, FlushPrompted(c) PROVE TextsMove
  <2>1. /\ flushing = "prompt" /\ PromptBeginWith(c, Rest(compactionQueue))
        /\ carried' = [carried EXCEPT ![c] = Head(compactionQueue)]
        /\ batch' = [batch EXCEPT ![c] = compactionQueue]
        /\ compactionQueue' = <<>> /\ flushing' = "none" /\ typed' = typed
    BY <1>2 DEF FlushPrompted
  <2>2. compactionQueue # <<>> /\ QueueMoves
    BY <1>a, <2>1 DEF Carries, QueueMoves
  <2> DEFINE more == Rest(compactionQueue)
  <2>3. PromptBeginWith(c, more)
    BY <2>1
  <2> HIDE DEF more
  <2> QED
    BY <1>a, <2>1, <2>2, <2>3, MovesOne
<1>3. CASE FlushRejected
  <2>1. flushing' = "none" /\ UNCHANGED <<compactionQueue, carried, batch, typed, pc>>
    BY <1>3 DEF FlushRejected
  <2>2. \A c \in Callers : CallMoves(c)
    BY <1>a, <2>1, BusyKept DEF CallMoves
  <2> QED
    BY <1>a, <2>1, <2>2 DEF TextsMove, QueueMoves, TerminalTypeOK
<1>4. CASE TerminalRunStep
  <2>1. UNCHANGED textVars /\ typed' = typed
    BY <1>4 DEF TerminalRunStep, Turn, Unnoticed, OnContinue
  <2>2. AgentStep \/ TimerStep
    BY <1>4 DEF TerminalRunStep, Turn, Unnoticed, OnContinue, TimerStep
  <2> QED
    BY <1>a, <1>b, <1>c, <2>1, <2>2, BusyKept
<1>5. CASE TerminalHandlerStep
  <2>1. HandlerStep
    BY <1>5 DEF TerminalHandlerStep, Turn, Unnoticed, OnStart, OnMessage, OnReply, OnEndRetry, OnEnd,
       HandlerStep
  <2>2. typed' = typed /\ (UNCHANGED textVars \/ BeginFlush("prompt"))
    BY <1>5 DEF TerminalHandlerStep, Turn, Unnoticed, OnStart, OnMessage, OnReply, OnEndRetry, OnEnd,
       OnChecked
  <2> QED
    BY <1>a, <1>b, <2>1, <2>2, BusyKept, FlushBegins
<1>6. CASE TerminalAdminStep
  <2>1. AdminStep /\ typed' = typed
    BY <1>6 DEF TerminalAdminStep, Turn, Unnoticed, FinishNew, AdminStep
  <2>2. CASE FinishNew
    <3>1. flushing' = flushing /\ compactionQueue' = <<>> /\ UNCHANGED <<carried, batch>>
      BY <2>2 DEF FinishNew
    <3>2. flushing = "none"
      BY <1>6 DEF TerminalAdminStep, Turn, Unnoticed
    <3>3. \A c \in Callers : CallMoves(c)
      BY <1>a, <2>1, <3>1, BusyKept DEF CallMoves
    <3> QED
      BY <1>a, <2>1, <3>1, <3>2, <3>3 DEF TextsMove, QueueMoves, TerminalTypeOK
  <2>3. CASE UNCHANGED textVars
    BY <1>a, <1>b, <1>c, <2>1, <2>3, BusyKept
  <2> QED
    BY <1>6, <2>2, <2>3 DEF TerminalAdminStep, Turn, Unnoticed
<1>7. CASE ClientStep
  <2>1. UNCHANGED textVars /\ typed' = typed
    BY <1>7 DEF ClientStep, Turn, Unnoticed, ClientAborts, ClientClears
  <2>2. UserStep
    BY <1>7, IMAssumption DEF ClientStep, Turn, Unnoticed, ClientAborts, ClientClears, UserStep
  <2> QED
    BY <1>a, <1>b, <1>c, <2>1, <2>2, BusyKept
<1>8. ASSUME NEW w \in Workers, TerminalCompactionStep(w) PROVE TextsMove
  <2>1. typed' = typed /\ (UNCHANGED textVars \/ BeginFlush("prompt") \/ BeginFlush("steer"))
    BY <1>8 DEF TerminalCompactionStep, Turn, Unnoticed, OnStopCompaction, OnFinishCompaction
  <2>2. Compacts(w)
    BY <1>8 DEF TerminalCompactionStep, Turn, Unnoticed, OnStopCompaction, OnFinishCompaction, Compacts
  <2> QED
    BY <1>a, <1>b, <2>1, <2>2, BusyKept, FlushBegins
<1>9. ASSUME NEW c \in Callers, TerminalCallerStep(c) PROVE TextsMove
  <2>1. CASE OnPromptCheck(c)
    <3>1. PromptCheck(c) /\ typed' = typed /\ (UNCHANGED textVars \/ BeginFlush("prompt"))
      BY <2>1 DEF OnPromptCheck, OnChecked
    <3> QED
      BY <1>a, <1>b, <3>1, BusyKept, FlushBegins
  <2>2. CASE StartPrompt(c) \/ FailPrompt(c)
    <3>1. /\ \E p : pc' = [pc EXCEPT ![c] = p]
          /\ UNCHANGED <<flushing, typed, compactionQueue>>
          /\ batch' = batch \/ batch' = [batch EXCEPT ![c] = <<>>]
          /\ carried' = [carried EXCEPT ![c] = NoItem]
      BY <2>2 DEF StartPrompt, FailPrompt, PromptStart, PromptStartWith, PromptRejected, PromptThrows
    <3> QED
      BY <1>a, <3>1, MovesBack DEF Carries
  <2>3. CASE RestoreQueue(c)
    <3>1. /\ pc' = [pc EXCEPT ![c] = "idle"]
          /\ UNCHANGED <<flushing, typed>> /\ compactionQueue' = batch[c] /\ batch[c] # <<>>
          /\ batch' = [batch EXCEPT ![c] = <<>>]
          /\ carried' = [carried EXCEPT ![c] = NoItem]
      BY <2>3 DEF RestoreQueue, PromptThrows
    <3> QED
      BY <1>a, <3>1, MovesBack
  <2> QED
    BY <1>9, <2>1, <2>2, <2>3 DEF TerminalCallerStep, Turn
<1>10. CASE Keyboard
  <2>a. flushing = "none"
    BY <1>10 DEF Keyboard, Key, Turn
  <2>1. CASE SubmitWaits
    <3>1. Enters /\ compactionQueue' = Append(compactionQueue, Text)
          /\ UNCHANGED <<flushing, carried, batch, pc>>
      BY <2>1 DEF SubmitWaits, Enter, Enters
    <3>2. \A c \in Callers : CallMoves(c)
      BY <1>a, <3>1, BusyKept DEF CallMoves
    <3> QED
      BY <1>a, <2>a, <3>1, <3>2 DEF TextsMove, QueueMoves, TerminalTypeOK
  <2>2. CASE SubmitSteers \/ SubmitIgnored
    <3>1. Enters /\ UNCHANGED <<textVars, pc>>
      BY <2>2 DEF SubmitSteers, SubmitIgnored, QueueMessage, Enter, Enters, textVars
    <3> QED
      BY <1>a, <1>b, <1>c, <3>1, BusyKept
  <2>3. CASE SubmitPrompts
    <3>1. /\ PromptBeginWith(Loop, <<>>) /\ Enters /\ UNCHANGED <<flushing, batch, compactionQueue>>
          /\ carried' = [carried EXCEPT ![Loop] = Text]
      BY <2>3 DEF SubmitPrompts, Enter, Enters
    <3> QED
      BY <1>a, <3>1, <2>a, MovesOne, IMAssumption DEF QueueMoves
  <2>4. CASE Dequeue \/ EscapeMain \/ ResumeCommand
    <3>1. /\ compactionQueue' = <<>> /\ UNCHANGED <<flushing, carried, batch, typed>>
          /\ pc' = pc \/ AbortRetryEffects
      BY <2>4 DEF Dequeue, EscapeMain, EmptyQueues, ResumeCommand, AdminBegin, AbortEffects
    <3>2. \A c \in Callers : CallMoves(c)
      BY <1>a, <3>1, BusyKept DEF CallMoves
    <3> QED
      BY <1>a, <2>a, <3>1, <3>2 DEF TextsMove, QueueMoves, TerminalTypeOK
  <2>5. CASE EscapeRetry \/ EscapeCompaction \/ CompactCommand \/ NewCommand
    <3>1. UNCHANGED <<textVars, typed>> /\ (pc' = pc \/ AbortRetryEffects)
      BY <2>5 DEF EscapeRetry, EscapeCompaction, CompactCommand, NewCommand, AdminBegin, AbortEffects,
         AbortCompactions
    <3> QED
      BY <1>a, <1>b, <1>c, <3>1, BusyKept
  <2> QED
    BY <1>10, <2>1, <2>2, <2>3, <2>4, <2>5 DEF Keyboard, Key, Turn
<1> QED
  BY <1>1, <1>2, <1>3, <1>4, <1>5, <1>6, <1>7, <1>8, <1>9, <1>10, IMAssumption
  DEF TerminalNext, FlushStep, Flush

-----------------------------------------------------------------------------
(* Types *)

LEMMA TextsIs ==
  ASSUME TypeOK
  PROVE  /\ \A queue \in Seq(Items) : Texts(queue) \in SUBSET Nat
         /\ \A queue : Entered(queue) => Texts(queue) \subseteq typed
         /\ Texts(<<>>) = {}
<1>1. ASSUME NEW queue \in Seq(Items) PROVE Texts(queue) \in SUBSET Nat
  <2>1. \A i \in DOMAIN queue : queue[i] \in Items
    OBVIOUS
  <2>2. \A item \in Items : item.n \in Nat
    BY DEF Items, ItemsOf
  <2> QED
    BY <2>1, <2>2 DEF Texts
<1>2. ASSUME NEW queue, Entered(queue) PROVE Texts(queue) \subseteq typed
  BY <1>2 DEF Texts, Entered
<1>3. Texts(<<>>) = {}
  BY DEF Texts
<1> QED
  BY <1>1, <1>2, <1>3

\* What becomes of the texts.
FatesMove ==
  /\ restored' \in BOOLEAN
  /\ delivered' = delivered \cup (Texts(messages') \cap typed')
  /\ \E texts \in SUBSET typed : again' = again \cup texts
  /\ \E texts \in SUBSET Nat : dropped' = dropped \cup texts
  /\ \E texts \in SUBSET Nat : returned' = returned \cup texts

LEMMA FatesStay ==
  ASSUME TerminalTypeOK
  PROVE  /\ restored' = restored => restored' \in BOOLEAN
         /\ again' = again => \E texts \in SUBSET typed : again' = again \cup texts
         /\ dropped' = dropped => \E texts \in SUBSET Nat : dropped' = dropped \cup texts
         /\ returned' = returned => \E texts \in SUBSET Nat : returned' = returned \cup texts
<1>1. {} \in SUBSET typed /\ {} \in SUBSET Nat
  OBVIOUS
<1>2. again = again \cup {} /\ dropped = dropped \cup {} /\ returned = returned \cup {}
  OBVIOUS
<1> QED
  BY <1>1, <1>2 DEF TerminalTypeOK

LEMMA FatesMoveIs ==
  ASSUME TerminalInvariant, TerminalNext
  PROVE  FatesMove
<1> USE DEF fateVars
<1>a. /\ TerminalTypeOK /\ TypeOK /\ Carries
      /\ queued \in Seq(Items) /\ shown \in Seq(Items) /\ compactionQueue \in Seq(Items)
      /\ clock \in Nat
  BY DEF TerminalInvariant, TerminalTypeOK, TypeOK
<1>b. /\ Texts(queued) \in SUBSET Nat /\ Texts(shown) \in SUBSET Nat
      /\ Texts(compactionQueue) \in SUBSET Nat
  BY <1>a, TextsIs
<1>c. delivered' = delivered \cup (Texts(messages') \cap typed')
  <2>1. CASE FlushStep
    BY <2>1 DEF FlushStep, Delivers
  <2>2. CASE TerminalRunStep \/ TerminalHandlerStep \/ TerminalAdminStep
    BY <2>2 DEF TerminalRunStep, TerminalHandlerStep, TerminalAdminStep, Turn, Unnoticed, Delivers
  <2>3. CASE Keyboard
    BY <2>3 DEF Keyboard, Key, Turn, Delivers
  <2>4. CASE ClientStep
    BY <2>4 DEF ClientStep, Turn, Unnoticed, Delivers
  <2>5. ASSUME NEW c \in Callers, TerminalCallerStep(c) PROVE Delivers
    BY <2>5 DEF TerminalCallerStep, Turn
  <2>6. ASSUME NEW w \in Workers, TerminalCompactionStep(w) PROVE Delivers
    BY <2>6 DEF TerminalCompactionStep, Turn, Unnoticed
  <2> QED
    BY <2>1, <2>2, <2>3, <2>4, <2>5, <2>6 DEF TerminalNext, Delivers
<1>1. ASSUME UNCHANGED <<restored, again, dropped, returned>> PROVE FatesMove
  BY <1>a, <1>c, <1>1, FatesStay DEF FatesMove
<1>2. CASE FlushStep
  <2>1. CASE FlushSteered \/ \E c \in Flushers : FlushPrompted(c)
    <3>1. restored' = FALSE /\ UNCHANGED <<again, dropped, returned>>
      BY <2>1 DEF FlushSteered, FlushPrompted
    <3> QED
      BY <1>a, <1>c, <3>1, FatesStay DEF FatesMove
  <2>2. CASE FlushRejected
    <3> DEFINE late == SubSeq(compactionQueue, 3, Len(compactionQueue))
    <3>1. /\ dropped' = dropped \cup Texts(queued) /\ again' = again \cup Texts(late)
          /\ restored' = TRUE /\ returned' = returned /\ UNCHANGED clock
      BY <2>2 DEF FlushRejected
    <3>2. Entered(late)
      BY <1>a, EnteredSub DEF Carries
    <3> HIDE DEF late
    <3>3. Texts(late) \in SUBSET typed
      BY <1>a, <3>2, TextsIs
    <3> QED
      BY <1>a, <1>b, <1>c, <3>1, <3>3, FatesStay DEF FatesMove
  <2> QED
    BY <1>2, <2>1, <2>2 DEF FlushStep, Flush
<1>3. CASE TerminalRunStep \/ TerminalHandlerStep \/ \E w \in Workers : TerminalCompactionStep(w)
  <2>1. UNCHANGED <<restored, again, dropped, returned>>
    BY <1>3 DEF TerminalRunStep, TerminalHandlerStep, TerminalCompactionStep, Turn, Unnoticed, OnContinue,
       OnStart, OnMessage, OnReply, OnEndRetry, OnEnd, OnStopCompaction, OnFinishCompaction
  <2> QED
    BY <1>1, <2>1
<1>4. CASE TerminalAdminStep \/ ClientStep
  <2>1. /\ UNCHANGED <<restored, again, returned>>
        /\ \/ dropped' = dropped
           \/ dropped' = dropped \cup Texts(compactionQueue) \cup Texts(queued)
           \/ dropped' = dropped \cup Texts(queued)
    BY <1>4 DEF TerminalAdminStep, ClientStep, Turn, Unnoticed, FinishNew, ClientAborts, ClientClears
  <2>2. \E texts \in SUBSET Nat : dropped' = dropped \cup texts
    <3>1. CASE dropped' = dropped
      BY <1>a, <3>1, FatesStay
    <3>2. CASE dropped' = dropped \cup Texts(compactionQueue) \cup Texts(queued)
      <4>1. dropped' = dropped \cup (Texts(compactionQueue) \cup Texts(queued))
        BY <3>2
      <4>2. Texts(compactionQueue) \cup Texts(queued) \in SUBSET Nat
        BY <1>b
      <4> QED
        BY <4>1, <4>2
    <3>3. CASE dropped' = dropped \cup Texts(queued)
      BY <1>b, <3>3
    <3> QED
      BY <2>1, <3>1, <3>2, <3>3
  <2> QED
    BY <1>a, <1>c, <2>1, <2>2, FatesStay DEF FatesMove
<1>5. ASSUME NEW c \in Callers, TerminalCallerStep(c) PROVE FatesMove
  <2>0. carried[c] \in Items /\ carried[c].n \in Nat
    BY <1>a DEF TerminalTypeOK, Items, ItemsOf
  <2>1. CASE OnPromptCheck(c) \/ StartPrompt(c)
    <3>1. UNCHANGED <<restored, again, dropped, returned>>
      BY <2>1 DEF OnPromptCheck, StartPrompt
    <3> QED
      BY <1>1, <3>1
  <2>2. CASE FailPrompt(c)
    <3>1. UNCHANGED <<restored, again, returned>> /\ dropped' = dropped \cup ({carried[c].n} \ {NoItem.n})
      BY <2>2 DEF FailPrompt
    <3>2. ({carried[c].n} \ {NoItem.n}) \in SUBSET Nat
      BY <2>0
    <3> QED
      BY <1>a, <1>c, <3>1, <3>2, FatesStay DEF FatesMove
  <2>3. CASE RestoreQueue(c)
    <3> DEFINE lost == (Texts(queued) \cup Texts(compactionQueue)) \ Texts(batch[c])
               sent == Texts(batch[c]) \cap (delivered \cup dropped \cup returned)
    <3>1. restored' = TRUE /\ returned' = returned /\ dropped' = dropped \cup lost
          /\ again' = again \cup sent
      BY <2>3 DEF RestoreQueue
    <3>2. lost \in SUBSET Nat
      BY <1>b
    <3>3. sent \in SUBSET typed
      <4>1. Texts(batch[c]) \subseteq typed
        BY <1>a, TextsIs DEF Carries
      <4> QED
        BY <4>1
    <3> HIDE DEF lost, sent
    <3> QED
      BY <1>a, <1>c, <3>1, <3>2, <3>3, FatesStay DEF FatesMove
  <2> QED
    BY <1>5, <2>1, <2>2, <2>3 DEF TerminalCallerStep, Turn
<1>6. CASE Keyboard
  <2>1. CASE SubmitWaits \/ SubmitSteers \/ SubmitPrompts \/ EscapeRetry \/ EscapeCompaction
          \/ CompactCommand \/ NewCommand
    <3>1. UNCHANGED <<restored, again, dropped, returned>>
      BY <2>1 DEF SubmitWaits, SubmitSteers, SubmitPrompts, Enter, EscapeRetry, EscapeCompaction,
         CompactCommand, NewCommand
    <3> QED
      BY <1>1, <3>1
  <2>2. CASE SubmitIgnored
    <3>1. UNCHANGED <<restored, again, returned>> /\ dropped' = dropped \cup {Text.n}
      BY <2>2 DEF SubmitIgnored, Enter
    <3>2. {Text.n} \in SUBSET Nat
      BY <1>a, TextIs
    <3> QED
      BY <1>a, <1>c, <3>1, <3>2, FatesStay DEF FatesMove
  <2>3. CASE Dequeue \/ EscapeMain
    <3>1. /\ UNCHANGED <<restored, again>>
          /\ returned' = returned \cup Texts(shown) \cup Texts(compactionQueue)
          /\ dropped' = dropped \cup (Texts(queued) \ Texts(shown))
      BY <2>3 DEF Dequeue, EscapeMain, EmptyQueues
    <3>2. /\ Texts(shown) \cup Texts(compactionQueue) \in SUBSET Nat
          /\ Texts(queued) \ Texts(shown) \in SUBSET Nat
      BY <1>b
    <3>3. returned' = returned \cup (Texts(shown) \cup Texts(compactionQueue))
      BY <3>1
    <3> QED
      BY <1>a, <1>c, <3>1, <3>2, <3>3, FatesStay DEF FatesMove
  <2>4. CASE ResumeCommand
    <3>1. UNCHANGED <<restored, again, returned>> /\ dropped' = dropped \cup Texts(compactionQueue)
      BY <2>4 DEF ResumeCommand
    <3> QED
      BY <1>a, <1>b, <1>c, <3>1, FatesStay DEF FatesMove
  <2> QED
    BY <1>6, <2>1, <2>2, <2>3, <2>4 DEF Keyboard, Key, Turn
<1> QED
  BY <1>2, <1>3, <1>4, <1>5, <1>6 DEF TerminalNext

-----------------------------------------------------------------------------
(* The Escape handlers *)

EscapesTyped ==
  /\ onEscape \in Escapes /\ handlers \in [Slots -> Escapes \cup {"none"}]
  /\ loading \in BOOLEAN /\ crossed \in BOOLEAN

\* The handler in place changes with what the slots hold.
HandlersMove ==
  \/ UNCHANGED <<onEscape, handlers, crossed>>
  \/ \E slot \in Slots, handle \in Escapes : Install(slot, handle)
  \/ \E slot \in Slots : Restore(slot)
  \/ /\ handlers["compaction"] # "none" /\ onEscape' = handlers["compaction"] /\ crossed' = TRUE
     /\ handlers' = [handlers EXCEPT !["compaction"] = "none"]
  \/ CompactCommand

LEMMA HandlersTyped ==
  ASSUME EscapesTyped, HandlersMove
  PROVE  /\ onEscape' \in Escapes /\ handlers' \in [Slots -> Escapes \cup {"none"}]
         /\ crossed' \in BOOLEAN
<1> DEFINE H == Escapes \cup {"none"}
<1>a. onEscape \in Escapes /\ handlers \in [Slots -> H] /\ crossed \in BOOLEAN
      /\ onEscape \in H /\ "none" \in H
  BY DEF EscapesTyped
<1>b. \A slot \in Slots : handlers[slot] # "none" => handlers[slot] \in Escapes
  BY <1>a
<1>c. {"retry", "compaction", "original"} = Slots /\ "compaction" \in Escapes
  BY DEF Slots, Escapes
<1> HIDE DEF H
<1>1. ASSUME NEW slot \in Slots, NEW handle \in Escapes, Install(slot, handle)
      PROVE  onEscape' \in Escapes /\ handlers' \in [Slots -> H] /\ crossed' \in BOOLEAN
  <2>1. handlers' \in [Slots -> H]
    BY <1>a, <1>1, UpdateType, Zenon DEF Install
  <2> QED
    BY <1>a, <1>1, <2>1 DEF Install
<1>2. ASSUME NEW slot \in Slots, Restore(slot)
      PROVE  onEscape' \in Escapes /\ handlers' \in [Slots -> H] /\ crossed' \in BOOLEAN
  <2>1. handlers' = handlers \/ handlers' = [handlers EXCEPT ![slot] = "none"]
    BY <1>2 DEF Restore
  <2>2. handlers' \in [Slots -> H]
    BY <1>a, <2>1, UpdateType, Zenon
  <2> QED
    BY <1>a, <1>b, <1>2, <2>2 DEF Restore
<1>3. ASSUME handlers["compaction"] # "none", onEscape' = handlers["compaction"], crossed' = TRUE,
             handlers' = [handlers EXCEPT !["compaction"] = "none"]
      PROVE  onEscape' \in Escapes /\ handlers' \in [Slots -> H] /\ crossed' \in BOOLEAN
  <2>1. handlers' \in [Slots -> H]
    BY <1>a, <1>3, UpdateType, Zenon
  <2> QED
    BY <1>b, <1>c, <1>3, <2>1
<1>4. ASSUME CompactCommand
      PROVE  onEscape' \in Escapes /\ handlers' \in [Slots -> H] /\ crossed' \in BOOLEAN
  <2>1. PICK back \in H : handlers' = [handlers EXCEPT !["original"] = onEscape, !["retry"] = back]
    <3>1. handlers["retry"] \in H
      BY <1>a, <1>c
    <3>2. \E back : /\ back \in {"none", handlers["retry"]}
                    /\ handlers' = [handlers EXCEPT !["original"] = onEscape, !["retry"] = back]
      BY <1>4, <1>a, <1>c DEF CompactCommand
    <3> QED
      BY <3>1, <3>2, <1>a
  <2>2. [handlers EXCEPT !["original"] = onEscape] \in [Slots -> H]
    BY <1>a, UpdateType, Zenon
  <2>3. handlers' = [[handlers EXCEPT !["original"] = onEscape] EXCEPT !["retry"] = back]
    BY <2>1, <1>a
  <2>4. handlers' \in [Slots -> H]
    BY <2>2, <2>3, UpdateType, Zenon
  <2>5. onEscape' \in Escapes /\ crossed' \in BOOLEAN
    BY <1>a, <1>b, <1>c, <1>4 DEF CompactCommand
  <2> QED
    BY <2>4, <2>5
<1> QED
  BY <1>a, <1>1, <1>2, <1>3, <1>4, Zenon DEF HandlersMove, H

LEMMA EscapesKept ==
  ASSUME TerminalTypeOK, TerminalNext
  PROVE  EscapesTyped'
<1> USE DEF escapeVars
<1>a. EscapesTyped /\ TypeOK
  BY DEF TerminalTypeOK, EscapesTyped
<1>b. /\ {"retry", "compaction", "original"} = Slots /\ {"main", "retry", "compaction"} = Escapes
      /\ \A w \in Workers : Slot(w) \in Slots
  BY DEF Slots, Escapes, Slot
<1>c. ASSUME HandlersMove, loading' \in {TRUE, FALSE, loading} PROVE EscapesTyped'
  BY <1>a, <1>c, HandlersTyped DEF EscapesTyped
<1>d. UNCHANGED escapeVars => EscapesTyped'
  BY <1>c DEF HandlersMove
<1>e. ASSUME NEW m, NEW skip, OnChecked(m, skip) PROVE HandlersMove
  BY <1>e, <1>b DEF OnChecked, HandlersMove
<1>f. RetryCancelled => HandlersMove
  BY <1>b DEF RetryCancelled, HandlersMove
<1>1. CASE FlushStep
  BY <1>1, <1>d DEF FlushStep, Flush, FlushSteered, FlushPrompted, FlushRejected
<1>2. CASE TerminalRunStep
  <2>1. UNCHANGED <<onEscape, handlers, loading>> /\ crossed' \in BOOLEAN
    BY <1>2, <1>a DEF TerminalRunStep, Turn, Unnoticed, OnContinue, EscapesTyped
  <2> QED
    BY <1>a, <2>1 DEF EscapesTyped
<1>3. CASE TerminalHandlerStep
  <2>1. HandlersMove /\ loading' \in {TRUE, FALSE, loading}
    <3>1. CASE OnStart \/ OnReply \/ OnEndRetry
      BY <3>1, <1>b DEF OnStart, OnReply, OnEndRetry, HandlersMove
    <3>2. CASE OnEnd
      BY <3>2, <1>e DEF OnEnd
    <3>3. CASE UNCHANGED escapeVars
      BY <3>3 DEF HandlersMove
    <3> QED
      BY <1>3, <3>1, <3>2, <3>3 DEF TerminalHandlerStep, Turn, Unnoticed, OnMessage
  <2> QED
    BY <2>1, <1>c
<1>4. CASE TerminalAdminStep
  BY <1>4, <1>d DEF TerminalAdminStep, Turn, Unnoticed, FinishNew
<1>5. CASE ClientStep
  <2>1. UNCHANGED escapeVars \/ (RetryCancelled /\ UNCHANGED loading)
    BY <1>5 DEF ClientStep, Turn, Unnoticed, ClientAborts, ClientClears
  <2> QED
    BY <2>1, <1>c, <1>d, <1>f
<1>6. ASSUME NEW w \in Workers, TerminalCompactionStep(w) PROVE EscapesTyped'
  <2>1. UNCHANGED escapeVars \/ (Restore(Slot(w)) /\ UNCHANGED loading)
    BY <1>6 DEF TerminalCompactionStep, Turn, Unnoticed, OnStopCompaction, OnFinishCompaction
  <2> QED
    BY <2>1, <1>b, <1>c, <1>d DEF HandlersMove
<1>7. ASSUME NEW c \in Callers, TerminalCallerStep(c) PROVE EscapesTyped'
  <2>1. CASE OnPromptCheck(c)
    BY <2>1, <1>c, <1>e DEF OnPromptCheck
  <2>2. CASE StartPrompt(c)
    <3>1. UNCHANGED <<onEscape, handlers, loading>> /\ crossed' \in BOOLEAN
      BY <2>2, <1>a DEF StartPrompt, EscapesTyped
    <3> QED
      BY <1>a, <3>1 DEF EscapesTyped
  <2>3. CASE FailPrompt(c) \/ RestoreQueue(c)
    BY <2>3, <1>d DEF FailPrompt, RestoreQueue
  <2> QED
    BY <1>7, <2>1, <2>2, <2>3 DEF TerminalCallerStep, Turn
<1>8. CASE Keyboard
  <2>1. CASE NewCommand \/ ResumeCommand \/ EscapeRetry
    BY <2>1, <1>c, <1>f DEF NewCommand, ResumeCommand, EscapeRetry
  <2>2. CASE CompactCommand
    <3>1. loading' = FALSE
      BY <2>2 DEF CompactCommand
    <3> QED
      BY <2>2, <3>1, <1>c DEF HandlersMove
  <2>3. CASE UNCHANGED escapeVars
    BY <2>3, <1>d
  <2> QED
    BY <1>8, <2>1, <2>2, <2>3 DEF Keyboard, Key, Turn, SubmitWaits, SubmitSteers, SubmitPrompts,
       SubmitIgnored, Enter, Dequeue, EscapeMain, EmptyQueues, EscapeCompaction
<1> QED
  BY <1>1, <1>2, <1>3, <1>4, <1>5, <1>6, <1>7, <1>8 DEF TerminalNext

-----------------------------------------------------------------------------
(* The types of the terminal *)

LEMMA TerminalTypes ==
  ASSUME TerminalInvariant, TerminalNext, TypeOK'
  PROVE  TerminalTypeOK'
<1>a. TerminalTypeOK /\ FatesMove /\ EscapesTyped' /\ TextsMove /\ Carries' /\ TypeOK
  <2>1. TerminalTypeOK /\ SessionInvariant /\ Carries /\ TypeOK /\ Phases
    BY DEF TerminalInvariant, SessionInvariant
  <2>2. SessionStep /\ TextsMove /\ FatesMove /\ EscapesTyped'
    BY <2>1, TerminalIsStep, TextsMoveIs, FatesMoveIs, EscapesKept
  <2>3. Carries'
    BY <2>1, <2>2, CarriesKept DEF SessionStep
  <2> QED
    BY <2>1, <2>2, <2>3
<1>1. typed \subseteq typed' /\ typed' \in SUBSET Nat
  <2>1. typed \subseteq typed'
    BY <1>a DEF TextsMove, Enters
  <2>2. typed' \subseteq 1..clock' /\ clock' \in Nat
    BY <1>a DEF Carries, TypeOK
  <2> QED
    BY <2>1, <2>2
<1>2. compactionQueue' \in Seq(Items)
  <2>1. compactionQueue' \in Seq(ItemsOf({"user"}))
    BY <1>a DEF Carries, Entered
  <2>2. ItemsOf({"user"}) \subseteq Items
    BY DEF Items, ItemsOf, Kinds
  <2> QED
    BY <2>1, <2>2
<1>3. /\ delivered' \in SUBSET typed' /\ again' \in SUBSET typed'
      /\ returned' \in SUBSET Nat /\ dropped' \in SUBSET Nat
  BY <1>a, <1>1 DEF FatesMove, TerminalTypeOK
<1> QED
  BY <1>a, <1>1, <1>2, <1>3 DEF TerminalTypeOK, TextsMove, FatesMove, EscapesTyped

-----------------------------------------------------------------------------
(* The order of the texts, and what they wait for *)

LEMMA ControlKept ==
  ASSUME TypeOK, Controlled, SessionStep
  PROVE  Controlled'
<1> USE DEF agentVars, retryVars, compactVars, viewVars, fileVars, handlerVars, RestVars, RunVars, ReplyVars
<1> USE PhaseTypes, WorkersAre
<1>a. Time /\ SessionAction /\ controller \in Workers \cup {"nobody"}
  BY DEF SessionStep, TypeOK
<1>1. ASSUME UNCHANGED <<compaction, controller>> PROVE Controlled'
  BY <1>1 DEF Controlled
<1>2. ASSUME NEW w \in Workers \ {"manual"}, NEW reason, BeginCompaction(w, reason) PROVE Controlled'
  BY <1>2 DEF BeginCompaction, NoCompaction, Controlled
<1>3. ASSUME NEW w \in Workers, Compacts(w) PROVE Controlled'
  <2>1. CASE PrepareCompaction(w)
    <3>1. controller' = controller /\ \A v \in Workers : compaction[v].phase # "none" => compaction'[v].phase # "none"
      BY <2>1 DEF PrepareCompaction
    <3> QED
      BY <1>a, <3>1 DEF Controlled
  <2>2. CASE Release(w)
    <3>1. w = "manual" => controller' = controller /\ \A v \in Workers \ {w} : compaction'[v] = compaction[v]
      BY <2>2 DEF Release
    <3>2. w # "manual" => controller' = "nobody"
      BY <2>2 DEF Release
    <3> QED
      BY <1>a, <3>1, <3>2 DEF Controlled
  <2> QED
    BY <1>3, <2>1, <2>2 DEF Compacts, StopCompaction, FinishCompactionWith
<1>4. CASE AbortCompactions
  <2>1. \A v \in Workers : compaction'[v].phase = compaction[v].phase
    <3> SUFFICES ASSUME NEW v \in Workers PROVE compaction'[v].phase = compaction[v].phase
      OBVIOUS
    <3>1. compaction'[v] = [compaction[v] EXCEPT !.aborted =
            compaction[v].aborted \/ (v \in {controller, "manual"} /\ compaction[v].phase # "none")]
      BY <1>4 DEF AbortCompactions
    <3>2. compaction[v] \in Compactions
      OBVIOUS
    <3> QED
      BY <3>1, <3>2 DEF Compactions
  <2>2. controller' = controller
    BY <1>4 DEF AbortCompactions
  <2> QED
    BY <1>a, <2>1, <2>2 DEF Controlled
<1>5. ASSUME NEW c \in Callers, PromptCheck(c) PROVE Controlled'
  BY <1>1, <1>2, <1>5 DEF PromptCheck
<1>6. CASE HandleEnd
  BY <1>1, <1>2, <1>6 DEF HandleEnd
<1>7. CASE ManualCompact
  BY <1>7, <1>a DEF ManualCompact, Controlled
<1>8. CASE QueueMessage(Item("user")) \/ Steers \/ Replaces \/ Clears \/ Stops \/ Idles
  BY <1>1, <1>8 DEF QueueMessage, Steers, Replaces, Clears, Stops, Idles
<1>9. ASSUME NEW c \in Callers, BeginsPrompt(c) \/ StartsPrompt(c) \/ GivesUpPrompt(c) PROVE Controlled'
  BY <1>1, <1>9 DEF BeginsPrompt, PromptBeginWith, StartsPrompt, PromptStartWith, GivesUpPrompt, PromptThrows
<1>10. CASE \/ ReplyAndGoOn \/ ReplyAndDeliver \/ EndRun \/ \E kind \in AssistantKinds : LastReply(kind)
            \/ ContinueSwallowed \/ Continue
  BY <1>1, <1>10 DEF ReplyAndGoOn, ReplyAndDeliver, EndRun, LastReply, ContinueSwallowed, Continue
<1>11. CASE \/ HandleStart \/ HandleUser \/ HandleResult \/ HandleAssistant \/ HandleEndRetry \/ SleepEnds
  BY <1>1, <1>11 DEF HandleStart, HandleUser, HandleResult, HandleAssistant, HandleEndRetry, SleepEnds
<1>12. CASE \/ RecordBash \/ \E operation \in {"new", "switch", "compact"} : AdminBegin(operation)
            \/ NewSession \/ SwitchSession
  BY <1>1, <1>12 DEF RecordBash, AdminBegin, NewSession, SwitchSession
<1> QED
  BY <1>a, <1>3, <1>4, <1>5, <1>6, <1>7, <1>8, <1>9, <1>10, <1>11, <1>12 DEF SessionAction

\* A compaction is alone.
LEMMA CompactsAlone ==
  ASSUME TypeOK, Calm, NEW w \in Workers, InProgress(w)
  PROVE  /\ ~streaming /\ events = <<>> /\ timers = 0 /\ handler # "sleeping"
         /\ \A c \in Callers : pc[c] \notin {"checking", "starting"}
         /\ admin \in {"none", "compacting"} /\ (w # "manual" => admin = "none") /\ ~Quiet
<1> USE PhaseTypes, WorkersAre
<1>1. CASE w = "handler" /\ handler = "compacting"
  BY <1>1 DEF Calm, Busy, Quiet
<1>2. CASE w = "manual" /\ admin = "compacting"
  BY <1>2 DEF Calm, Quiet
<1>3. CASE w \in Callers /\ pc[w] = "compacting"
  BY <1>3 DEF Calm, Busy, Quiet
<1> QED
  BY <1>1, <1>2, <1>3 DEF InProgress

LEMMA ApartNone == Apart(<<>>)
BY DEF Apart

\* The texts that go on are fewer.
CarriedLess == \A c \in Callers : carried'[c] = carried[c] \/ carried'[c] = NoItem
BatchLess == \A c \in Callers : batch'[c] = batch[c] \/ batch'[c] = <<>>
LEMMA OnceLess ==
  ASSUME Once, ToSet(queued') \subseteq ToSet(queued), CarriedLess, BatchLess,
         compactionQueue' = compactionQueue \/ compactionQueue' = <<>>
  PROVE  Once'
<1>1. \A c \in Callers : Apart(batch'[c])
  BY ApartNone DEF Once, BatchLess
<1>2. CASE compactionQueue' = compactionQueue
  BY <1>1, <1>2 DEF Once, CarriedLess
<1>3. CASE compactionQueue' = <<>>
  BY <1>1, <1>3, ApartNone DEF Once, CarriedLess
<1> QED
  BY <1>2, <1>3

\* The texts that wait or are carried were entered before.
LEMMA Before ==
  ASSUME TypeOK, Carries
  PROVE  /\ clock \in Nat
         /\ \A i \in 1..Len(compactionQueue) : compactionQueue[i].n \in 1..clock
         /\ \A c \in Callers : carried[c] # NoItem => carried[c].n \in 1..clock
BY DEF Carries, CarriedBy, Entered, TypeOK

\* A text of this moment is queued.
LEMMA OnceMore ==
  ASSUME TypeOK, Carries, Once, UNCHANGED <<compactionQueue, carried, batch>>,
         NEW x, x.n = clock + 1, ToSet(queued') \subseteq ToSet(queued) \cup {x}
  PROVE  Once'
<1>1. ASSUME NEW y \in ToSet(queued'), NEW i \in 1..Len(compactionQueue)
      PROVE  y.n # compactionQueue[i].n
  <2>1. CASE y = x
    BY <2>1, Before
  <2>2. CASE y \in ToSet(queued)
    BY <2>2 DEF Once
  <2> QED
    BY <2>1, <2>2
<1>2. ASSUME NEW c \in Callers, carried[c] # NoItem, NEW y \in ToSet(queued') PROVE y.n # carried[c].n
  <2>1. CASE y = x
    BY <1>2, <2>1, Before
  <2>2. CASE y \in ToSet(queued)
    BY <1>2, <2>2 DEF Once
  <2> QED
    BY <2>1, <2>2
<1> QED
  BY <1>1, <1>2 DEF Once

LEMMA QueuedAppend ==
  ASSUME TypeOK, NEW x \in Items, queued' = Append(queued, x)
  PROVE  ToSet(queued') \subseteq ToSet(queued) \cup {x}
<1>1. queued \in Seq(Items)
  BY DEF TypeOK
<1> QED
  BY <1>1, SetOfAppend

LEMMA EnteredItems ==
  ASSUME NEW queue, Entered(queue)
  PROVE  queue \in Seq(Items)
<1>1. ItemsOf({"user"}) \subseteq Items
  BY DEF Items, ItemsOf, Kinds
<1>2. queue \in Seq(ItemsOf({"user"}))
  BY DEF Entered
<1> QED
  BY <1>1, <1>2, SeqMonotonic

LEMMA OnceKept ==
  ASSUME TerminalInvariant, TerminalNext, ~disturbed, ~disturbed'
  PROVE  Once' /\ FlushesAlone'
<1> USE DEF agentVars, retryVars, compactVars, viewVars, fileVars, handlerVars, RunVars, ReplyVars,
            escapeVars, fateVars, textVars
<1>a. /\ TypeOK /\ Phases /\ Calm /\ EventsInOrder /\ Once /\ FlushesAlone /\ Carries
      /\ queued \in Seq(Items) /\ clock \in Nat
      /\ carried \in [Callers -> Items] /\ batch \in [Callers -> Seq(Items)]
      /\ \A x \in ToSet(queued) : x.n <= clock
  <2>1. /\ TypeOK /\ Phases /\ Calm /\ EventsInOrder /\ Once /\ FlushesAlone /\ Carries /\ Past
    BY DEF TerminalInvariant, SessionInvariant, Settled
  <2>2. /\ queued \in Seq(Items) /\ clock \in Nat
        /\ carried \in [Callers -> Items] /\ batch \in [Callers -> Seq(Items)]
    BY <2>1 DEF TypeOK, TerminalInvariant, TerminalTypeOK
  <2>3. \A x \in ToSet(queued) : x.n <= clock
    BY <2>1 DEF Past, Waiting
  <2> QED
    BY <2>1, <2>2, <2>3
<1>b. \A x \in ToSet(queued) : x.n \in Nat /\ x.n <= clock
  <2>1. ToSet(queued) \subseteq Items /\ \A x \in Items : x.n \in Nat
    BY <1>a, InSet DEF Items, ItemsOf
  <2> QED
    BY <1>a, <2>1
<1>c. \A queue : Entered(queue) => queue \in Seq(Items)
  BY EnteredItems
<1>d. ASSUME NEW more \in Seq(Items), queued' = queued \o more
      PROVE  ToSet(queued') = ToSet(queued) \cup ToSet(more)
  <2>1. ToSet(queued \o more) = ToSet(queued) \cup ToSet(more)
    BY <1>a, SetOfJoin
  <2> QED
    BY <1>d, <2>1
<1>e. ASSUME UNCHANGED <<queued, compactionQueue, carried, batch>> PROVE Once'
  BY <1>a, <1>e, OnceLess DEF CarriedLess, BatchLess
<1>f. flushing' = "none" => FlushesAlone'
  BY DEF FlushesAlone
<1>g. ToSet(<<>>) = {}
  BY SetOfOne
<1>1. CASE FlushSteered
  <2>1. /\ compactionQueue' = <<>> /\ flushing' = "none" /\ UNCHANGED <<carried, batch>>
        /\ queued' = queued \o compactionQueue
    BY <1>1 DEF FlushSteered
  <2>2. compactionQueue \in Seq(Items)
    BY <1>a, <1>c DEF Carries
  <2>3. \A x \in ToSet(compactionQueue) : \E i \in 1..Len(compactionQueue) : x = compactionQueue[i]
    BY <2>2, InSet
  <2>4. ToSet(queued') = ToSet(queued) \cup ToSet(compactionQueue)
    BY <1>d, <2>1, <2>2
  <2>5. Once'
    BY <1>a, <2>1, <2>3, <2>4, ApartNone DEF Once
  <2> QED
    BY <2>1, <2>5, <1>f
<1>2. ASSUME NEW c \in Callers, FlushPrompted(c) PROVE Once' /\ FlushesAlone'
  <2>1. /\ compactionQueue' = <<>> /\ flushing' = "none"
        /\ carried' = [carried EXCEPT ![c] = Head(compactionQueue)]
        /\ batch' = [batch EXCEPT ![c] = compactionQueue]
        /\ queued' = queued \o Rest(compactionQueue) /\ Quiet
        /\ compactionQueue # <<>>
    BY <1>2, <1>a DEF FlushPrompted, PromptBeginWith, Disturb, Carries
  <2> DEFINE rest == Tail(compactionQueue)
  <2>2. /\ compactionQueue \in Seq(Items) /\ rest \in Seq(Items)
        /\ Head(compactionQueue) = compactionQueue[1] /\ 1 \in 1..Len(compactionQueue)
        /\ \A i \in 1..Len(rest) : rest[i] = compactionQueue[i + 1] /\ i + 1 \in 1..Len(compactionQueue)
                                   /\ 1 # i + 1
    <3>1. compactionQueue \in Seq(Items)
      BY <1>a, <1>c DEF Carries
    <3> QED
      BY <2>1, <3>1
  <2>3. queued' = queued \o rest
    BY <2>1 DEF Rest
  <2> HIDE DEF rest
  <2>4. ToSet(queued') = ToSet(queued) \cup ToSet(rest)
    BY <1>d, <2>2, <2>3
  <2>5. \A x \in ToSet(queued') : x.n # compactionQueue[1].n
    <3>1. ASSUME NEW x \in ToSet(queued) PROVE x.n # compactionQueue[1].n
      BY <1>a, <2>2 DEF Once
    <3>2. ASSUME NEW x \in ToSet(rest) PROVE x.n # compactionQueue[1].n
      <4>1. PICK i \in 1..Len(rest) : x = rest[i]
        BY <2>2, InSet
      <4> QED
        BY <1>a, <2>2, <4>1 DEF Once, Apart
    <3> QED
      BY <2>4, <3>1, <3>2
  <2>6. \A d \in Callers : carried'[d] # NoItem => carried'[d] = compactionQueue[1]
    <3>1. \A d \in Callers : carried[d] = NoItem
      BY <1>a, <2>1 DEF Carries, CarriedBy, Busy, Quiet
    <3> QED
      BY <1>a, <2>1, <2>2, <3>1
  <2>7. \A d \in Callers : Apart(batch'[d])
    BY <1>a, <2>1 DEF Once
  <2>8. Once'
    BY <2>1, <2>5, <2>6, <2>7, ApartNone DEF Once
  <2> QED
    BY <2>1, <2>8, <1>f
<1>3. CASE FlushRejected
  BY <1>3, <1>a DEF FlushRejected, FlushesAlone
<1>4. CASE TerminalRunStep
  <2>1. /\ flushing = "none" /\ UNCHANGED textVars
        /\ queued' = queued \/ (queued # <<>> /\ queued' = Tail(queued))
    <3>1. UNCHANGED textVars /\ flushing = "none" /\ (AgentStep \/ Continue \/ ContinueSwallowed)
      BY <1>4 DEF TerminalRunStep, Turn, Unnoticed, OnContinue
    <3>2. AgentStep \/ ContinueSwallowed => queued' = queued \/ (queued # <<>> /\ queued' = Tail(queued))
      BY DEF AgentStep, ReplyAndGoOn, ReplyAndDeliver, LastReply, EndRun, ContinueSwallowed
    <3>3. Continue => queued' = queued \/ (queued # <<>> /\ queued' = Tail(queued))
      BY DEF Continue, MayContinue
    <3> QED
      BY <3>1, <3>2, <3>3
  <2>2. ToSet(queued') \subseteq ToSet(queued)
    BY <1>a, <2>1, InSet
  <2> QED
    BY <1>a, <1>f, <2>1, <2>2, OnceLess DEF CarriedLess, BatchLess
<1>5. CASE TerminalHandlerStep
  <2>1. \/ OnStart \/ OnMessage \/ OnReply \/ OnEndRetry \/ OnEnd
        \/ SleepEnds /\ UNCHANGED textVars
    BY <1>5 DEF TerminalHandlerStep, Turn, Unnoticed
  <2>2. flushing = "none"
    BY <1>5 DEF TerminalHandlerStep, Turn, Unnoticed
  <2>3. UNCHANGED <<queued, compactionQueue, carried, batch>>
    <3>1. \/ HandleStart \/ HandleUser \/ HandleResult \/ HandleAssistant \/ HandleEndRetry \/ HandleEnd
          \/ SleepEnds
      BY <2>1 DEF OnStart, OnMessage, OnReply, OnEndRetry, OnEnd
    <3>2. UNCHANGED queued
      BY <3>1 DEF HandleStart, HandleUser, HandleResult, HandleAssistant, HandleEndRetry, HandleEnd, SleepEnds
    <3>3. UNCHANGED <<compactionQueue, carried, batch>>
      BY <2>1 DEF OnStart, OnMessage, OnReply, OnEndRetry, OnEnd, OnChecked, BeginFlush
    <3> QED
      BY <3>2, <3>3
  <2>4. FlushesAlone'
    <3>1. CASE OnEnd
      <4>1. /\ events # <<>> /\ Head(events).type = "agent_end" /\ events' = Tail(events)
            /\ UNCHANGED <<streaming, admin>>
        BY <3>1 DEF OnEnd, HandleEnd, HandleNext
      <4>2. events \in Seq([type : {"agent_start", "message", "agent_end"}, item : Items])
        BY <1>a DEF TypeOK
      <4>3. 1 \in 1..Len(events) /\ events[1].type = "agent_end"
        BY <4>1, <4>2
      <4>4. ~streaming /\ Len(events) = 1
        BY <1>a, <4>3 DEF EventsInOrder
      <4>5. events' = <<>>
        BY <4>1, <4>2, <4>4
      <4>6. admin = "none"
        BY <1>a, <4>1 DEF Calm
      <4> QED
        BY <4>1, <4>4, <4>5, <4>6 DEF FlushesAlone
    <3>2. CASE ~OnEnd
      BY <1>f, <2>1, <2>2, <3>2 DEF OnStart, OnMessage, OnReply, OnEndRetry
    <3> QED
      BY <3>1, <3>2
  <2> QED
    BY <1>e, <2>3, <2>4
<1>6. CASE TerminalAdminStep
  <2>1. /\ flushing = "none" /\ UNCHANGED <<carried, batch, flushing>>
        /\ (queued' = queued \/ queued' = <<>>)
        /\ (compactionQueue' = compactionQueue \/ compactionQueue' = <<>>)
    BY <1>6 DEF TerminalAdminStep, Turn, Unnoticed, FinishNew, NewSession, SwitchSession, ManualCompact
  <2>2. ToSet(queued') \subseteq ToSet(queued)
    BY <1>g, <2>1
  <2> QED
    BY <1>a, <1>f, <2>1, <2>2, OnceLess DEF CarriedLess, BatchLess
<1>7. ASSUME NEW w \in Workers, TerminalCompactionStep(w) PROVE Once' /\ FlushesAlone'
  <2>1. flushing = "none" /\ Compacts(w) /\ UNCHANGED <<queued, compactionQueue, carried, batch>>
    BY <1>7 DEF TerminalCompactionStep, Turn, Unnoticed, OnStopCompaction, OnFinishCompaction, Compacts,
       PrepareCompaction, StopCompaction, FinishCompactionWith, BeginFlush
  <2>2. CASE PrepareCompaction(w) /\ UNCHANGED flushing
    BY <1>e, <1>f, <2>1, <2>2
  <2>3. CASE StopCompaction(w) \/ FinishCompactionWith(w, queued # <<>> \/ Len(compactionQueue) > 1)
    <3>1. compaction[w].phase # "none" /\ Release(w) /\ UNCHANGED <<streaming, events>>
      BY <2>3 DEF StopCompaction, FinishCompactionWith
    <3>2. InProgress(w)
      BY <1>a, <3>1 DEF Phases, Underway
    <3>3. ~streaming' /\ events' = <<>> /\ admin' = "none"
      <4>1. ~streaming /\ events = <<>> /\ (w # "manual" => admin = "none")
        BY <1>a, <3>2, CompactsAlone
      <4> QED
        BY <3>1, <4>1 DEF Release
    <3> QED
      BY <1>e, <2>1, <3>3 DEF FlushesAlone
  <2> QED
    BY <1>7, <2>2, <2>3 DEF TerminalCompactionStep, Turn, Unnoticed, OnStopCompaction, OnFinishCompaction
<1>8. ASSUME NEW c \in Callers, TerminalCallerStep(c) PROVE Once' /\ FlushesAlone'
  <2>1. flushing = "none" /\ Busy(c)
    BY <1>8 DEF TerminalCallerStep, Turn, OnPromptCheck, StartPrompt, FailPrompt, RestoreQueue, PromptCheck,
       PromptStart, PromptStartWith, PromptRejected, PromptThrows, Busy
  <2>2. ~streaming /\ events = <<>> /\ admin = "none" /\ \A d \in Callers : d # c => pc[d] = "idle"
    BY <1>a, <2>1 DEF Calm
  <2>3. CASE OnPromptCheck(c)
    <3>1. UNCHANGED <<compactionQueue, carried, batch, queued, streaming, events, admin>>
      BY <2>3 DEF OnPromptCheck, OnChecked, BeginFlush, PromptCheck
    <3> QED
      BY <1>e, <2>2, <3>1 DEF FlushesAlone
  <2>4. CASE StartPrompt(c) \/ FailPrompt(c)
    <3>1. /\ UNCHANGED <<compactionQueue, flushing, queued>> /\ carried' = [carried EXCEPT ![c] = NoItem]
          /\ batch' = batch \/ batch' = [batch EXCEPT ![c] = <<>>]
      BY <2>4 DEF StartPrompt, PromptStart, PromptStartWith, FailPrompt, PromptRejected
    <3>2. CarriedLess /\ BatchLess
      BY <1>a, <3>1 DEF CarriedLess, BatchLess
    <3> QED
      BY <1>a, <1>f, <2>1, <3>1, <3>2, OnceLess
  <2>5. CASE RestoreQueue(c)
    <3>1. /\ flushing' = flushing /\ queued' = <<>> /\ compactionQueue' = batch[c]
          /\ carried' = [carried EXCEPT ![c] = NoItem] /\ batch' = [batch EXCEPT ![c] = <<>>]
      BY <2>5 DEF RestoreQueue
    <3>2. \A d \in Callers : carried'[d] = NoItem
      BY <1>a, <2>2, <3>1 DEF Carries, CarriedBy, Busy
    <3>3. Apart(batch[c]) /\ \A d \in Callers : Apart(batch'[d])
      BY <1>a, <3>1, ApartNone DEF Once
    <3>4. Once'
      BY <1>g, <3>1, <3>2, <3>3 DEF Once
    <3> QED
      BY <1>f, <2>1, <3>1, <3>4
  <2> QED
    BY <1>8, <2>3, <2>4, <2>5 DEF TerminalCallerStep, Turn
<1>9. CASE ClientStep
  <2>1. flushing = "none" /\ UNCHANGED textVars
    BY <1>9 DEF ClientStep, Turn, Unnoticed, ClientAborts, ClientClears
  <2>2. CASE PromptQueued
    <3>1. queued' = Append(queued, Text) /\ Text \in Items /\ Text.n = clock + 1
      BY <1>a, <2>2, TextIs DEF PromptQueued, QueueMessage, Text
    <3>2. ToSet(queued') \subseteq ToSet(queued) \cup {Text}
      BY <1>a, <3>1, QueuedAppend
    <3> QED
      BY <1>a, <1>f, <2>1, <3>1, <3>2, OnceMore
  <2>3. CASE \/ \E c \in Clients : PromptBegin(c)
             \/ Abort \/ AbortRetry \/ AbortCompaction \/ ClearQueue \/ RecordBash
    <3>1. queued' = queued \/ queued' = queued \o <<>> \/ queued' = <<>>
      BY <2>3 DEF PromptBegin, PromptBeginWith, Abort, AbortRetry, AbortEffects, AbortCompaction,
         AbortCompactions, ClearQueue, RecordBash
    <3>2. ToSet(queued') \subseteq ToSet(queued)
      BY <1>a, <1>g, <3>1
    <3> QED
      BY <1>a, <1>f, <2>1, <3>2, OnceLess DEF CarriedLess, BatchLess
  <2> QED
    BY <1>9, <2>2, <2>3 DEF ClientStep, Turn, Unnoticed, ClientAborts, ClientClears
<1>10. CASE Keyboard
  <2>a. flushing = "none"
    BY <1>10 DEF Keyboard, Key, Turn
  <2>b. Text \in Items /\ Text.n = clock + 1
    BY <1>a, TextIs
  <2>1. CASE SubmitWaits
    <3>1. compactionQueue' = Append(compactionQueue, Text) /\ UNCHANGED <<queued, carried, batch, flushing>>
      BY <2>1 DEF SubmitWaits, Enter
    <3> DEFINE n == Len(compactionQueue)
    <3>2. /\ n \in Nat /\ Len(compactionQueue') = n + 1 /\ compactionQueue'[n + 1] = Text
          /\ \A i \in 1..n : compactionQueue'[i] = compactionQueue[i]
          /\ \A i \in 1..n + 1 : i = n + 1 \/ i \in 1..n
          /\ \A i \in 1..n : compactionQueue[i].n # Text.n
      <4>1. compactionQueue \in Seq(ItemsOf({"user"})) /\ \A i \in 1..n : compactionQueue[i].n \in 1..clock
        BY <1>a DEF Carries, Entered
      <4>2. \A i \in 1..n : compactionQueue[i].n # Text.n
        BY <1>a, <2>b, <4>1
      <4>3. \A i \in 1..n + 1 : i = n + 1 \/ i \in 1..n
        BY <4>1
      <4> QED
        BY <3>1, <4>1, <4>2, <4>3
    <3> HIDE DEF n
    <3>3. Apart(compactionQueue')
      <4>1. \A i, j \in 1..n : i # j => compactionQueue[i].n # compactionQueue[j].n
        BY <1>a DEF Once, Apart, n
      <4>2. ASSUME NEW i \in 1..n + 1, NEW j \in 1..n + 1, i # j
            PROVE  compactionQueue'[i].n # compactionQueue'[j].n
        BY <3>2, <4>1, <4>2
      <4> QED
        BY <3>2, <4>2 DEF Apart
    <3>4. \A x \in ToSet(queued), i \in 1..n + 1 : x.n # compactionQueue'[i].n
      <4>1. \A x \in ToSet(queued) : x.n # Text.n
        BY <1>a, <1>b, <2>b
      <4>2. \A x \in ToSet(queued), i \in 1..n : x.n # compactionQueue[i].n
        BY <1>a DEF Once, n
      <4> QED
        BY <3>2, <4>1, <4>2
    <3>5. \A c \in Callers : carried[c] # NoItem =>
            \A i \in 1..n + 1 : compactionQueue'[i].n # carried[c].n
      <4>1. \A c \in Callers : carried[c] # NoItem => carried[c].n # Text.n
        BY <1>a, <2>b, Before
      <4>2. \A c \in Callers : carried[c] # NoItem => \A i \in 1..n : compactionQueue[i].n # carried[c].n
        BY <1>a DEF Once, n
      <4> QED
        BY <3>2, <4>1, <4>2
    <3>6. Once'
      BY <1>a, <3>1, <3>2, <3>3, <3>4, <3>5 DEF Once
    <3> QED
      BY <1>f, <2>a, <3>1, <3>6
  <2>2. CASE SubmitSteers
    <3>1. queued' = Append(queued, Text) /\ UNCHANGED textVars
      BY <2>2 DEF SubmitSteers, Enter, QueueMessage
    <3>2. ToSet(queued') \subseteq ToSet(queued) \cup {Text}
      BY <1>a, <2>b, <3>1, QueuedAppend
    <3> QED
      BY <1>a, <1>f, <2>a, <2>b, <3>1, <3>2, OnceMore
  <2>3. CASE SubmitPrompts
    <3>1. /\ queued' = queued \o <<>> /\ UNCHANGED <<compactionQueue, flushing, batch>>
          /\ carried' = [carried EXCEPT ![Loop] = Text]
      BY <2>3 DEF SubmitPrompts, Enter, PromptBeginWith
    <3>2. queued' = queued
      BY <1>a, <3>1
    <3>3. \A d \in Callers : carried'[d] = carried[d] \/ carried'[d] = Text
      BY <1>a, <3>1
    <3>4. \A x \in ToSet(queued) : x.n # Text.n
      BY <1>a, <1>b, <2>b
    <3>5. \A i \in 1..Len(compactionQueue) : compactionQueue[i].n # Text.n
      BY <1>a, <2>b, Before
    <3>6. \A d \in Callers : carried'[d] # NoItem =>
            /\ \A x \in ToSet(queued) : x.n # carried'[d].n
            /\ \A i \in 1..Len(compactionQueue) : compactionQueue[i].n # carried'[d].n
      BY <1>a, <3>3, <3>4, <3>5 DEF Once
    <3>7. Once'
      BY <1>a, <3>1, <3>2, <3>6 DEF Once
    <3> QED
      BY <1>f, <2>a, <3>1, <3>7
  <2>4. CASE SubmitIgnored \/ EscapeRetry \/ EscapeCompaction
    <3>1. UNCHANGED <<textVars, queued>>
      BY <2>4 DEF SubmitIgnored, Enter, EscapeRetry, EscapeCompaction, AbortCompactions
    <3> QED
      BY <1>e, <1>f, <2>a, <3>1
  <2>5. CASE Dequeue \/ EscapeMain \/ CompactCommand \/ NewCommand \/ ResumeCommand
    <3>1. /\ queued' = queued \/ queued' = <<>>
          /\ compactionQueue' = compactionQueue \/ compactionQueue' = <<>>
          /\ UNCHANGED <<carried, batch, flushing>>
      BY <2>5 DEF Dequeue, EscapeMain, EmptyQueues, CompactCommand, NewCommand, ResumeCommand, AdminBegin
    <3>2. ToSet(queued') \subseteq ToSet(queued)
      BY <1>g, <3>1
    <3> QED
      BY <1>a, <1>f, <2>a, <3>1, <3>2, OnceLess DEF CarriedLess, BatchLess
  <2> QED
    BY <1>10, <2>1, <2>2, <2>3, <2>4, <2>5 DEF Keyboard, Key, Turn
<1> QED
  BY <1>1, <1>2, <1>3, <1>4, <1>5, <1>6, <1>7, <1>8, <1>9, <1>10, IMAssumption
  DEF TerminalNext, FlushStep, Flush

-----------------------------------------------------------------------------
(* The invariant of the terminal, and the theorems *)

LEMMA TerminalKept ==
  ASSUME TerminalInvariant, TerminalNext
  PROVE  TerminalInvariant'
<1>1. SessionInvariant /\ Carries /\ Controlled /\ TypeOK
  BY DEF TerminalInvariant, SessionInvariant
<1>2. SessionStep /\ TextsMove
  BY TerminalIsStep, TextsMoveIs
<1>3. SessionInvariant'
  BY <1>1, <1>2, InvariantKept
<1>4. Carries' /\ Controlled'
  BY <1>1, <1>2, CarriesKept, ControlKept DEF SessionStep
<1>5. TerminalTypeOK'
  BY <1>3, TerminalTypes DEF SessionInvariant
<1>6. ASSUME ~disturbed' PROVE Once' /\ FlushesAlone'
  BY <1>2, <1>6, StaysDisturbed, OnceKept
<1> QED
  BY <1>3, <1>4, <1>5, <1>6 DEF TerminalInvariant

LEMMA TerminalStutter ==
  ASSUME TerminalInvariant, UNCHANGED terminalVars
  PROVE  TerminalInvariant'
<1> USE DEF terminalVars, uiVars, textVars, escapeVars, fateVars
<1>1. SessionInvariant /\ TypeOK /\ UNCHANGED vars
  BY DEF TerminalInvariant, SessionInvariant
<1>2. SessionInvariant' /\ Controlled'
  BY <1>1, StutterIsStep, InvariantKept, ControlKept DEF TerminalInvariant
<1>3. UNCHANGED <<pc, clock, events, streaming, admin, queued, handler, disturbed>>
  BY <1>1 DEF vars, agentVars, handlerVars
<1>4. TerminalTypeOK'
  BY <1>2 DEF TerminalInvariant, SessionInvariant, TerminalTypeOK
<1>5. Carries'
  BY <1>3 DEF TerminalInvariant, Carries, Entered, CarriedBy, Busy
<1>6. ~disturbed' => Once' /\ FlushesAlone'
  BY <1>3 DEF TerminalInvariant, Once, FlushesAlone, Apart
<1> QED
  BY <1>2, <1>4, <1>5, <1>6 DEF TerminalInvariant

LEMMA TerminalStarts == TerminalInit => TerminalInvariant
<1> SUFFICES ASSUME TerminalInit PROVE TerminalInvariant
  OBVIOUS
<1>1. SessionInvariant /\ Init
  BY InvariantInit DEF TerminalInit
<1>2. NoItem \in Items /\ <<>> \in Seq(Items)
  BY NoItemIs
<1>3. TerminalTypeOK
  BY <1>1, <1>2 DEF TerminalInit, SessionInvariant, TerminalTypeOK, Escapes
<1>4. Carries
  <2>1. Entered(<<>>)
    BY DEF Entered
  <2> QED
    BY <2>1 DEF TerminalInit, Carries, CarriedBy
<1>5. Controlled
  BY <1>1 DEF Init, Controlled
<1>6. Once /\ FlushesAlone
  BY ApartNone DEF TerminalInit, Once, FlushesAlone
<1> QED
  BY <1>1, <1>3, <1>4, <1>5, <1>6 DEF TerminalInvariant

\* The terminal and its session keep their invariant, whatever the user, the
\* clients and the model do (onSubmit, flushCompactionQueue, setupKeyHandlers).
THEOREM TerminalSafe == TerminalSpec => []TerminalInvariant
<1>1. TerminalInvariant /\ [TerminalNext]_terminalVars => TerminalInvariant'
  BY TerminalKept, TerminalStutter
<1> QED
  BY TerminalStarts, <1>1, PTL DEF TerminalSpec

\* Every variable of the terminal and its session keeps its type; what is
\* delivered or put back was entered.
THEOREM TerminalTyped == TerminalSpec => []TerminalTypeOK
<1>1. TerminalInvariant => TerminalTypeOK
  BY DEF TerminalInvariant
<1> QED
  BY <1>1, TerminalSafe, PTL

\* In every turn of the terminal too the session remembers what it remembers
\* alone.
LEMMA HistoryCarried ==
  ASSUME TerminalInvariant, SessionHistory, [TerminalNext]_terminalVars
  PROVE  SessionStep /\ TerminalInvariant' /\ SessionHistory'
<1>1. SessionStep
  <2>1. CASE TerminalNext
    BY <2>1, TerminalIsStep
  <2>2. CASE UNCHANGED terminalVars
    BY <2>2, StutterIsStep DEF terminalVars, TerminalInvariant, SessionInvariant
  <2> QED
    BY <2>1, <2>2
<1>2. TerminalInvariant'
  BY TerminalKept, TerminalStutter
<1> QED
  BY <1>1, <1>2, HistoryKept

\* With the terminal's keys, flushes and commands around it a session keeps
\* its invariant SessionHistory (queueCompactionMessage, flushCompactionQueue,
\* restoreQueuedMessagesToEditor, _processAgentEvent).
THEOREM TerminalRemembers == TerminalSpec => [](TerminalInvariant /\ SessionHistory)
<1> DEFINE Inv == TerminalInvariant /\ SessionHistory
<1>1. TerminalInit => Inv
  BY TerminalStarts, HistoryInit DEF TerminalInit
<1>2. Inv /\ [TerminalNext]_terminalVars => Inv'
  BY HistoryCarried
<1> HIDE DEF Inv
<1>3. TerminalSpec => []Inv
  BY <1>1, <1>2, PTL DEF TerminalSpec
<1> QED
  BY <1>3 DEF Inv

\* The copies of a session's state agree in the terminal too: what it shows as
\* queued is what the agent holds, whatever was typed, queued for after a
\* compaction, flushed and taken back, as long as nothing disturbed the session
\* (flushCompactionQueue, restoreQueuedMessagesToEditor, _queueSteer).
THEOREM TerminalAgrees == TerminalSpec => []CopiesAgree
BY TerminalRemembers, HistoryAgrees, PTL

\* Neither recovery goes on for ever in the terminal, as long as nothing
\* disturbed the session (_handleRetryableError, _checkCompaction).
THEOREM TerminalRecovers == TerminalSpec => []RecoveryBounded
BY TerminalRemembers, HistoryBounds, PTL

\* In the terminal too only a reply that failed or overflowed is taken out of
\* the agent's messages, as long as nothing disturbed the session
\* (_handleRetryableError, _checkCompaction).
THEOREM TerminalKeepsReplies == TerminalSpec => RemovesOnlyFailures
<1> DEFINE Removes == ~disturbed /\ messages # <<>> /\ messages' = Front(messages) /\ current' = current
           Failed == IsRemovable(Last(messages))
<1>1. TerminalInvariant /\ SessionHistory /\ [TerminalNext]_terminalVars => [Removes => Failed]_vars
  <2>1. ASSUME TerminalInvariant, SessionHistory, [TerminalNext]_terminalVars PROVE Removes => Failed
    BY <2>1, HistoryCarried, HistoryRemoves
  <2> HIDE DEF Removes, Failed
  <2> QED
    BY <2>1
<1> HIDE DEF Removes, Failed
<1>2. TerminalSpec => [][Removes => Failed]_vars
  BY TerminalRemembers, <1>1, PTL DEF TerminalSpec
<1> QED
  BY <1>2 DEF RemovesOnlyFailures, Removes, Failed

-----------------------------------------------------------------------------
(* What Escape acts on *)

Holds(slot) == handlers[slot] # "none"
HandlerOf(slot) == IF slot = "retry" THEN "retry" ELSE "compaction"

\* No handler was saved on top of another.
OneHandler ==
  \/ onEscape = "main" /\ \A slot \in Slots : ~Holds(slot)
  \/ \E slot \in Slots : /\ handlers[slot] = "main" /\ onEscape = HandlerOf(slot)
                         /\ \A other \in Slots \ {slot} : ~Holds(other)

\* The terminal was told of the run, or will be.
Heard ==
  \/ \E i \in 1..Len(events) : /\ events[i].type = "agent_start"
                               /\ \A j \in i..Len(events) : events[j].type # "agent_end"
  \/ (\A i \in 1..Len(events) : events[i].type # "agent_end") /\ loading /\ ~Holds("retry")

\* The slots say what goes on.
Acting ==
  /\ OneHandler
  /\ handler = "sleeping" => Holds("retry")
  /\ controller # "nobody" <=> Holds("compaction")
  /\ admin \in {"compact", "compacting"} <=> Holds("original")
  /\ admin = "compacting" => ~streaming
  /\ streaming /\ connected => Heard

LEMMA InstallOne ==
  ASSUME EscapesTyped, OneHandler, NEW slot \in Slots, Install(slot, HandlerOf(slot)), ~crossed'
  PROVE  /\ OneHandler' /\ \A other \in Slots : ~Holds(other) /\ (Holds(other)' <=> other = slot)
<1>1. onEscape = "main" /\ handlers' = [handlers EXCEPT ![slot] = onEscape] /\ onEscape' = HandlerOf(slot)
  BY DEF Install
<1>2. \A other \in Slots : ~Holds(other)
  BY <1>1 DEF OneHandler, HandlerOf
<1>3. handlers \in [Slots -> Escapes \cup {"none"}]
  BY DEF EscapesTyped
<1>4. handlers'[slot] = "main" /\ \A other \in Slots \ {slot} : handlers'[other] = handlers[other]
  BY <1>1, <1>3
<1>5. \A other \in Slots : Holds(other)' <=> other = slot
  BY <1>2, <1>4 DEF Holds
<1> QED
  BY <1>1, <1>2, <1>4, <1>5 DEF OneHandler

LEMMA RestoreOne ==
  ASSUME EscapesTyped, OneHandler, NEW slot \in Slots, Restore(slot)
  PROVE  /\ OneHandler' /\ ~Holds(slot)' /\ crossed' = crossed
         /\ \A other \in Slots \ {slot} : Holds(other)' <=> Holds(other)
<1>3. handlers \in [Slots -> Escapes \cup {"none"}]
  BY DEF EscapesTyped
<1>1. CASE handlers[slot] = "none"
  BY <1>1 DEF Restore, OneHandler, Holds
<1>2. CASE handlers[slot] # "none"
  <2>1. onEscape' = handlers[slot] /\ handlers' = [handlers EXCEPT ![slot] = "none"] /\ crossed' = crossed
    BY <1>2 DEF Restore
  <2>2. handlers[slot] = "main" /\ \A other \in Slots \ {slot} : ~Holds(other)
    BY <1>2 DEF OneHandler, Holds
  <2>3. handlers'[slot] = "none" /\ \A other \in Slots \ {slot} : handlers'[other] = handlers[other]
    BY <1>3, <2>1
  <2>4. ~Holds(slot)' /\ \A other \in Slots \ {slot} : Holds(other)' <=> Holds(other)
    BY <2>3 DEF Holds
  <2>5. OneHandler'
    BY <2>1, <2>2, <2>4 DEF OneHandler
  <2> QED
    BY <2>1, <2>4, <2>5
<1> QED
  BY <1>1, <1>2

\* Events of a run that goes on or begins are added.
LEMMA HeardGrows ==
  ASSUME NEW new \in Seq(Events), events \in Seq(Events), events' = events \o new,
         \A i \in 1..Len(new) : new[i].type # "agent_end", UNCHANGED <<loading, handlers>>,
         Heard \/ (new # <<>> /\ new[1].type = "agent_start")
  PROVE  Heard'
<1> DEFINE n == Len(events)
           m == Len(new)
<1>1. /\ n \in Nat /\ m \in Nat /\ Len(events') = n + m
      /\ \A i \in 1..n : events'[i] = events[i]
      /\ \A i \in n + 1..n + m : events'[i] = new[i - n] /\ i - n \in 1..m
      /\ \A i \in 1..n + m : i \in 1..n \/ i \in n + 1..n + m
  OBVIOUS
<1> HIDE DEF n, m
<1>2. \A i \in n + 1..n + m : events'[i].type # "agent_end"
  BY <1>1 DEF m
<1>3. CASE new # <<>> /\ new[1].type = "agent_start"
  <2>1. n + 1 \in n + 1..n + m /\ n + 1 - n = 1 /\ n + 1 \in 1..n + m
    <3>1. m # 0
      BY <1>3 DEF m
    <3> QED
      BY <1>1, <3>1
  <2>3. events'[n + 1] = new[1]
    BY <1>1, <2>1
  <2>2. events'[n + 1].type = "agent_start"
    BY <1>3, <2>3
  <2> QED
    BY <1>1, <1>2, <2>1, <2>2 DEF Heard
<1>4. ASSUME NEW i \in 1..n, events[i].type = "agent_start", \A j \in i..n : events[j].type # "agent_end"
      PROVE  Heard'
  <2>1. i \in 1..n + m /\ events'[i].type = "agent_start"
    BY <1>1, <1>4
  <2>2. \A j \in i..n + m : events'[j].type # "agent_end"
    <3> SUFFICES ASSUME NEW j \in i..n + m PROVE events'[j].type # "agent_end"
      OBVIOUS
    <3>1. j \in n + 1..n + m \/ (j \in i..n /\ j \in 1..n)
      BY <1>1
    <3> QED
      BY <1>1, <1>2, <1>4, <3>1
  <2> QED
    BY <1>1, <2>1, <2>2 DEF Heard
<1>5. ASSUME \A i \in 1..n : events[i].type # "agent_end", loading, ~Holds("retry") PROVE Heard'
  <2>1. \A i \in 1..n + m : events'[i].type # "agent_end"
    BY <1>1, <1>2, <1>5
  <2>2. loading' /\ ~Holds("retry")'
    BY <1>5 DEF Holds
  <2> QED
    BY <1>1, <2>1, <2>2 DEF Heard
<1> QED
  BY <1>3, <1>4, <1>5 DEF Heard, n

\* The listener hears the next event.
LEMMA HeardNext ==
  ASSUME events \in Seq(Events), events # <<>>, events' = Tail(events), Heard,
         Head(events).type = "agent_start" => loading' /\ ~Holds("retry")',
         Head(events).type \notin {"agent_start", "agent_end"} =>
           loading' = loading /\ (Holds("retry")' => Holds("retry"))
  PROVE  Heard'
<1> DEFINE n == Len(events)
<1>1. /\ n \in Nat \ {0} /\ Len(events') = n - 1 /\ Head(events) = events[1]
      /\ \A i \in 1..n - 1 : events'[i] = events[i + 1] /\ i + 1 \in 2..n
      /\ \A i \in 1..n : i = 1 \/ (i - 1 \in 1..n - 1 /\ events'[i - 1] = events[i])
  OBVIOUS
<1> HIDE DEF n
<1>2. ASSUME NEW i \in 1..n, events[i].type = "agent_start", \A j \in i..n : events[j].type # "agent_end"
      PROVE  Heard'
  <2>1. CASE i = 1
    <3>1. \A j \in 1..n - 1 : events'[j].type # "agent_end"
      BY <1>1, <1>2, <2>1
    <3>2. loading' /\ ~Holds("retry")'
      BY <1>1, <1>2, <2>1
    <3> QED
      BY <1>1, <3>1, <3>2 DEF Heard
  <2>2. CASE i # 1
    <3>1. i - 1 \in 1..n - 1 /\ events'[i - 1].type = "agent_start"
      BY <1>1, <1>2, <2>2
    <3>2. \A j \in i - 1..n - 1 : j \in 1..n - 1 /\ j + 1 \in i..n
      BY <1>1, <2>2
    <3>3. \A j \in i - 1..n - 1 : events'[j].type # "agent_end"
      BY <1>1, <1>2, <3>2
    <3> QED
      BY <1>1, <3>1, <3>3 DEF Heard
  <2> QED
    BY <2>1, <2>2
<1>3. ASSUME \A i \in 1..n : events[i].type # "agent_end", loading, ~Holds("retry") PROVE Heard'
  <2>1. \A j \in 1..n - 1 : events'[j].type # "agent_end"
    BY <1>1, <1>3
  <2>2. Head(events).type # "agent_end"
    <3>1. 1 \in 1..n /\ Head(events) = events[1]
      BY <1>1
    <3> QED
      BY <1>3, <3>1
  <2>3. loading' /\ ~Holds("retry")'
    <3>1. CASE Head(events).type = "agent_start"
      BY <3>1
    <3>2. CASE Head(events).type # "agent_start"
      <4>1. loading' = loading /\ (Holds("retry")' => Holds("retry"))
        BY <2>2, <3>2
      <4> QED
        BY <1>3, <4>1
    <3> QED
      BY <3>1, <3>2
  <2> QED
    BY <1>1, <2>1, <2>3 DEF Heard
<1> QED
  BY <1>2, <1>3 DEF Heard, n

\* What Heard speaks of stays.
LEMMA HeardStays ==
  ASSUME Heard, UNCHANGED <<events, loading>>, Holds("retry")' => Holds("retry")
  PROVE  Heard'
BY DEF Heard

EscapeSame == UNCHANGED <<onEscape, handlers, loading, crossed>>
LEMMA ActingStill ==
  ASSUME Acting, EscapeSame, UNCHANGED <<handler, controller, admin, streaming, connected, events>>
  PROVE  Acting'
BY DEF Acting, EscapeSame, OneHandler, Holds, Heard

\* A run begins, and the terminal hears of it.
LEMMA BeginHeard ==
  ASSUME TypeOK, connected, UNCHANGED <<loading, handlers>>,
         Continue \/ \E c \in Callers, user \in Items : PromptStartWith(c, user)
  PROVE  Heard'
<1>1. PICK more \in Seq(Events) :
        /\ events' = events \o (<<Event("agent_start", NoItem)>> \o more)
        /\ \A i \in 1..Len(more) : more[i].type # "agent_end"
  <2> DEFINE start == Event("agent_start", NoItem)
  <2>a. start \in Events
    BY EventIs, NoItemIs DEF Events, EventTypes
  <2>1. ASSUME NEW item \in Items, events' = events \o <<start, Event("message", item)>>
        PROVE  \E more \in Seq(Events) :
                 /\ events' = events \o (<<start>> \o more)
                 /\ \A i \in 1..Len(more) : more[i].type # "agent_end"
    <3> DEFINE e == Event("message", item)
    <3>1. e \in Events /\ e.type = "message"
      BY EventIs DEF Event, Events, EventTypes
    <3> HIDE DEF start
    <3>3. events' = events \o <<start, e>>
      BY <2>1
    <3> HIDE DEF e
    <3> DEFINE one == <<e>>
    <3>2. <<start, e>> = <<start>> \o one /\ one \in Seq(Events)
      BY <2>a, <3>1
    <3>4. \A i \in 1..Len(one) : one[i].type # "agent_end"
      BY <3>1
    <3> HIDE DEF one
    <3>5. events' = events \o (<<start>> \o one)
      BY <3>2, <3>3, Zenon
    <3> QED
      BY <3>2, <3>4, <3>5, Zenon
  <2>2. ASSUME events' = events \o <<start>>
        PROVE  \E more \in Seq(Events) :
                 /\ events' = events \o (<<start>> \o more)
                 /\ \A i \in 1..Len(more) : more[i].type # "agent_end"
    <3> HIDE DEF start
    <3> DEFINE none == <<>>
    <3>1. <<start>> = <<start>> \o none /\ none \in Seq(Events) /\ \A i \in 1..Len(none) : none[i].type # "agent_end"
      BY <2>a
    <3> HIDE DEF none
    <3>2. events' = events \o (<<start>> \o none)
      BY <2>2, <3>1, Zenon
    <3> QED
      BY <3>1, <3>2, Zenon
  <2>3. CASE Continue
    <3>1. queued # <<>> => Head(queued) \in Items
      BY DEF TypeOK
    <3>2. \/ queued # <<>> /\ events' = Emitted(<<start, Event("message", Head(queued))>>)
          \/ events' = Emitted(<<start>>)
      BY <2>3 DEF Continue, MayContinue
    <3> QED
      BY <2>1, <2>2, <3>1, <3>2 DEF Emitted
  <2>4. ASSUME NEW c \in Callers, NEW user \in Items, PromptStartWith(c, user)
        PROVE  \E more \in Seq(Events) :
                 /\ events' = events \o (<<start>> \o more)
                 /\ \A i \in 1..Len(more) : more[i].type # "agent_end"
    <3>1. events' = Emitted(<<start, Event("message", user)>>)
      BY <2>4 DEF PromptStartWith
    <3> QED
      BY <2>1, <3>1 DEF Emitted
  <2> QED
    BY <2>3, <2>4
<1> DEFINE start == Event("agent_start", NoItem)
           new == <<start>> \o more
<1>2. start \in Events /\ start.type = "agent_start" /\ events \in Seq(Events)
  BY EventIs, NoItemIs DEF Event, Events, EventTypes, TypeOK
<1>4. events' = events \o new
  BY <1>1
<1> HIDE DEF start
<1>3. /\ new \in Seq(Events) /\ new # <<>> /\ new[1] = start
      /\ \A i \in 1..Len(new) : new[i] = start \/ \E j \in 1..Len(more) : new[i] = more[j]
  <2>1. /\ new \in Seq(Events) /\ Len(new) = 1 + Len(more) /\ Len(more) \in Nat /\ new[1] = start
        /\ \A i \in 2..Len(new) : new[i] = more[i - 1] /\ i - 1 \in 1..Len(more)
    BY <1>1, <1>2
  <2>2. \A i \in 1..Len(new) : i = 1 \/ i \in 2..Len(new)
    BY <2>1
  <2> QED
    BY <2>1, <2>2
<1> HIDE DEF new
<1>5. \A i \in 1..Len(new) : new[i].type # "agent_end"
  BY <1>1, <1>2, <1>3
<1> QED
  BY <1>2, <1>3, <1>4, <1>5, HeardGrows

\* A run goes on, and the terminal hears of its messages.
LEMMA RunHeard ==
  ASSUME TypeOK, Heard, UNCHANGED <<loading, handlers>>, connected, RunGoesOn
  PROVE  Heard'
<1>1. PICK items : Emits(items)
  BY RunSays
<1>2. PICK new : NewEvents(new, items) /\ events' = events \o new
  BY <1>1 DEF Emits
<1>3. new \in Seq(Events) /\ \A i \in 1..Len(new) : new[i].type # "agent_end"
  BY <1>2 DEF NewEvents
<1>4. events \in Seq(Events)
  BY DEF TypeOK, Events, EventTypes
<1> QED
  BY <1>2, <1>3, <1>4, HeardGrows

\* _checkCompaction with the terminal's part of it.
LEMMA CheckActing ==
  ASSUME EscapesTyped, Acting, ~crossed', NEW m, NEW skip, NEW w \in Workers \ {"manual"},
         OnChecked(m, skip),
         LET reason == CompactionReason(m, skip)
         IN  IF reason = "none" THEN UNCHANGED <<controller, handler>>
             ELSE controller' = w /\ handler' \in {handler, "compacting"},
         UNCHANGED <<admin, streaming, connected>>,
         streaming /\ connected =>
           (Heard /\ (Holds("retry")' => Holds("retry")) => Heard')
  PROVE  Acting'
<1> USE WorkersAre
<1>a. "compaction" \in Slots /\ HandlerOf("compaction") = "compaction" /\ "retry" \in Slots /\ "original" \in Slots
  BY DEF Slots, HandlerOf
<1>1. CASE CompactionReason(m, skip) # "none"
  <2>1. Install("compaction", HandlerOf("compaction")) /\ controller' # "nobody"
    BY <1>1, <1>a DEF OnChecked
  <2>2. OneHandler' /\ Holds("compaction")' /\ \A other \in Slots : ~Holds(other) /\ (Holds(other)' <=> other = "compaction")
    BY <1>a, <2>1, InstallOne DEF Acting
  <2>3. handler # "sleeping" /\ handler' # "sleeping"
    BY <1>1, <1>a, <2>2 DEF Acting
  <2>4. ~(Holds("retry")') /\ ~(Holds("original")') /\ ~Holds("original")
    BY <1>a, <2>2
  <2> QED
    BY <2>1, <2>2, <2>3, <2>4 DEF Acting
<1>2. CASE CompactionReason(m, skip) = "none"
  <2>1. UNCHANGED <<onEscape, handlers, controller, handler>>
    BY <1>2 DEF OnChecked
  <2>2. OneHandler' /\ \A slot : Holds(slot)' <=> Holds(slot)
    BY <2>1 DEF Acting, OneHandler, Holds
  <2> QED
    BY <2>1, <2>2 DEF Acting
<1> QED
  BY <1>1, <1>2

\* An abort ends a backoff.
LEMMA CancelActing ==
  ASSUME EscapesTyped, Acting, RetryCancelled, AbortRetryEffects,
         UNCHANGED <<controller, streaming, events>>,
         \/ UNCHANGED <<loading, admin, connected>>
         \/ admin = "none" /\ admin' \in {"new", "switch"} /\ ~connected'
  PROVE  Acting'
<1>a. "retry" \in Slots /\ "compaction" \in Slots /\ "original" \in Slots
  BY DEF Slots
<1>1. /\ OneHandler' /\ handler' # "sleeping" /\ (Holds("retry")' => Holds("retry"))
      /\ Holds("compaction")' <=> Holds("compaction")
      /\ Holds("original")' <=> Holds("original")
  <2>1. CASE handler = "sleeping"
    <3>1. Restore("retry") /\ handler' = "free"
      BY <2>1 DEF RetryCancelled, AbortRetryEffects
    <3> QED
      BY <1>a, <3>1, RestoreOne DEF Acting
  <2>2. CASE handler # "sleeping"
    <3>1. UNCHANGED <<onEscape, handlers, handler>>
      BY <2>2 DEF RetryCancelled, AbortRetryEffects
    <3> QED
      BY <2>2, <3>1 DEF Acting, OneHandler, Holds
  <2> QED
    BY <2>1, <2>2
<1>2. streaming' /\ connected' => Heard'
  BY <1>1, HeardStays DEF Acting
<1> QED
  BY <1>1, <1>2 DEF Acting

LEMMA KeyboardActing ==
  ASSUME TypeOK, EscapesTyped, Acting, Keyboard, ~crossed'
  PROVE  Acting'
<1> USE DEF agentVars, retryVars, compactVars, viewVars, fileVars, handlerVars, escapeVars, textVars
<1>1. CASE SubmitWaits \/ SubmitSteers \/ SubmitPrompts \/ SubmitIgnored \/ Dequeue \/ EscapeMain
        \/ EscapeCompaction
  <2>1. EscapeSame /\ UNCHANGED <<handler, controller, admin, streaming, connected, events>>
    BY <1>1 DEF SubmitWaits, SubmitSteers, SubmitPrompts, SubmitIgnored, Enter, QueueMessage, PromptBeginWith,
       Dequeue, EscapeMain, EmptyQueues, EscapeCompaction, AbortCompactions, EscapeSame
  <2> QED
    BY <2>1, ActingStill
<1>2. CASE EscapeRetry
  BY <1>2, CancelActing DEF EscapeRetry
<1>3. CASE NewCommand \/ ResumeCommand
  <2>1. /\ RetryCancelled /\ AbortRetryEffects /\ UNCHANGED <<controller, streaming, events>>
        /\ admin = "none" /\ admin' \in {"new", "switch"} /\ ~connected'
    BY <1>3 DEF NewCommand, ResumeCommand, AdminBegin, AbortEffects
  <2> QED
    BY <2>1, CancelActing
<1>4. CASE CompactCommand
  <2>1. onEscape = "main" /\ admin = "none" /\ admin' = "compact" /\ ~connected'
        /\ UNCHANGED controller /\ AbortRetryEffects
    BY <1>4 DEF CompactCommand, AdminBegin, AbortEffects
  <2>2. \A slot \in Slots : ~Holds(slot)
    BY <2>1 DEF Acting, OneHandler, HandlerOf
  <2>3. "retry" \in Slots /\ "compaction" \in Slots /\ "original" \in Slots
        /\ Slots = {"retry", "compaction", "original"}
    BY DEF Slots
  <2>4. handlers["retry"] = "none" /\ handlers["compaction"] = "none" /\ handlers["original"] = "none"
    BY <2>2, <2>3 DEF Holds
  <2>5. onEscape' = "compaction"
        /\ handlers' = [handlers EXCEPT !["original"] = onEscape, !["retry"] = handlers["retry"]]
    BY <1>4, <2>4 DEF CompactCommand
  <2>6. handlers'["original"] = "main" /\ handlers'["retry"] = "none" /\ handlers'["compaction"] = "none"
    BY <2>1, <2>3, <2>4, <2>5 DEF EscapesTyped
  <2>7. OneHandler' /\ Holds("original")' /\ ~(Holds("retry")') /\ ~(Holds("compaction")')
    BY <2>3, <2>5, <2>6 DEF OneHandler, Holds, HandlerOf
  <2>8. handler' # "sleeping" /\ ~Holds("compaction")
    BY <2>1, <2>2, <2>3 DEF AbortRetryEffects
  <2> QED
    BY <2>1, <2>7, <2>8 DEF Acting
<1> QED
  BY <1>1, <1>2, <1>3, <1>4 DEF Keyboard, Key, Turn

LEMMA HandlerActing ==
  ASSUME TypeOK, EscapesTyped, Acting, TerminalHandlerStep, ~crossed'
  PROVE  Acting'
<1> USE DEF agentVars, retryVars, compactVars, viewVars, fileVars, handlerVars, escapeVars, textVars
<1>a. "retry" \in Slots /\ "compaction" \in Slots /\ "original" \in Slots /\ HandlerOf("retry") = "retry"
  BY DEF Slots, HandlerOf
<1>b. events \in Seq(Events)
  BY DEF TypeOK, Events, EventTypes
<1>1. CASE OnStart
  <2>1. /\ HandleNext /\ Head(events).type = "agent_start" /\ Restore("retry") /\ loading' = TRUE
        /\ UNCHANGED <<handler, controller, admin, streaming, connected>>
    BY <1>1 DEF OnStart, HandleStart
  <2>2. /\ OneHandler' /\ ~(Holds("retry")')
        /\ Holds("compaction")' <=> Holds("compaction")
        /\ Holds("original")' <=> Holds("original")
    BY <1>a, <2>1, RestoreOne DEF Acting
  <2>3. streaming' /\ connected' => Heard'
    BY <1>b, <2>1, <2>2, HeardNext DEF HandleNext, Acting
  <2> QED
    BY <2>1, <2>2, <2>3 DEF Acting, HandleNext
<1>2. CASE OnMessage
  <2>1. /\ HandleNext /\ Head(events).type = "message" /\ EscapeSame
        /\ UNCHANGED <<handler, controller, admin, streaming, connected>>
    BY <1>2 DEF OnMessage, HandleUser, HandleResult, EscapeSame
  <2>2. OneHandler' /\ \A slot : Holds(slot)' <=> Holds(slot)
    BY <2>1 DEF Acting, OneHandler, Holds, EscapeSame
  <2>3. streaming' /\ connected' => Heard'
    BY <1>b, <2>1, <2>2, HeardNext DEF HandleNext, Acting, EscapeSame
  <2> QED
    BY <2>1, <2>2, <2>3 DEF Acting
<1>3. CASE OnReply
  <2>1. /\ HandleNext /\ Head(events).type = "message" /\ UNCHANGED loading
        /\ UNCHANGED <<handler, controller, admin, streaming, connected>>
        /\ Restore("retry") \/ UNCHANGED <<onEscape, handlers>>
    BY <1>3 DEF OnReply, HandleAssistant
  <2>2. /\ OneHandler' /\ (Holds("retry")' => Holds("retry"))
        /\ Holds("compaction")' <=> Holds("compaction")
        /\ Holds("original")' <=> Holds("original")
    <3>1. CASE Restore("retry")
      BY <1>a, <3>1, RestoreOne DEF Acting
    <3>2. CASE UNCHANGED <<onEscape, handlers>>
      BY <3>2 DEF Acting, OneHandler, Holds
    <3> QED
      BY <2>1, <3>1, <3>2
  <2>3. streaming' /\ connected' => Heard'
    BY <1>b, <2>1, <2>2, HeardNext DEF HandleNext, Acting
  <2> QED
    BY <2>1, <2>2, <2>3 DEF Acting, HandleNext
<1>4. CASE OnEndRetry
  <2>1. /\ HandleNext /\ Head(events).type = "agent_end"
        /\ UNCHANGED <<controller, admin, streaming, connected>>
        /\ \/ Install("retry", "retry") /\ handler' = "sleeping"
           \/ Restore("retry") /\ UNCHANGED handler
    BY <1>4 DEF OnEndRetry, HandleEndRetry
  <2>2. /\ OneHandler' /\ (handler' = "sleeping" => Holds("retry")')
        /\ Holds("compaction")' <=> Holds("compaction")
        /\ Holds("original")' <=> Holds("original")
    <3>1. CASE Install("retry", "retry")
      <4>1. OneHandler' /\ \A other \in Slots : ~Holds(other) /\ (Holds(other)' <=> other = "retry")
        BY <1>a, <3>1, InstallOne DEF Acting
      <4> QED
        BY <1>a, <4>1
    <3>2. CASE Restore("retry") /\ UNCHANGED handler
      BY <1>a, <2>1, <3>2, RestoreOne DEF Acting, HandleNext
    <3> QED
      BY <2>1, <3>1, <3>2
  <2>3. streaming' /\ connected' => Heard'
    BY <1>b, <2>1, HeardNext DEF HandleNext, Acting
  <2> QED
    BY <2>1, <2>2, <2>3 DEF Acting
<1>5. CASE OnEnd
  <2>1. /\ HandleNext /\ Head(events).type = "agent_end" /\ OnChecked(lastAssistant, TRUE)
        /\ UNCHANGED <<admin, streaming, connected>>
        /\ IF CompactionReason(lastAssistant, TRUE) = "none" THEN UNCHANGED <<controller, handler>>
           ELSE controller' = "handler" /\ handler' \in {handler, "compacting"}
    BY <1>5 DEF OnEnd, HandleEnd, BeginCompaction
  <2>2. Heard => Heard'
    BY <1>b, <2>1, HeardNext DEF HandleNext
  <2>3. "handler" \in Workers \ {"manual"}
    BY WorkersAre
  <2> QED
    BY <2>1, <2>2, <2>3, CheckActing
<1>6. CASE SleepEnds /\ UNCHANGED escapeVars
  <2>1. /\ handler' = "free" /\ EscapeSame /\ UNCHANGED <<controller, admin, streaming, connected, events>>
    BY <1>6 DEF SleepEnds, EscapeSame
  <2> QED
    BY <2>1 DEF Acting, OneHandler, Holds, Heard, EscapeSame
<1> QED
  BY <1>1, <1>2, <1>3, <1>4, <1>5, <1>6 DEF TerminalHandlerStep, Turn, Unnoticed

LEMMA ActingKept ==
  ASSUME TerminalInvariant, Acting, TerminalNext, ~crossed'
  PROVE  Acting'
<1> USE DEF agentVars, retryVars, compactVars, viewVars, fileVars, handlerVars, RunVars, ReplyVars,
            escapeVars, textVars
<1>a. TypeOK /\ Phases /\ EscapesTyped
  BY DEF TerminalInvariant, SessionInvariant, TerminalTypeOK, EscapesTyped
<1>b. "retry" \in Slots /\ "compaction" \in Slots /\ "original" \in Slots
  BY DEF Slots
<1>1. CASE FlushStep
  <2>1. EscapeSame /\ UNCHANGED <<handler, controller, admin, streaming, connected, events>>
    BY <1>1 DEF FlushStep, Flush, FlushSteered, FlushPrompted, FlushRejected, PromptBeginWith, EscapeSame
  <2> QED
    BY <2>1, ActingStill
\* A run is heard from its beginning.
<1>2. ASSUME UNCHANGED <<onEscape, handlers, loading>>, connected,
             Continue \/ \E c \in Callers, user \in Items : PromptStartWith(c, user)
      PROVE  Acting'
  <2>1. UNCHANGED <<handler, controller, admin>> /\ admin = "none"
    BY <1>a, <1>2 DEF Continue, PromptStartWith, Phases, Listens
  <2>2. Heard'
    BY <1>a, <1>2, BeginHeard
  <2> QED
    BY <1>2, <2>1, <2>2 DEF Acting, OneHandler, Holds
<1>3. CASE TerminalRunStep
  <2>1. CASE OnContinue
    BY <1>2, <2>1 DEF OnContinue
  <2>2. CASE AgentStep /\ EscapeSame
    <3>1. UNCHANGED <<handler, controller, admin, connected>>
      BY <2>2 DEF AgentStep, ReplyAndGoOn, ReplyAndDeliver, LastReply, EndRun
    <3>2. streaming' /\ connected' => Heard'
      <4>1. CASE EndRun
        BY <4>1 DEF EndRun
      <4>2. CASE RunGoesOn
        <5>1. streaming
          BY <4>2 DEF RunGoesOn, ReplyAndGoOn, ReplyAndDeliver, LastReply
        <5> QED
          BY <1>a, <2>2, <3>1, <4>2, <5>1, RunHeard DEF Acting, EscapeSame
      <4> QED
        BY <2>2, <4>1, <4>2 DEF AgentStep, RunGoesOn
    <3>3. streaming' => streaming
      BY <2>2 DEF AgentStep, ReplyAndGoOn, ReplyAndDeliver, LastReply, EndRun
    <3> QED
      BY <2>2, <3>1, <3>2, <3>3 DEF Acting, EscapeSame, OneHandler, Holds
  <2>3. CASE ContinueSwallowed /\ EscapeSame
    <3>1. UNCHANGED <<handler, controller, admin, streaming, connected, events>>
      BY <2>3 DEF ContinueSwallowed
    <3> QED
      BY <2>3, <3>1, ActingStill
  <2> QED
    BY <1>3, <2>1, <2>2, <2>3 DEF TerminalRunStep, Turn, Unnoticed, EscapeSame
<1>4. CASE TerminalAdminStep
  <2>1. CASE NewSession \/ SwitchSession
    <3>1. /\ admin \in {"new", "switch"} /\ ~streaming /\ admin' = "none"
          /\ UNCHANGED <<streaming, handler, controller>>
      BY <2>1 DEF NewSession, SwitchSession
    <3>2. EscapeSame
      BY <1>4, <2>1 DEF TerminalAdminStep, Turn, Unnoticed, FinishNew, ManualCompact, EscapeSame
    <3> QED
      BY <3>1, <3>2 DEF Acting, EscapeSame, OneHandler, Holds
  <2>2. CASE ManualCompact /\ EscapeSame
    <3>1. /\ admin = "compact" /\ ~streaming /\ admin' = "compacting"
          /\ UNCHANGED <<streaming, handler, controller>>
      BY <2>2 DEF ManualCompact
    <3> QED
      BY <2>2, <3>1 DEF Acting, EscapeSame, OneHandler, Holds
  <2> QED
    BY <1>4, <2>1, <2>2 DEF TerminalAdminStep, Turn, Unnoticed, FinishNew, EscapeSame
<1>5. ASSUME NEW w \in Workers, TerminalCompactionStep(w) PROVE Acting'
  <2>1. CASE PrepareCompaction(w) /\ EscapeSame
    <3>1. UNCHANGED <<handler, controller, admin, streaming, connected, events>>
      BY <2>1 DEF PrepareCompaction
    <3> QED
      BY <2>1, <3>1, ActingStill
  <2>2. CASE OnStopCompaction(w) \/ OnFinishCompaction(w)
    <3>1. /\ compaction[w].phase # "none" /\ Release(w) /\ Restore(Slot(w))
          /\ UNCHANGED <<streaming, events, loading>>
      BY <2>2 DEF OnStopCompaction, OnFinishCompaction, StopCompaction, FinishCompactionWith
    <3>2. InProgress(w)
      BY <1>a, <3>1 DEF Phases, Underway
    <3>3. CASE w = "manual"
      <4>1. Restore("original") /\ UNCHANGED <<controller, handler>> /\ admin' = "none"
        BY <3>1, <3>3, WorkersAre DEF Slot, Release
      <4>2. ~streaming'
        BY <3>1, <3>2, <3>3, WorkersAre DEF InProgress, Acting
      <4>3. /\ OneHandler' /\ ~(Holds("original")')
            /\ Holds("compaction")' <=> Holds("compaction")
            /\ Holds("retry")' <=> Holds("retry")
        BY <1>a, <1>b, <4>1, RestoreOne DEF Acting
      <4> QED
        BY <4>1, <4>2, <4>3 DEF Acting
    <3>4. CASE w # "manual"
      <4>1. Restore("compaction") /\ controller' = "nobody" /\ UNCHANGED <<admin, connected>>
            /\ handler' \in {"free", handler}
        BY <3>1, <3>4 DEF Slot, Release
      <4>2. /\ OneHandler' /\ ~(Holds("compaction")')
            /\ Holds("original")' <=> Holds("original")
            /\ Holds("retry")' <=> Holds("retry")
        BY <1>a, <1>b, <4>1, RestoreOne DEF Acting
      <4>3. streaming' /\ connected' => Heard'
        BY <3>1, <4>1, <4>2, HeardStays DEF Acting
      <4> QED
        BY <3>1, <4>1, <4>2, <4>3 DEF Acting
    <3> QED
      BY <3>3, <3>4
  <2> QED
    BY <1>5, <2>1, <2>2 DEF TerminalCompactionStep, Turn, Unnoticed, EscapeSame
<1>6. ASSUME NEW c \in Callers, TerminalCallerStep(c) PROVE Acting'
  <2>1. CASE OnPromptCheck(c)
    <3> DEFINE m == LastAssistantIn(messages)
    <3>1. /\ OnChecked(m, FALSE) /\ UNCHANGED <<loading, admin, streaming, connected, events>>
          /\ IF CompactionReason(m, FALSE) = "none" THEN UNCHANGED <<controller, handler>>
             ELSE controller' = c /\ handler' \in {handler, "compacting"}
      BY <2>1 DEF OnPromptCheck, PromptCheck, BeginCompaction
    <3> HIDE DEF m
    <3>2. Heard /\ (Holds("retry")' => Holds("retry")) => Heard'
      BY <3>1, HeardStays
    <3>3. c \in Workers \ {"manual"}
      BY WorkersAre
    <3> QED
      BY <1>a, <3>1, <3>2, <3>3, CheckActing
  <2>2. CASE StartPrompt(c)
    <3>1. UNCHANGED <<onEscape, handlers, loading>> /\ connected
      BY <2>2 DEF StartPrompt
    <3>2. PICK user \in Items : PromptStartWith(c, user)
      <4>1. carried[c] \in Items /\ Text \in Items /\ current \in Nat
        BY <1>a, TextIs, EntriesType DEF TerminalInvariant, TerminalTypeOK
      <4> QED
        BY <2>2, <4>1 DEF StartPrompt, PromptStart, Text
    <3> QED
      BY <1>2, <3>1, <3>2
  <2>3. CASE FailPrompt(c) \/ RestoreQueue(c)
    <3>1. EscapeSame /\ UNCHANGED <<handler, controller, admin, streaming, connected, events>>
      BY <2>3 DEF FailPrompt, RestoreQueue, PromptRejected, PromptThrows, EscapeSame
    <3> QED
      BY <3>1, ActingStill
  <2> QED
    BY <1>6, <2>1, <2>2, <2>3 DEF TerminalCallerStep, Turn
<1>7. CASE ClientStep
  <2>1. CASE ClientAborts
    <3>1. /\ RetryCancelled /\ AbortRetryEffects
          /\ UNCHANGED <<loading, controller, admin, streaming, connected, events>>
      BY <2>1 DEF ClientAborts, Abort, AbortRetry, AbortEffects
    <3> QED
      BY <1>a, <3>1, CancelActing
  <2>2. CASE /\ EscapeSame
             /\ \/ PromptQueued \/ AbortCompaction \/ ClearQueue \/ RecordBash
                \/ \E c \in Clients : PromptBegin(c)
    <3>1. UNCHANGED <<handler, controller, admin, streaming, connected, events>>
      BY <2>2 DEF PromptQueued, QueueMessage, AbortCompaction, AbortCompactions, ClearQueue, RecordBash,
         PromptBegin, PromptBeginWith
    <3> QED
      BY <2>2, <3>1, ActingStill
  <2> QED
    BY <1>7, <2>1, <2>2 DEF ClientStep, Turn, Unnoticed, ClientClears, EscapeSame
<1> QED
  BY <1>a, <1>1, <1>3, <1>4, <1>5, <1>6, <1>7, KeyboardActing, HandlerActing DEF TerminalNext

\* A crossing is not forgotten.
LEMMA StaysCrossed ==
  ASSUME TerminalNext, ~crossed'
  PROVE  ~crossed
<1> USE DEF escapeVars
<1>1. \A slot, handle : (Install(slot, handle) => ~crossed) /\ (Restore(slot) => ~crossed)
  BY DEF Install, Restore
<1>2. RetryCancelled => ~crossed
  BY <1>1 DEF RetryCancelled
<1>3. \A m, skip : OnChecked(m, skip) => ~crossed
  BY <1>1 DEF OnChecked
<1>4. FlushStep \/ TerminalRunStep \/ TerminalAdminStep \/ ClientStep => ~crossed
  BY <1>2 DEF FlushStep, Flush, FlushSteered, FlushPrompted, FlushRejected, TerminalRunStep, TerminalAdminStep,
     ClientStep, Turn, Unnoticed, OnContinue, FinishNew, ClientAborts, ClientClears
<1>5. TerminalHandlerStep => ~crossed
  BY <1>1, <1>3 DEF TerminalHandlerStep, Turn, Unnoticed, OnStart, OnMessage, OnReply, OnEndRetry, OnEnd
<1>6. \A w \in Workers : TerminalCompactionStep(w) => ~crossed
  BY <1>1 DEF TerminalCompactionStep, Turn, Unnoticed, OnStopCompaction, OnFinishCompaction
<1>7. \A c \in Callers : TerminalCallerStep(c) => ~crossed
  BY <1>3 DEF TerminalCallerStep, Turn, OnPromptCheck, StartPrompt, FailPrompt, RestoreQueue
<1>8. Keyboard => ~crossed
  BY <1>2 DEF Keyboard, Key, Turn, SubmitWaits, SubmitSteers, SubmitPrompts, SubmitIgnored, Enter, Dequeue,
     EscapeMain, EmptyQueues, EscapeRetry, EscapeCompaction, CompactCommand, NewCommand, ResumeCommand
<1> QED
  BY <1>4, <1>5, <1>6, <1>7, <1>8 DEF TerminalNext

LEMMA ActingMeans ==
  ASSUME TypeOK, Phases, Acting
  PROVE  EscapeActs
<1>a. "retry" \in Slots /\ "compaction" \in Slots /\ "original" \in Slots
  BY DEF Slots
<1>1. handler = "sleeping" => onEscape = "retry"
  BY <1>a DEF Acting, OneHandler, HandlerOf
<1>2. IsCompacting <=> controller # "nobody" \/ admin = "compacting"
  BY WorkersAre DEF IsCompacting, Phases, Underway, InProgress
<1>3. IsCompacting => onEscape = "compaction"
  BY <1>a, <1>2 DEF Acting, OneHandler, HandlerOf
<1>4. ASSUME streaming /\ connected /\ events = <<>> /\ handler = "free" /\ ~IsCompacting
      PROVE  onEscape = "main" /\ loading
  <2>1. loading /\ ~Holds("retry")
    BY <1>4 DEF Acting, Heard
  <2>2. ~Holds("compaction") /\ ~Holds("original")
    BY <1>2, <1>4 DEF Acting, Phases, Listens
  <2>3. \A slot \in Slots : ~Holds(slot)
    BY <2>1, <2>2 DEF Slots
  <2> QED
    BY <2>1, <2>3 DEF Acting, OneHandler, Holds
<1> QED
  BY <1>1, <1>3, <1>4 DEF EscapeActs

\* Escape cancels the backoff or the compaction that goes on and interrupts the
\* run that the terminal has heard of, as long as no handler was saved on top of
\* another (onEscape, retryEscapeHandler, autoCompactionEscapeHandler).
THEOREM EscapeSafe == TerminalSpec => []EscapeActs
<1> DEFINE Inv == TerminalInvariant /\ (~crossed => Acting)
<1>1. TerminalInit => Inv
  <2> SUFFICES ASSUME TerminalInit PROVE TerminalInvariant /\ Acting
    OBVIOUS
  <2>1. Init
    BY DEF TerminalInit
  <2> QED
    BY <2>1, TerminalStarts DEF TerminalInit, Init, Acting, OneHandler, Holds, Slots
<1>2. Inv /\ [TerminalNext]_terminalVars => Inv'
  <2>1. ASSUME Inv, TerminalNext PROVE Inv'
    BY <2>1, TerminalKept, StaysCrossed, ActingKept
  <2>2. ASSUME Inv, UNCHANGED terminalVars PROVE Inv'
    <3>1. TerminalInvariant'
      BY <2>2, TerminalStutter
    <3>2. UNCHANGED crossed /\ EscapeSame
          /\ UNCHANGED <<handler, controller, admin, streaming, connected, events>>
      BY <2>2 DEF terminalVars, uiVars, escapeVars, EscapeSame, vars, agentVars, handlerVars, compactVars
    <3> QED
      BY <2>2, <3>1, <3>2, ActingStill
  <2> QED
    BY <2>1, <2>2
<1>3. Inv => EscapeActs
  <2>1. ASSUME Inv, ~crossed PROVE EscapeActs
    BY <2>1, ActingMeans DEF TerminalInvariant, SessionInvariant
  <2>2. crossed => EscapeActs
    BY DEF EscapeActs
  <2>3. Inv => crossed \/ ~crossed
    OBVIOUS
  <2> QED
    BY <2>1, <2>2
<1> QED
  BY <1>1, <1>2, <1>3, PTL DEF TerminalSpec
=============================================================================
