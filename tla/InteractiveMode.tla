--------------------------- MODULE InteractiveMode ---------------------------
(***************************************************************************)
(* The terminal around a session (packages/coding-agent/src/modes/         *)
(* interactive/interactive-mode.ts): what becomes of a text the user       *)
(* enters, the texts that wait for a compaction, and the Escape key.       *)
(*                                                                         *)
(* The session calls its listener in the middle of its own work, so a step *)
(* of the session and what the terminal does on its event are one action.  *)
(* The terminal saves the Escape handler it finds and puts its own in its  *)
(* place for a retry and for each kind of compaction.                      *)
(* A text is the item that its message will be, and n names it. Commands   *)
(* of extensions, bash commands, selectors and the drawing are left out.   *)
(***************************************************************************)
EXTENDS AgentSession

CONSTANTS
  Loop,      \* the call of prompt() of the main loop
  Flushers,  \* the calls that the flush of the compaction queue does not await
  Clients    \* the calls of extensions and of other users of the session

ASSUME IMAssumption ==
  Loop \in Callers /\ Clients \subseteq Callers /\ Flushers \subseteq Callers \ {Loop}

VARIABLES
  compactionQueue,  \* compactionQueuedMessages
  flushing,         \* how a flush that the listener has begun sends them
  carried,          \* the text of each call of prompt()
  batch,            \* what the flush of a call puts back if the call fails
  onEscape,         \* defaultEditor.onEscape
  handlers,         \* retryEscapeHandler, autoCompactionEscapeHandler and the
                    \* originalOnEscape of executeCompaction
  loading,          \* loadingAnimation is set
  typed,            \* history: the texts entered
  delivered,        \* history: the texts that reached the agent's messages
  returned,         \* history: the texts put back into the editor
  dropped,          \* history: the texts that are nowhere any more
  restored,         \* history: the queue was put back after a failed flush
  again,            \* history: the texts put back that a queue no longer held
  crossed           \* history: a handler was saved on top of another, an end
                    \* came without its start, or a run began unheard

textVars   == <<compactionQueue, flushing, carried, batch>>
escapeVars == <<onEscape, handlers, loading, crossed>>
fateVars   == <<typed, returned, dropped, restored, again>>
uiVars     == <<textVars, escapeVars, fateVars, delivered>>
terminalVars == <<vars, uiVars>>

\* The texts in a queue.
Texts(queue) == {queue[i].n : i \in DOMAIN queue}

Slots == {"retry", "compaction", "original"}
Escapes == {"main", "retry", "compaction"}

-----------------------------------------------------------------------------
(* The Escape handlers *)

\* The handler in place is saved in the slot and replaced.
Install(slot, handle) ==
  /\ handlers' = [handlers EXCEPT ![slot] = onEscape]
  /\ onEscape' = handle
  /\ crossed' = (crossed \/ onEscape # "main")

Restore(slot) ==
  /\ IF handlers[slot] = "none"
     THEN UNCHANGED <<onEscape, handlers>>
     ELSE onEscape' = handlers[slot] /\ handlers' = [handlers EXCEPT ![slot] = "none"]
  /\ UNCHANGED crossed

\* An abort ends a backoff, which ends with auto_retry_end.
RetryCancelled ==
  IF handler = "sleeping" THEN Restore("retry") ELSE UNCHANGED <<onEscape, handlers, crossed>>

-----------------------------------------------------------------------------
(* The listener of session events *)

BeginFlush_RetryOnly(how) ==
  /\ flushing' = IF compactionQueue = <<>> \/ how = "prompt" THEN flushing ELSE how
  /\ UNCHANGED <<compactionQueue, carried, batch>>

\* flushCompactionQueue does nothing with an empty queue.
BeginFlush(how) ==
  /\ flushing' = IF compactionQueue = <<>> THEN flushing ELSE how
  /\ UNCHANGED <<compactionQueue, carried, batch>>

OnStart_KeepsHandler ==
  /\ HandleStart
  /\ loading' = TRUE
  /\ UNCHANGED <<onEscape, handlers, crossed, textVars, fateVars>>

\* agent_start: a retry that runs is no longer cancelled but interrupted.
OnStart ==
  /\ HandleStart
  /\ Restore("retry")
  /\ loading' = TRUE
  /\ UNCHANGED <<textVars, fateVars>>

OnMessage ==
  /\ HandleUser \/ HandleResult
  /\ UNCHANGED <<textVars, escapeVars, fateVars>>

OnReply ==
  /\ HandleAssistant
  /\ IF EndsRetries(Head(events).item)
     THEN Restore("retry") ELSE UNCHANGED <<onEscape, handlers, crossed>>
  /\ UNCHANGED <<loading, textVars, fateVars>>

\* agent_end, then auto_retry_start or auto_retry_end.
OnEndRetry ==
  /\ HandleEndRetry
  /\ IF MayRetry THEN Install("retry", "retry") ELSE Restore("retry")
  /\ loading' = FALSE
  /\ UNCHANGED <<textVars, fateVars>>

\* _checkCompaction emits auto_compaction_start, or only auto_compaction_end
\* when the recovery from an overflow was tried before.
GivesUp(m) ==
  m.kind \in {"overflow", "silent"} /\ ~FromBeforeCompaction(m) /\ overflowTried
OnChecked(m, skipAbortedCheck) ==
  IF CompactionReason(m, skipAbortedCheck) # "none"
  THEN Install("compaction", "compaction") /\ UNCHANGED textVars
  ELSE IF GivesUp(m)
  THEN /\ BeginFlush("prompt")
       /\ IF handlers["compaction"] = "none"
          THEN UNCHANGED <<onEscape, handlers, crossed>>
          ELSE /\ onEscape' = handlers["compaction"]
               /\ handlers' = [handlers EXCEPT !["compaction"] = "none"]
               /\ crossed' = TRUE
  ELSE UNCHANGED <<onEscape, handlers, crossed, textVars>>

OnEnd ==
  /\ HandleEnd
  /\ OnChecked(lastAssistant, TRUE)
  /\ loading' = FALSE
  /\ UNCHANGED fateVars

OnPromptCheck(c) ==
  /\ PromptCheck(c)
  /\ OnChecked(LastAssistantIn(messages), FALSE)
  /\ UNCHANGED <<loading, fateVars>>

\* auto_compaction_end, or the end of executeCompaction.
Slot(w) == IF w = "manual" THEN "original" ELSE "compaction"
OnStopCompaction(w) ==
  /\ StopCompaction(w)
  /\ Restore(Slot(w))
  /\ BeginFlush("prompt")
  /\ UNCHANGED <<loading, fateVars>>

\* What the flush queues behind its prompt is in the queue when the session
\* decides whether to continue.
OnFinishCompaction(w) ==
  /\ FinishCompactionWith(w, queued # <<>> \/ Len(compactionQueue) > 1)
  /\ Restore(Slot(w))
  /\ BeginFlush(IF compaction[w].reason = "overflow" THEN "steer" ELSE "prompt")
  /\ UNCHANGED <<loading, fateVars>>

-----------------------------------------------------------------------------
(* The flush of the compaction queue; no other step comes before it *)

\* A retry is about to run: all the texts are queued for it.
FlushSteered ==
  /\ flushing = "steer"
  /\ queued' = queued \o compactionQueue
  /\ shown' = shown \o compactionQueue
  /\ compactionQueue' = <<>> /\ flushing' = "none" /\ restored' = FALSE
  /\ UNCHANGED <<messages, streaming, ending, owner, aborting, connected, events,
                 handlerVars, retryVars, compactVars, timers, pendingBash, fileVars, pc,
                 admin, clock, left, carried, batch, escapeVars, typed, returned,
                 dropped, again, disturbed>>

Rest_Forgotten(texts) == <<>>

\* What is queued behind the first text.
Rest(texts) == Tail(texts)

\* The first text is a prompt that is not awaited, the others are queued.
FlushPrompted(c) ==
  /\ flushing = "prompt"
  /\ PromptBeginWith(c, Rest(compactionQueue))
  /\ carried' = [carried EXCEPT ![c] = Head(compactionQueue)]
  /\ batch' = [batch EXCEPT ![c] = compactionQueue]
  /\ compactionQueue' = <<>> /\ flushing' = "none" /\ restored' = FALSE
  /\ UNCHANGED <<clock, left, escapeVars, typed, returned, dropped, again>>

\* A run streams: the prompt fails at once. restoreQueue comes before the third
\* text is queued, and that text is then in both queues.
FlushRejected ==
  LET late == SubSeq(compactionQueue, 3, Len(compactionQueue))
  IN  /\ flushing = "prompt" /\ streaming
      /\ queued' = late /\ shown' = late
      /\ dropped' = dropped \cup Texts(queued)
      /\ again' = again \cup Texts(late)
      /\ restored' = TRUE /\ flushing' = "none"
      /\ UNCHANGED <<messages, streaming, ending, owner, aborting, connected, events,
                     handlerVars, retryVars, compactVars, timers, pendingBash, fileVars,
                     pc, admin, clock, left, compactionQueue, carried, batch, escapeVars,
                     typed, returned, disturbed>>

Flush == FlushSteered \/ FlushRejected \/ \E c \in Flushers : FlushPrompted(c)

-----------------------------------------------------------------------------
(* The calls of prompt() *)

StartPrompt(c) ==
  /\ IF carried[c] = NoItem
     THEN PromptStart(c) ELSE PromptStartWith(c, carried[c]) /\ UNCHANGED clock
  /\ carried' = [carried EXCEPT ![c] = NoItem]
  /\ batch' = [batch EXCEPT ![c] = <<>>]
  /\ crossed' = (crossed \/ ~connected)
  /\ UNCHANGED <<compactionQueue, flushing, onEscape, handlers, loading, fateVars>>

\* A run that continues by itself; the terminal hears of it when connected.
OnContinue ==
  /\ Continue
  /\ crossed' = (crossed \/ ~connected)
  /\ UNCHANGED <<textVars, onEscape, handlers, loading, fateVars>>

\* The error of a prompt of the loop, or of a client, is only shown.
FailPrompt(c) ==
  /\ batch[c] = <<>>
  /\ PromptRejected(c)
  /\ dropped' = dropped \cup ({carried[c].n} \ {NoItem.n})
  /\ carried' = [carried EXCEPT ![c] = NoItem]
  /\ UNCHANGED <<compactionQueue, flushing, batch, escapeVars, typed, returned, restored,
                 again>>

\* restoreQueue: the prompt of a flush failed. The session's queue is cleared
\* and all texts of the flush wait again, those delivered meanwhile too.
RestoreQueue(c) ==
  LET texts == batch[c]
  IN  /\ texts # <<>>
      /\ PromptThrows(c)
      /\ queued' = <<>> /\ shown' = <<>>
      /\ compactionQueue' = texts
      /\ dropped' = dropped \cup ((Texts(queued) \cup Texts(compactionQueue)) \ Texts(texts))
      /\ again' = again \cup (Texts(texts) \cap (delivered \cup dropped \cup returned))
      /\ restored' = TRUE
      /\ carried' = [carried EXCEPT ![c] = NoItem]
      /\ batch' = [batch EXCEPT ![c] = <<>>]
      /\ UNCHANGED <<flushing, escapeVars, typed, returned>>

-----------------------------------------------------------------------------
(* The user *)

IsCompacting == controller # "nobody" \/ compaction["manual"].phase # "none"

\* onSubmit: the editor has cleared itself, and the text waits for the
\* compaction, steers the run, or goes to the main loop. A loop that waits for
\* its last prompt has no callback, and the text stays in the history only.
Text == Item("user")
Enter ==
  /\ Spend("text")
  /\ typed' = typed \cup {Text.n}
  /\ UNCHANGED <<flushing, batch, escapeVars, returned, restored, again>>

SubmitWaits ==
  /\ IsCompacting
  /\ Enter
  /\ compactionQueue' = Append(compactionQueue, Text)
  /\ clock' = clock + 1
  /\ UNCHANGED <<agentVars, connected, events, handlerVars, retryVars, compactVars,
                 timers, viewVars, fileVars, pc, admin, carried, dropped, disturbed>>

SubmitSteers ==
  /\ ~IsCompacting
  /\ Enter
  /\ QueueMessage(Text)
  /\ UNCHANGED <<compactionQueue, carried, dropped>>

SubmitPrompts ==
  /\ ~IsCompacting
  /\ Enter
  /\ PromptBeginWith(Loop, <<>>)
  /\ carried' = [carried EXCEPT ![Loop] = Text]
  /\ clock' = clock + 1
  /\ UNCHANGED <<compactionQueue, dropped>>

SubmitIgnored ==
  /\ ~IsCompacting /\ ~streaming /\ pc[Loop] # "idle"
  /\ Enter
  /\ dropped' = dropped \cup {Text.n}
  /\ clock' = clock + 1
  /\ UNCHANGED <<agentVars, connected, events, handlerVars, retryVars, compactVars,
                 timers, viewVars, fileVars, pc, admin, compactionQueue, carried, disturbed>>

\* restoreQueuedMessagesToEditor: both queues are emptied into the editor, with
\* what the session shows as queued.
EmptyQueues ==
  /\ returned' = returned \cup Texts(shown) \cup Texts(compactionQueue)
  /\ dropped' = dropped \cup (Texts(queued) \ Texts(shown))
  /\ shown' = <<>> /\ queued' = <<>> /\ compactionQueue' = <<>>
  /\ UNCHANGED <<messages, streaming, ending, owner, connected, events, handlerVars,
                 retryVars, compactVars, timers, pendingBash, fileVars, pc, admin, clock,
                 flushing, carried, batch, escapeVars, typed, restored, again, disturbed>>

Dequeue == Spend("dequeue") /\ EmptyQueues /\ UNCHANGED aborting

EscapeMain ==
  /\ onEscape = "main" /\ loading
  /\ Spend("escape")
  /\ EmptyQueues
  /\ aborting' = (aborting \/ streaming)

EscapeRetry ==
  /\ onEscape = "retry"
  /\ Spend("escape")
  /\ AbortRetryEffects
  /\ RetryCancelled
  /\ UNCHANGED <<agentVars, connected, events, lastAssistant, overflowTried, compactVars,
                 timers, viewVars, fileVars, admin, clock, loading, textVars, fateVars, disturbed>>

EscapeCompaction ==
  /\ onEscape = "compaction"
  /\ Spend("escape")
  /\ AbortCompactions
  /\ UNCHANGED <<textVars, escapeVars, fateVars>>

\* An abort of an extension or another client.
ClientAborts ==
  /\ Abort \/ AbortRetry
  /\ RetryCancelled
  /\ UNCHANGED <<textVars, loading, fateVars>>

\* /compact, with at least two messages. The abort of a backoff restores the
\* handler of before the retry after the compaction has put its own in place.
CompactCommand ==
  LET inBackoff == handler = "sleeping" /\ handlers["retry"] # "none"
  IN  /\ Len(Only(entries, ItemsOf(Kinds \ SummaryKinds))) >= 2
      /\ AdminBegin("compact")
      /\ handlers' = [handlers EXCEPT !["original"] = onEscape,
                                      !["retry"] = IF inBackoff THEN "none" ELSE @]
      /\ onEscape' = IF inBackoff THEN handlers["retry"] ELSE "compaction"
      /\ crossed' = (crossed \/ onEscape # "main")
      /\ loading' = FALSE
      /\ UNCHANGED <<textVars, fateVars>>

NewCommand ==
  /\ AdminBegin("new")
  /\ RetryCancelled
  /\ loading' = FALSE
  /\ UNCHANGED <<textVars, fateVars>>

FinishNew ==
  /\ NewSession
  /\ compactionQueue' = <<>>
  /\ dropped' = dropped \cup Texts(compactionQueue) \cup Texts(queued)
  /\ UNCHANGED <<flushing, carried, batch, escapeVars, typed, returned, restored, again>>

\* clearQueue gives the texts to the client that called it.
ClientClears ==
  /\ ClearQueue
  /\ dropped' = dropped \cup Texts(queued)
  /\ UNCHANGED <<textVars, escapeVars, typed, returned, restored, again>>

ResumeCommand ==
  /\ AdminBegin("switch")
  /\ RetryCancelled
  /\ loading' = FALSE
  /\ compactionQueue' = <<>>
  /\ dropped' = dropped \cup Texts(compactionQueue)
  /\ UNCHANGED <<flushing, carried, batch, typed, returned, restored, again>>

-----------------------------------------------------------------------------
TerminalInit ==
  /\ Init
  /\ compactionQueue = <<>> /\ flushing = "none"
  /\ carried = [c \in Callers |-> NoItem] /\ batch = [c \in Callers |-> <<>>]
  /\ onEscape = "main" /\ handlers = [slot \in Slots |-> "none"] /\ loading = FALSE
  /\ typed = {} /\ delivered = {} /\ returned = {} /\ dropped = {}
  /\ restored = FALSE /\ again = {} /\ crossed = FALSE

Delivers == delivered' = delivered \cup (Texts(messages') \cap typed')

\* A step, when no flush comes before it, and one the terminal does not notice.
Turn(Step) == flushing = "none" /\ Step /\ Delivers
Unnoticed(Step) == Turn(Step /\ UNCHANGED <<textVars, escapeVars, fateVars>>)

FlushStep == Flush /\ Delivers
TerminalCallerStep(c) ==
  \/ Turn(OnPromptCheck(c)) \/ Turn(StartPrompt(c))
  \/ Turn(FailPrompt(c)) \/ Turn(RestoreQueue(c))
TerminalHandlerStep ==
  \/ Turn(OnStart) \/ Turn(OnMessage) \/ Turn(OnReply) \/ Turn(OnEndRetry) \/ Turn(OnEnd)
  \/ Unnoticed(SleepEnds)
TerminalCompactionStep(w) ==
  \/ Unnoticed(PrepareCompaction(w)) \/ Turn(OnStopCompaction(w))
  \/ Turn(OnFinishCompaction(w))
TerminalAdminStep ==
  Turn(FinishNew) \/ Unnoticed(SwitchSession) \/ Unnoticed(ManualCompact)
TerminalRunStep ==
  Unnoticed(AgentStep) \/ Turn(OnContinue) \/ Unnoticed(ContinueSwallowed)

\* The abort of an idle agent and the start of its compaction are one turn of
\* the event loop: no key comes between them.
Key(Action) == Turn((admin = "compact" => streaming) /\ Action)
Keyboard ==
  \/ Key(SubmitWaits) \/ Key(SubmitSteers) \/ Key(SubmitPrompts) \/ Key(SubmitIgnored)
  \/ Key(Dequeue) \/ Key(EscapeMain) \/ Key(EscapeRetry) \/ Key(EscapeCompaction)
  \/ Key(CompactCommand) \/ Key(NewCommand) \/ Key(ResumeCommand)
ClientStep ==
  \/ \E c \in Clients : Unnoticed(PromptBegin(c))
  \/ Unnoticed(PromptQueued) \/ Turn(ClientAborts) \/ Unnoticed(AbortCompaction)
  \/ Turn(ClientClears) \/ Unnoticed(RecordBash)

TerminalNext ==
  \/ FlushStep \/ TerminalRunStep \/ TerminalHandlerStep \/ TerminalAdminStep
  \/ Keyboard \/ ClientStep
  \/ \E c \in Callers : TerminalCallerStep(c)
  \/ \E w \in Workers : TerminalCompactionStep(w)

TerminalSpec == TerminalInit /\ [][TerminalNext]_terminalVars

-----------------------------------------------------------------------------
(* Properties *)

\* Every variable of the terminal and the session has its type.
TerminalTypeOK ==
  /\ TypeOK
  /\ compactionQueue \in Seq(Items) /\ flushing \in {"none", "steer", "prompt"}
  /\ carried \in [Callers -> Items] /\ batch \in [Callers -> Seq(Items)]
  /\ onEscape \in Escapes /\ handlers \in [Slots -> Escapes \cup {"none"}]
  /\ loading \in BOOLEAN /\ restored \in BOOLEAN /\ crossed \in BOOLEAN
  /\ typed \in SUBSET Nat
  /\ \A texts \in {delivered, again} : texts \in SUBSET typed
  /\ \A texts \in {returned, dropped} : texts \in SUBSET Nat

\* A text is in one place at a time: on its way in a queue or a call, in the
\* conversation, back in the editor or nowhere. A text back in the editor may
\* be in the conversation too, as long as the session still shows it as queued.
\* The texts that a failed flush puts back after they were sent are excepted.
Places(text) ==
  {place \in {"compaction", "queue", "call", "delivered", "dropped", "editor"} :
     CASE place = "compaction" -> text \in Texts(compactionQueue)
       [] place = "queue" -> text \in Texts(queued)
       [] place = "call" -> \E c \in Callers : carried[c].n = text
       [] place = "delivered" -> text \in delivered
       [] place = "dropped" -> text \in dropped
       [] place = "editor" -> text \in returned \ delivered}
InOnePlace == \A text \in typed \ again : Cardinality(Places(text)) = 1

\* A text only waits for a compaction that is there and will flush it, unless a
\* flush failed.
WaitsForFlush ==
  compactionQueue # <<>> =>
    flushing # "none" \/ restored \/ \E w \in Workers : compaction[w].phase # "none"

\* What the user enters is neither lost nor sent twice nor left waiting (submit,
\* flushCompactionQueue, restoreQueuedMessagesToEditor), but for the cases that
\* the history variables name.
TextsKept == InOnePlace /\ WaitsForFlush

\* Escape acts on what goes on, as long as no handler was saved on top of
\* another: a backoff or a compaction is cancelled, a run interrupted.
EscapeActs ==
  ~crossed =>
    /\ handler = "sleeping" => onEscape = "retry"
    /\ IsCompacting => onEscape = "compaction"
    /\ (streaming /\ connected /\ events = <<>> /\ handler = "free" /\ ~IsCompacting)
         => onEscape = "main" /\ loading
=============================================================================
