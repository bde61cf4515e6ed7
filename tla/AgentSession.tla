---------------------------- MODULE AgentSession ----------------------------
(***************************************************************************)
(* A session around one agent                                              *)
(* (packages/coding-agent/src/core/agent-session.ts): prompts and steering,*)
(* the queue of agent events and its one handler, automatic retry,         *)
(* automatic and manual compaction, bash results, and the change of        *)
(* session file.                                                           *)
(*                                                                         *)
(* The agent emits its events synchronously; the session chains their      *)
(* processing on a promise, so a slow extension makes the handler lag      *)
(* behind the agent's state. An action is the code between two awaits;     *)
(* the hooks that extensions have inside a compaction return at once.      *)
(* A reply that calls tools is followed by one result; custom messages and *)
(* branches are left out. The two queues of the agent are one queue here;  *)
(* AgentLoop has both.                                                     *)
(***************************************************************************)
EXTENDS Integers, Sequences, FiniteSets, SequencesExt, Lists

CONSTANTS
  Callers,      \* concurrent calls of prompt()
  MaxRetries,   \* settings.retry.maxRetries
  Budgets       \* the bounds on the inputs of each kind a behaviour may have

\* A "silent" overflow is a complete reply whose usage exceeds the window.
FailureKinds == {"retryable", "fatal", "overflow"}
\* With "overlap" in the budget clients do not wait for the session to settle.
\* The last three are keys of the terminal (InteractiveMode).
Inputs == FailureKinds \cup
          {"silent", "prompt", "queued", "full", "turn", "bash", "abort",
           "abortCompaction", "clear", "new", "switch", "compact", "overlap",
           "text", "escape", "dequeue"}

ASSUME ASAssumption ==
  /\ MaxRetries \in Nat
  /\ Budgets \subseteq [Inputs -> Nat]
  /\ {"handler", "manual", "nobody"} \cap Callers = {}

Workers == Callers \cup {"handler", "manual"}

VARIABLES
  messages,       \* agent.state.messages
  streaming,      \* agent.state.isStreaming
  ending,         \* the kind of the run's last reply, once it is there
  owner,          \* whose agent.prompt() the run is, "nobody" for continue()
  queued,         \* the agent's queues
  aborting,       \* the signal of the run's AbortController
  connected,      \* _unsubscribeAgent is set
  events,         \* _agentEventQueue: the events still to be processed
  handler,        \* "free", "sleeping" or "compacting"
  lastAssistant,  \* _lastAssistantMessage
  retryAttempt,
  retryPromise,   \* _retryPromise is set
  overflowTried,  \* _overflowRecoveryAttempted
  compaction,     \* the call of _runAutoCompaction or compact of each worker
  controller,     \* whose controller _autoCompactionAbortController is
  timers,         \* the scheduled calls of agent.continue()
  shown,          \* _steeringMessages and _followUpMessages
  pendingBash,    \* _pendingBashMessages
  files,          \* the message and compaction entries of each session file
  current,        \* the session of the session manager
  pc,             \* where each call of prompt() is waiting
  admin,          \* the session operation in progress
  clock,          \* the items created so far
  left,           \* the inputs of each kind that may still come
  disturbed       \* history: operations met that the code does not keep apart

agentVars  == <<messages, streaming, ending, owner, queued, aborting>>
retryVars  == <<retryAttempt, retryPromise>>
compactVars == <<compaction, controller>>
viewVars   == <<shown, pendingBash>>
fileVars   == <<files, current>>
handlerVars == <<handler, lastAssistant, overflowTried>>
vars == <<agentVars, connected, events, handlerVars, retryVars, compactVars,
          timers, viewVars, fileVars, pc, admin, clock, left, disturbed>>

\* A message of the agent or an entry of a file. n is its place in time; a
\* summary keeps what follows item `first`.
\* "full" and "abortedFull" are replies whose usage is over the threshold, a
\* "rescue" is the summary of an overflow.
AssistantKinds == {"ok", "full", "silent", "aborted", "abortedFull"} \cup FailureKinds
SummaryKinds == {"summary", "rescue"}
Kinds == {"user", "bash", "result"} \cup AssistantKinds \cup SummaryKinds
ItemsOf(kinds) == [kind : kinds, n : Nat, first : Nat]
Items == ItemsOf(Kinds)
Item(kind) == [kind |-> kind, n |-> clock + 1, first |-> 0]
NoItem == [kind |-> "user", n |-> 0, first |-> 0]

IsAssistant(m) == m.kind \in AssistantKinds
IsFailed(m) == m.kind \in FailureKinds
EndsWithAssistant(ms) == ms # <<>> /\ IsAssistant(Last(ms))
DropReply(ms) == IF EndsWithAssistant(ms) THEN Front(ms) ELSE ms

Spend(input) ==
  /\ left[input] > 0
  /\ left' = [left EXCEPT ![input] = @ - 1]

\* Nothing is running, waiting or scheduled.
Quiet ==
  /\ ~streaming /\ events = <<>> /\ handler = "free" /\ timers = 0
  /\ admin = "none" /\ \A c \in Callers : pc[c] = "idle"
\* Clients that wait for the session to settle.
Patient == left["overlap"] = 0
Allowed == Patient => Quiet

\* Where operations meet that the code does not keep apart, the properties of
\* the session may fail; that one did is remembered.
Disturb(meets) == disturbed' = (disturbed \/ meets)

-----------------------------------------------------------------------------
(* The session file *)

entries == files[current]
AppendEntry(item) == [files EXCEPT ![current] = Append(@, item)]

Summaries(es) == {i \in DOMAIN es : es[i].kind \in SummaryKinds}
LatestSummary(es) ==
  IF Summaries(es) = {} THEN 0
  ELSE CHOOSE i \in Summaries(es) : \A j \in Summaries(es) : j <= i

\* buildSessionContext on an unbranched session: the summary, the entries
\* kept before it from firstKeptEntryId on, and all after it.
BuildContext(es) ==
  LET i == LatestSummary(es)
      before == SubSeq(es, 1, i - 1)
      kept == {k \in DOMAIN before : before[k].n = es[i].first}
  IN  IF i = 0 THEN es
      ELSE <<es[i]>>
           \o (IF kept = {} THEN <<>>
               ELSE Only(SubSeq(before, CHOOSE k \in kept : TRUE, i - 1),
                         ItemsOf(Kinds \ SummaryKinds)))
           \o SubSeq(es, i + 1, Len(es))

-----------------------------------------------------------------------------
(* Events, the retry promise and the automatic compaction *)

Event(type, item) == [type |-> type, item |-> item]
Emitted(new) == IF connected THEN events \o new ELSE events

\* _resolveRetry wakes every call of waitForRetry.
Woken == [c \in Callers |-> IF pc[c] = "retryWait" THEN "idle" ELSE pc[c]]
ResolveRetry == retryPromise' = FALSE /\ pc' = Woken

\* abortRetry: the backoff ends at once if the handler is in it. What then
\* runs, the catch block and the rest of the handler, changes no more.
AbortRetryEffects ==
  /\ ResolveRetry
  /\ IF handler = "sleeping"
     THEN handler' = "free" /\ retryAttempt' = 0
     ELSE UNCHANGED <<handler, retryAttempt>>
AbortEffects == AbortRetryEffects /\ aborting' = (aborting \/ streaming)

NoCompaction == [phase |-> "none", reason |-> "none", first |-> 0, aborted |-> FALSE]
Compactions == [phase : {"none", "key", "summarising"},
                reason : {"none", "overflow", "threshold", "manual"},
                first : Nat, aborted : BOOLEAN]

\* The reply was given before the last compaction.
FromBeforeCompaction(m) ==
  LatestSummary(entries) # 0 /\ m.n < entries[LatestSummary(entries)].n
CompactionReason_Again(m, skipAbortedCheck) ==
  IF m.kind \in {"overflow", "silent"} /\ ~FromBeforeCompaction(m)
  THEN "overflow"
  ELSE IF m.kind \in {"full", "silent"} \/ (m.kind = "abortedFull" /\ ~skipAbortedCheck)
       THEN "threshold" ELSE "none"

\* _checkCompaction: what the reply m calls for. An overflow is recovered from
\* once; a reply over the threshold, a silent overflow from before a
\* compaction too, calls for a plain compaction.
CompactionReason(m, skipAbortedCheck) ==
  IF m.kind \in {"overflow", "silent"} /\ ~FromBeforeCompaction(m)
  THEN IF overflowTried THEN "none" ELSE "overflow"
  ELSE IF m.kind \in {"full", "silent"} \/ (m.kind = "abortedFull" /\ ~skipAbortedCheck)
       THEN "threshold" ELSE "none"

\* The effects of _checkCompaction up to the first await of
\* _runAutoCompaction.
BeginCompaction(w, reason) ==
  /\ compaction' = [compaction EXCEPT ![w] =
                      [NoCompaction EXCEPT !.phase = "key", !.reason = reason]]
  /\ controller' = w
  /\ overflowTried' = (overflowTried \/ reason = "overflow")
  /\ messages' = IF reason = "overflow" THEN DropReply(messages) ELSE messages

\* A finished or failed compaction: the finally block, and what its caller
\* does next.
Release(w) ==
  /\ compaction' = [compaction EXCEPT ![w] = NoCompaction]
  /\ controller' = IF w = "manual" THEN controller ELSE "nobody"
  /\ handler' = IF w = "handler" THEN "free" ELSE handler
  /\ pc' = IF w \in Callers THEN [pc EXCEPT ![w] = "starting"] ELSE pc
  /\ IF w = "manual" THEN connected' = TRUE /\ admin' = "none"
                     ELSE UNCHANGED <<connected, admin>>

\* Automatic compactions share one controller: what one has cleared is an error
\* for another that reads it, and one is cancelled by the signal it finds there.
HasController(w) == w # "manual" => controller # "nobody"
NotCancelled(w) ==
  /\ ~compaction[w].aborted
  /\ w # "manual" => ~compaction[controller].aborted

\* prepareCompaction: nothing to do after a compaction entry; else the
\* entries from a cut point on are kept.
CutPoints(es) == {i \in DOMAIN es : i > LatestSummary(es) /\ es[i].kind # "result"}
PrepareCompaction(w) ==
  /\ compaction[w].phase = "key"
  /\ HasController(w)
  /\ \E i \in CutPoints(entries) :
       compaction' = [compaction EXCEPT ![w].phase = "summarising",
                                        ![w].first = entries[i].n]
  /\ UNCHANGED <<agentVars, connected, events, handlerVars, retryVars, controller,
                 timers, viewVars, fileVars, pc, admin, clock, left, disturbed>>

\* No key, nothing to compact, a failed or an aborted summary, no controller.
StopCompaction(w) ==
  /\ compaction[w].phase # "none"
  /\ Release(w)
  /\ UNCHANGED <<agentVars, events, lastAssistant, overflowTried, retryVars,
                 timers, viewVars, fileVars, clock, left, disturbed>>

Summary(c) == [Item(IF c.reason = "overflow" THEN "rescue" ELSE "summary")
                 EXCEPT !.first = c.first]

Rebuilt_KeepsError(c, es) == BuildContext(es)
Rebuilt_NotAtAll(c, es) == messages

\* The agent's messages after a compaction: those of the file, without the
\* error that ends them after an overflow.
Rebuilt(c, es) ==
  LET context == BuildContext(es)
  IN  IF c.reason = "overflow" /\ IsFailed(Last(context)) THEN Front(context) ELSE context

Kicks_WithoutQueue(c, waiting) == c.reason = "overflow"

\* After an overflow, or with messages waiting, the run is continued.
Kicks(c, waiting) == c.reason = "overflow" \/ (c.reason = "threshold" /\ waiting)

\* The summary is there and not aborted. A listener of the end event may have
\* queued messages before the queue is looked at.
FinishCompactionWith(w, waiting) ==
  LET c == compaction[w]
  IN  /\ c.phase = "summarising"
      /\ HasController(w) /\ NotCancelled(w)
      /\ files' = AppendEntry(Summary(c))
      /\ messages' = Rebuilt(c, files'[current])
      /\ timers' = timers + IF Kicks(c, waiting) THEN 1 ELSE 0
      /\ Release(w)
      /\ clock' = clock + 1
      /\ UNCHANGED <<streaming, ending, owner, queued, aborting, events, lastAssistant,
                     overflowTried, retryVars, viewVars, current, left, disturbed>>
FinishCompaction(w) == FinishCompactionWith(w, queued # <<>>)

AbortCompactions ==
  /\ compaction' = [w \in Workers |->
       [compaction[w] EXCEPT !.aborted =
          @ \/ (w \in {controller, "manual"} /\ compaction[w].phase # "none")]]
  /\ UNCHANGED <<agentVars, connected, events, handlerVars, retryVars, controller,
                 timers, viewVars, fileVars, pc, admin, clock, disturbed>>
AbortCompaction == Spend("abortCompaction") /\ AbortCompactions

-----------------------------------------------------------------------------
(* The calls of prompt() *)

\* While a run streams the message is queued and the call returns.
QueueMessage(item) ==
  /\ streaming
  /\ queued' = Append(queued, item)
  /\ shown' = Append(shown, item)
  /\ clock' = clock + 1
  /\ UNCHANGED <<messages, streaming, ending, owner, aborting, connected, events,
                 handlerVars, retryVars, compactVars, timers, pendingBash,
                 fileVars, pc, admin, disturbed>>
PromptQueued == Spend("queued") /\ QueueMessage(Item("user"))

\* Bash results that waited are flushed, then the API key is awaited. While it
\* is, a caller that does not wait for prompt() may queue more messages.
PromptBeginWith(c, more) ==
  /\ pc[c] = "idle" /\ ~streaming
  /\ messages' = messages \o pendingBash
  /\ files' = [files EXCEPT ![current] = @ \o pendingBash]
  /\ pendingBash' = <<>>
  /\ queued' = queued \o more /\ shown' = shown \o more
  /\ pc' = [pc EXCEPT ![c] = "checking"]
  /\ Disturb(~Quiet)
  /\ UNCHANGED <<streaming, ending, owner, aborting, connected, events, handlerVars,
                 retryVars, compactVars, timers, current, admin>>
PromptBegin(c) ==
  Allowed /\ Spend("prompt") /\ PromptBeginWith(c, <<>>) /\ UNCHANGED clock

\* The last reply, an aborted one too, may call for a compaction first.
LastAssistantIn(ms) ==
  IF \E i \in DOMAIN ms : IsAssistant(ms[i])
  THEN ms[CHOOSE i \in DOMAIN ms :
            IsAssistant(ms[i]) /\ \A j \in i+1..Len(ms) : ~IsAssistant(ms[j])]
  ELSE NoItem
PromptCheck(c) ==
  LET reason == CompactionReason(LastAssistantIn(messages), FALSE)
  IN  /\ pc[c] = "checking"
      /\ IF reason = "none"
         THEN pc' = [pc EXCEPT ![c] = "starting"]
              /\ UNCHANGED <<compactVars, overflowTried, messages>>
         ELSE pc' = [pc EXCEPT ![c] = "compacting"] /\ BeginCompaction(c, reason)
      /\ UNCHANGED <<streaming, ending, owner, queued, aborting, connected, events, handler,
                     lastAssistant, retryVars, timers, viewVars, fileVars, admin,
                     clock, left, disturbed>>

\* No model or no API key; or agent.prompt throws, another run started meanwhile.
PromptThrows(c) ==
  /\ pc[c] = "checking" \/ (pc[c] = "starting" /\ streaming)
  /\ pc' = [pc EXCEPT ![c] = "idle"]
  /\ UNCHANGED <<messages, streaming, ending, owner, aborting, connected, events,
                 handlerVars, retryVars, compactVars, timers, pendingBash, fileVars,
                 admin, clock, left, disturbed>>
PromptRejected(c) == PromptThrows(c) /\ UNCHANGED <<queued, shown>>

PromptStartWith(c, user) ==
  /\ pc[c] = "starting" /\ ~streaming
  /\ messages' = Append(messages, user)
  /\ events' = Emitted(<<Event("agent_start", NoItem), Event("message", user)>>)
  /\ streaming' = TRUE /\ owner' = c /\ aborting' = FALSE
  /\ pc' = [pc EXCEPT ![c] = "running"]
  /\ UNCHANGED <<ending, queued, connected, handlerVars, retryVars, compactVars,
                 timers, viewVars, fileVars, admin, left, disturbed>>
PromptStart(c) == PromptStartWith(c, Item("user")) /\ clock' = clock + 1

-----------------------------------------------------------------------------
(* The agent's run *)

RunVars == <<connected, handlerVars, retryAttempt, compactVars, timers, viewVars,
             fileVars, admin>>
ReplyVars == <<RunVars, disturbed>>

\* A reply after which the run goes on: it called tools.
ReplyAndGoOn ==
  /\ streaming /\ ending = "none" /\ queued = <<>>
  /\ Spend("turn")
  /\ LET reply == Item("ok")
         result == [Item("result") EXCEPT !.n = clock + 2]
     IN  /\ messages' = messages \o <<reply, result>>
         /\ events' = Emitted(<<Event("message", reply), Event("message", result)>>)
  /\ clock' = clock + 2
  /\ UNCHANGED <<streaming, ending, owner, queued, aborting, retryPromise, pc, ReplyVars>>

\* A reply after which the next queued message is delivered.
ReplyAndDeliver ==
  /\ streaming /\ ending = "none" /\ queued # <<>>
  /\ LET reply == Item("ok") IN
       /\ messages' = messages \o <<reply, Head(queued)>>
       /\ events' = Emitted(<<Event("message", reply), Event("message", Head(queued))>>)
  /\ queued' = Tail(queued)
  /\ clock' = clock + 1
  /\ UNCHANGED <<streaming, ending, owner, aborting, retryPromise, pc, left, ReplyVars>>

\* The last reply of a run: a complete one when nothing is queued, a failed
\* or an aborted one in any case.
MayReply(kind) ==
  CASE kind = "ok" -> queued = <<>> /\ UNCHANGED left
    [] kind = "full" -> queued = <<>> /\ Spend("full")
    [] kind = "silent" -> queued = <<>> /\ Spend(kind)
    [] kind = "aborted" -> aborting /\ UNCHANGED left
    [] kind = "abortedFull" -> aborting /\ Spend("full")
    [] OTHER -> Spend(kind)
LastReply(kind) ==
  /\ streaming /\ ending = "none"
  /\ MayReply(kind)
  /\ LET reply == Item(kind) IN
       /\ messages' = Append(messages, reply)
       /\ events' = Emitted(<<Event("message", reply)>>)
  /\ ending' = kind
  /\ clock' = clock + 1
  /\ UNCHANGED <<streaming, owner, queued, aborting, retryPromise, pc, ReplyVars>>

\* agent_end. The retry promise is created when it is emitted, before its
\* processing is queued, so that the prompt that returns waits for it.
EndRun ==
  /\ streaming /\ ending # "none"
  /\ events' = Emitted(<<Event("agent_end", NoItem)>>)
  /\ retryPromise' = (retryPromise \/ (connected /\ ending = "retryable"))
  /\ streaming' = FALSE /\ ending' = "none" /\ owner' = "nobody" /\ aborting' = FALSE
  /\ pc' = IF owner \in Callers
           THEN [pc EXCEPT ![owner] = IF retryPromise' THEN "retryWait" ELSE "idle"]
           ELSE pc
  /\ Disturb(timers > 0)
  /\ UNCHANGED <<messages, queued, clock, left, RunVars>>

\* A scheduled agent.continue(). Its errors are swallowed: a run streams
\* already, there is no message, or the last one is a reply and nothing waits.
MayContinue ==
  ~streaming /\ messages # <<>> /\ (EndsWithAssistant(messages) => queued # <<>>)
ContinueSwallowed ==
  /\ timers > 0 /\ ~MayContinue
  /\ timers' = timers - 1
  /\ UNCHANGED <<agentVars, connected, events, handlerVars, retryVars, compactVars,
                 viewVars, fileVars, pc, admin, clock, left, disturbed>>

Continue ==
  /\ timers > 0 /\ MayContinue
  /\ timers' = timers - 1
  /\ streaming' = TRUE /\ owner' = "nobody" /\ aborting' = FALSE
  /\ IF EndsWithAssistant(messages)
     THEN /\ messages' = Append(messages, Head(queued))
          /\ queued' = Tail(queued)
          /\ events' = Emitted(<<Event("agent_start", NoItem),
                                Event("message", Head(queued))>>)
     ELSE /\ events' = Emitted(<<Event("agent_start", NoItem)>>)
          /\ UNCHANGED <<messages, queued>>
  /\ Disturb(\E c \in Callers : pc[c] \notin {"idle", "retryWait"})
  /\ UNCHANGED <<ending, connected, handlerVars, retryVars, compactVars, viewVars,
                 fileVars, pc, admin, clock, left>>

-----------------------------------------------------------------------------
(* The handler of agent events *)

HandleNext ==
  handler = "free" /\ events # <<>> /\ events' = Tail(events)

\* agent_start changes nothing in the session.
HandleStart ==
  /\ HandleNext
  /\ Head(events).type = "agent_start"
  /\ UNCHANGED <<agentVars, connected, handlerVars, retryVars, compactVars, timers,
                 viewVars, fileVars, pc, admin, clock, left, disturbed>>

\* A delivered message is no longer shown as queued (the code looks it up by
\* its text; here no two messages have the same).
HandleUser ==
  LET item == Head(events).item
  IN  /\ HandleNext
      /\ Head(events).type = "message" /\ item.kind = "user"
      /\ shown' = RemoveFirst(shown, item)
      /\ files' = AppendEntry(item)
      /\ overflowTried' = FALSE
      /\ UNCHANGED <<agentVars, connected, handler, lastAssistant, retryVars,
                     compactVars, timers, pendingBash, current, pc, admin,
                     clock, left, disturbed>>

\* The result of a tool is only written to the file.
HandleResult ==
  /\ HandleNext
  /\ Head(events).type = "message" /\ Head(events).item.kind = "result"
  /\ files' = AppendEntry(Head(events).item)
  /\ UNCHANGED <<agentVars, connected, handlerVars, retryVars, compactVars, timers,
                 viewVars, current, pc, admin, clock, left, disturbed>>

EndsRetries_AnyReply(item) == retryAttempt > 0
EndsRetries(item) == item.kind \notin FailureKinds /\ retryAttempt > 0

\* A complete or aborted reply ends the retries and the overflow recovery.
HandleAssistant ==
  LET item == Head(events).item
  IN  /\ HandleNext
      /\ Head(events).type = "message" /\ IsAssistant(item)
      /\ files' = AppendEntry(item)
      /\ lastAssistant' = item
      /\ overflowTried' = (overflowTried /\ item.kind \in FailureKinds)
      /\ IF EndsRetries(item) THEN retryAttempt' = 0 /\ ResolveRetry
                                     ELSE UNCHANGED <<retryVars, pc>>
      /\ UNCHANGED <<agentVars, connected, handler, compactVars, timers, viewVars,
                     current, admin, clock, left, disturbed>>

IsRetryable_Any(m) == m # NoItem
IsRetryable(m) == m.kind = "retryable"

MayRetry_OnceMore == retryAttempt <= MaxRetries
MayRetry == retryAttempt < MaxRetries

StopRetrying_StillPromised == retryAttempt' = 0 /\ UNCHANGED <<retryPromise, pc>>
StopRetrying == retryAttempt' = 0 /\ ResolveRetry

\* agent_end after a retryable error: the error leaves the agent's messages
\* and the backoff starts, or the attempts are used up.
HandleEndRetry ==
  /\ HandleNext
  /\ Head(events).type = "agent_end" /\ IsRetryable(lastAssistant)
  /\ lastAssistant' = NoItem
  /\ IF MayRetry
     THEN /\ retryAttempt' = retryAttempt + 1
          /\ retryPromise' = TRUE
          /\ messages' = DropReply(messages)
          /\ handler' = "sleeping"
          /\ UNCHANGED pc
     ELSE StopRetrying /\ UNCHANGED <<messages, handler>>
  /\ UNCHANGED <<streaming, ending, owner, queued, aborting, connected, overflowTried,
                 compactVars, timers, viewVars, fileVars, admin, clock, left, disturbed>>

\* agent_end after any other reply, or with none since the last one.
HandleEnd ==
  LET reason == CompactionReason(lastAssistant, TRUE)
  IN  /\ HandleNext
      /\ Head(events).type = "agent_end" /\ ~IsRetryable(lastAssistant)
      /\ lastAssistant' = NoItem
      /\ IF reason = "none"
         THEN UNCHANGED <<handler, compactVars, overflowTried, messages>>
         ELSE handler' = "compacting" /\ BeginCompaction("handler", reason)
      /\ UNCHANGED <<streaming, ending, owner, queued, aborting, connected, retryVars, timers,
                     viewVars, fileVars, pc, admin, clock, left, disturbed>>

\* The backoff is over: the retry is scheduled.
SleepEnds ==
  /\ handler = "sleeping"
  /\ handler' = "free"
  /\ timers' = timers + 1
  /\ UNCHANGED <<agentVars, connected, events, lastAssistant, overflowTried, retryVars,
                 compactVars, viewVars, fileVars, pc, admin, clock, left, disturbed>>

-----------------------------------------------------------------------------
(* The user: abort, bash results, the queue and the session file *)

AbortRetry ==
  /\ Spend("abort")
  /\ AbortRetryEffects
  /\ UNCHANGED <<agentVars, connected, events, lastAssistant, overflowTried,
                 compactVars, timers, viewVars, fileVars, admin, clock, disturbed>>

Abort ==
  /\ Spend("abort")
  /\ AbortEffects
  /\ UNCHANGED <<messages, streaming, ending, owner, queued, connected, events, lastAssistant,
                 overflowTried, compactVars, timers, viewVars, fileVars, admin, clock, disturbed>>

ClearQueue_StillShown ==
  /\ Spend("clear")
  /\ shown' = shown /\ queued' = <<>>
  /\ UNCHANGED <<messages, streaming, ending, owner, aborting, connected, events, handlerVars,
                 retryVars, compactVars, timers, pendingBash, fileVars, pc, admin,
                 clock, disturbed>>

ClearQueue ==
  /\ Spend("clear")
  /\ shown' = <<>> /\ queued' = <<>>
  /\ UNCHANGED <<messages, streaming, ending, owner, aborting, connected, events, handlerVars,
                 retryVars, compactVars, timers, pendingBash, fileVars, pc, admin,
                 clock, disturbed>>

RecordBash ==
  /\ streaming \/ Allowed
  /\ Spend("bash")
  /\ LET bash == Item("bash") IN
       IF streaming
       THEN pendingBash' = Append(pendingBash, bash) /\ UNCHANGED <<messages, files>>
       ELSE /\ messages' = Append(messages, bash)
            /\ files' = AppendEntry(bash)
            /\ UNCHANGED pendingBash
  /\ Disturb(~streaming /\ ~Quiet)
  /\ clock' = clock + 1
  /\ UNCHANGED <<streaming, ending, owner, queued, aborting, connected, events, handlerVars,
                 retryVars, compactVars, timers, shown, current, pc, admin>>

\* newSession, switchSession and compact stop listening to the agent, abort
\* and wait for it to be idle.
AdminBegin(operation) ==
  /\ admin = "none" /\ Allowed
  /\ Spend(operation)
  /\ admin' = operation
  /\ connected' = FALSE
  /\ AbortEffects
  /\ Disturb(\/ ~Quiet
             \/ operation # "compact" /\ pendingBash # <<>>
             \/ operation = "switch" /\ queued # <<>>)
  /\ UNCHANGED <<messages, streaming, ending, owner, queued, events, lastAssistant,
                 overflowTried, compactVars, timers, viewVars, fileVars, clock>>

NewSession ==
  /\ admin = "new" /\ ~streaming
  /\ messages' = <<>> /\ queued' = <<>>
  /\ files' = Append(files, <<>>) /\ current' = Len(files) + 1
  /\ shown' = <<>>
  /\ connected' = TRUE /\ admin' = "none"
  /\ UNCHANGED <<streaming, ending, owner, aborting, events, handlerVars, retryVars,
                 compactVars, timers, pendingBash, pc, clock, left, disturbed>>

\* The last message of the user or good reply comes before an overflow.
IsAnswer(m) == m.kind \in ({"user"} \cup AssistantKinds) \ FailureKinds
EndsInOverflow(es) ==
  \E i \in DOMAIN es : es[i].kind = "overflow" /\ \A j \in i..Len(es) : ~IsAnswer(es[j])

\* Whether the recovery from the last overflow was tried is not in the file.
SwitchSession ==
  /\ admin = "switch" /\ ~streaming
  /\ \E s \in DOMAIN files : current' = s /\ messages' = BuildContext(files[s])
  /\ Disturb(EndsInOverflow(files[current']))
  /\ shown' = <<>>
  /\ connected' = TRUE /\ admin' = "none"
  /\ UNCHANGED <<streaming, ending, owner, queued, aborting, events, handlerVars, retryVars,
                 compactVars, timers, pendingBash, files, pc, clock, left>>

ManualCompact ==
  /\ admin = "compact" /\ ~streaming
  /\ compaction' = [compaction EXCEPT !["manual"] =
                      [NoCompaction EXCEPT !.phase = "key", !.reason = "manual"]]
  /\ admin' = "compacting"
  /\ UNCHANGED <<agentVars, connected, events, handlerVars, retryVars, controller,
                 timers, viewVars, fileVars, pc, clock, left, disturbed>>

-----------------------------------------------------------------------------
Init ==
  /\ messages = <<>> /\ streaming = FALSE /\ ending = "none" /\ owner = "nobody"
  /\ queued = <<>> /\ aborting = FALSE /\ connected = TRUE
  /\ events = <<>> /\ handler = "free" /\ lastAssistant = NoItem
  /\ retryAttempt = 0 /\ retryPromise = FALSE /\ overflowTried = FALSE
  /\ compaction = [w \in Workers |-> NoCompaction] /\ controller = "nobody"
  /\ timers = 0 /\ shown = <<>> /\ pendingBash = <<>>
  /\ files = <<<<>>>> /\ current = 1
  /\ pc = [c \in Callers |-> "idle"] /\ admin = "none"
  /\ clock = 0 /\ left \in Budgets /\ disturbed = FALSE

CompactionStep(w) == PrepareCompaction(w) \/ StopCompaction(w) \/ FinishCompaction(w)
CallerStep(c) ==
  PromptCheck(c) \/ PromptRejected(c) \/ PromptStart(c)
    \/ CompactionStep(c)
AgentStep ==
  ReplyAndGoOn \/ ReplyAndDeliver \/ EndRun \/ \E kind \in AssistantKinds : LastReply(kind)
HandlerStep ==
  HandleStart \/ HandleUser \/ HandleResult \/ HandleAssistant \/ HandleEndRetry \/ HandleEnd \/ SleepEnds
    \/ CompactionStep("handler")
TimerStep == ContinueSwallowed \/ Continue
AdminStep == NewSession \/ SwitchSession \/ ManualCompact \/ CompactionStep("manual")
UserStep ==
  \/ \E c \in Callers : PromptBegin(c)
  \/ PromptQueued
  \/ Abort \/ AbortRetry \/ AbortCompaction \/ ClearQueue \/ RecordBash
  \/ \E operation \in {"new", "switch", "compact"} : AdminBegin(operation)

Next ==
  \/ UserStep \/ AgentStep \/ HandlerStep \/ TimerStep \/ AdminStep
  \/ \E c \in Callers : CallerStep(c)

\* The provider answers, extensions return, timers fire: everything but the
\* user goes on.
Fairness ==
  /\ WF_vars(AgentStep) /\ WF_vars(HandlerStep) /\ WF_vars(TimerStep)
  /\ WF_vars(AdminStep) /\ \A c \in Callers : WF_vars(CallerStep(c))

Spec == Init /\ [][Next]_vars
FairSpec == Spec /\ Fairness

-----------------------------------------------------------------------------
(* Properties *)

\* Every variable has its type.
TypeOK ==
  /\ messages \in Seq(Items) /\ queued \in Seq(Items) /\ shown \in Seq(Items)
  /\ pendingBash \in Seq(Items)
  /\ events \in Seq([type : {"agent_start", "message", "agent_end"}, item : Items])
  /\ streaming \in BOOLEAN /\ ending \in AssistantKinds \cup {"none"}
  /\ owner \in Callers \cup {"nobody"}
  /\ aborting \in BOOLEAN /\ connected \in BOOLEAN
  /\ handler \in {"free", "sleeping", "compacting"} /\ lastAssistant \in Items
  /\ retryAttempt \in 0..MaxRetries /\ retryPromise \in BOOLEAN
  /\ overflowTried \in BOOLEAN
  /\ compaction \in [Workers -> Compactions]
  /\ controller \in Workers \cup {"nobody"}
  /\ timers \in Nat
  /\ files \in Seq(Seq(Items)) /\ current \in DOMAIN files
  /\ pc \in [Callers -> {"idle", "checking", "compacting", "starting", "running",
                         "retryWait"}]
  /\ admin \in {"none", "new", "switch", "compact", "compacting"}
  /\ clock \in Nat /\ left \in [Inputs -> Nat] /\ disturbed \in BOOLEAN

\* Once everything has settled the agent's messages are what the session file
\* gives back (_processAgentEvent, _flushPendingBashMessages,
\* _runAutoCompaction, compact), but for the replies that failed or overflowed,
\* which a retry or a recovery takes from the agent and not from the file.
RemovableKinds == FailureKinds \cup {"silent"}
IsRemovable(m) == m.kind \in RemovableKinds
Kept(ms) == Only(ms, ItemsOf(Kinds \ RemovableKinds))
ContextMatchesFile == Quiet => Kept(messages) = Kept(BuildContext(entries))

\* A retry or an overflow recovery takes only a reply that failed or that
\* overflowed out of the agent's messages (_handleRetryableError,
\* _checkCompaction), as long as nothing disturbed the session.
RemovesOnlyFailures ==
  [][(~disturbed /\ messages # <<>> /\ messages' = Front(messages) /\ current' = current)
       => IsRemovable(Last(messages))]_vars

\* No more than MaxRetries automatic retries in a row: of any
\* MaxRetries + 2 successive entries of a file not all are retryable failures
\* (_handleRetryableError), as long as nothing disturbed the session.
RetryBounded ==
  ~disturbed => \A s \in DOMAIN files : \A i \in DOMAIN files[s] :
    i + MaxRetries + 1 <= Len(files[s]) =>
      \E j \in i..i + MaxRetries + 1 : files[s][j].kind # "retryable"

\* One compaction for an overflow and no second one before a message of the
\* user or a good reply (_checkCompaction, _overflowRecoveryAttempted), as long
\* as nothing disturbed the session.
OverflowOnce ==
  ~disturbed => \A s \in DOMAIN files : \A i, j \in DOMAIN files[s] :
    (i < j /\ files[s][i].kind = "rescue" /\ files[s][j].kind = "rescue") =>
      \E k \in i..j : IsAnswer(files[s][k])

\* Both recoveries end: a session does not pay for the same failure for ever,
\* however retries, rescues, aborts and new prompts alternate.
RecoveryBounded == RetryBounded /\ OverflowOnce

\* When all events are processed the messages shown as queued are those the
\* agent holds (_queueSteer, _processAgentEvent, clearQueue).
QueueMirror == (events = <<>> /\ admin = "none") => shown = queued

\* As long as nothing disturbed the session, all copies of its state agree: the
\* agent's messages and the file, its queue and the displayed one.
CopiesAgree == ~disturbed => ContextMatchesFile /\ QueueMirror

\* After the compaction of an overflow the run is continued: the summary does
\* not stay the last entry (_runAutoCompaction with willRetry).
RescueIsLast == entries # <<>> /\ Last(entries).kind = "rescue"
RescueContinues == RescueIsLast ~> ~RescueIsLast

\* A message that waits when a compaction is written is delivered after it
\* (_runAutoCompaction: "Kick the loop").
WaitsSinceSummary ==
  LatestSummary(entries) # 0
    /\ \E i \in DOMAIN queued : queued[i].n < entries[LatestSummary(entries)].n
KickDelivers == WaitsSinceSummary ~> ~WaitsSinceSummary

\* What a compaction interrupts goes on.
CompactionResumes == RescueContinues /\ KickDelivers

\* Every call of prompt() returns (waitForRetry).
PromptReturns == \A c \in Callers : pc[c] # "idle" ~> pc[c] = "idle"
=============================================================================
