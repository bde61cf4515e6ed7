# pi-max in TLA+

pi-max is a terminal coding agent: a loop that sends a conversation to a language model,
executes the tools the model asks for, and goes on until the model is done; a session around
it that persists the conversation, retries, compacts and lets the user steer; and the
interfaces and services on top. This directory holds TLA+ models of its core and of the
services, files and streams around it, translated from the source, the TLC configurations
that check them on small instances, and TLAPS proofs for all instances.

Run everything from this directory: `tlc -config AgentLoopTools.cfg MCAgentLoop`,
`tlapm AgentLoop_proofs.tla`. The theorems are in the modules named `…_proofs`. `PROJECT.json` is the index: every run with its module,
configuration and properties; for every definition that models code the lines it stands
for; for every property a mutation of the code model that breaks it.

Contents: [the system](#the-system) · [the modules](#the-modules) ·
[the runs](#the-runs) · [what is proved](#what-is-proved) ·
[divergences](#divergences-found) · [what is not modelled](#what-is-not-modelled) ·
[the plan](#the-plan)

## The system

All paths below are relative to `src/packages/`.

### How the parts interact

```
 user / RPC client ──prompt, steer, abort──▶ AgentSession ──prompt, continue──▶ Agent
                                              │   ▲  ▲                            │
                          append, branch      │   │  └── events (promise chain) ◀─┤
                                              ▼   │                               ▼
                                   SessionManager │                         agent loop
                                     │            └─ messages rebuilt        │      │
                                     ▼               from the file           ▼      ▼
                                 JSONL file ◀── Compaction            model provider  tools
```

Everything of one session runs in one JavaScript process, so code between two awaits is
atomic, and every await is a point where a user command, a timer, an event handler or
another call may come in between. That, and the process dying at any moment, is where
the hard behaviour is.

### Agent and agent loop — `agent/src/agent.ts`, `agent/src/agent-loop.ts`, `ai/src/utils/event-stream.ts`

*State.* The agent has the conversation (`messages`), `isStreaming`,
`pendingToolCalls`, a steering and a follow-up queue. The loop has its own copy of the
conversation (`currentContext`), the messages to inject, and the calls and results of
the turn. Between the two is an event stream: the loop pushes, the agent's consumer pulls.

*Operations.* `prompt`, `continue` (from the context, or with the message at the head of
a queue), `steer`, `followUp`, `clearAllQueues`, `abort`, `replaceMessages`; in the loop:
request, reply, grouping of tool calls, workers that execute a group of read-only calls
side by side, skipping the calls that are left when a steering message comes, polling
the queues.

*Hard.* User commands at every await; calls that finish out of order while results must
be in order; a provider that fails, an abort in the middle of a turn, an exception inside
an async function that nobody awaits; a consumer that lags behind the loop.

*Correct means.* No request is malformed (every call has exactly one result right after
it); a call with side effects never overlaps another; no message of the user is lost,
doubled or overtaken; what the agent displays is what the loop did; a run ends.

### Agent session — `coding-agent/src/core/agent-session.ts`

*State.* The chain of agent events still to be processed; retry counter, retry promise
and backoff; the automatic and the manual compaction in progress; timers that will call
`agent.continue()`; copies of the queued messages for display; bash results that wait;
the current session file.

*Operations.* `prompt` (with its pre-flight compaction check), queueing while a run
streams, the handler of each agent event, `_handleRetryableError`, `abortRetry`, `abort`,
`_checkCompaction`, `_runAutoCompaction`, `compact`, `recordBashResult`, `clearQueue`,
`newSession`, `switchSession`.

*Hard.* The handler works on events while the agent's state has moved on; retry,
compaction, timers and prompts all replace the agent's messages; two prompts may run at
once; a session may be exchanged under queued events.

*Correct means.* The agent's messages are what its file gives back; an automatic retry
or rescue is bounded, removes nothing but failures and is carried through; every
`prompt()` returns; messages shown as queued are those that are; nothing is written to
the wrong session.

### The terminal around the session — `coding-agent/src/modes/interactive/interactive-mode.ts`

*State.* The texts that wait for the end of a compaction, the Escape handler of the editor and
three places where an earlier one is saved, the loader, the main loop that waits for a text.

*Operations.* Submitting a text (it waits for a compaction, steers a run or is the next
prompt), the flush of the waiting texts and its failure, taking queued texts back into the
editor, Escape, `/compact`, `/new`, `/resume`, and what the listener does on each event of the
session.

*Hard.* The session calls the listener in the middle of its own work; the flush does not
await the prompt it sends; the saved handlers belong to phases that may overlap or lag.

*Correct means.* A text the user enters is in exactly one place until the model has it, and
waits only for something that will send it; Escape acts on what goes on.

### Session store — `coding-agent/src/core/session-manager.ts`

*State.* A tree of entries in memory (`fileEntries`, `byId`, the leaf, the labels) and an
append-only JSONL file that is written only once the session has an assistant message.

*Operations.* Append an entry of each kind, move the leaf, branch with a summary, fork a
path into a new file, fork a file, open, create, reload.

*Hard.* A crash between or inside two lines; the deferred first write; opening a file
that is empty, partial or has a torn line; forks that drop entries from a parent chain.

*Correct means.* Nothing written is lost or written twice, a reload gives what memory
had, a fork has the whole path and its labels.

### Compaction — `coding-agent/src/core/compaction/compaction.ts`

*State.* None of its own: a function of the branch, applied again and again to branches
that hold its earlier results.

*Hard.* Three small walks over the entries decide where to cut; a turn may be cut in
two; a second compaction works on what the first one left.

*Correct means.* No tool result is separated from its call; the recent part is kept and
no more; everything else is in exactly one summary.

### The services and the parts around the session

| Part | Source | State | Hard | Module |
|---|---|---|---|---|
| Subagents | `../.pi/extensions/subagent-system/` | agents, slots, waiting spawns; a child process or a session per agent | a completion, a stop, a time-out and the exit of the child racing; a waiting spawn that is removed | `SubagentManager` |
| MCP pool | `../.pi/extensions/mcp/pool.ts` | one entry per server: client, idle timer, the attempt in progress | late `onclose` of an old client, disconnect during an attempt | `McpPool` |
| Background processes | `coding-agent/src/core/features/bg/` | processes by name, a ring of output lines | restart against a late exit, shutdown; wrap-around | `BgManager`, `RingBuffer` |
| Credentials | `coding-agent/src/core/auth-storage.ts` | tokens in memory and in a locked file | two processes refreshing one token that works once; a lock taken over | `AuthStorage` |
| Language servers | `coding-agent/src/core/features/lsp/` | a manager per session, clients by language | one server for several languages, overlapping starts, stop during start | `LspManager` |
| Task store | `coding-agent/src/core/features/task/` | tasks, dependencies, sprints, one file each, an archive | cycles, a crash between two files, ids used again | `TaskStore` |
| Settings | `coding-agent/src/core/settings-manager.ts` | two scopes in memory, marks of what changed, a queue of writes | a write merging into a file another process changed | `SettingsManager` |
| Slack bot | `mom/src/` | event files and timers; the log, the session and the queue of a channel | changes during a read; messages during a run or a restart, brought twice | `EventsWatcher`, `SlackChannel` |
| Provider messages | `ai/src/providers/transform-messages.ts` | none | failed replies, unanswered calls, ids of another model | `TransformMessages` |
| Terminal library | `tui/src/` | input buffer; editor with kill ring, undo and history; the lines last drawn | sequences cut anywhere; pops after a move; the rows the terminal has scrolled away | `StdinBuffer`, `Editor`, `Renderer` |
| Tool registry, extension runner, resource watcher, RPC mode | `coding-agent/src/core/`, `coding-agent/src/modes/rpc/` | tools by name; handlers; watchers; pending requests | shadowing, order and cancellation, a change during a reload, responses and events on one pipe | — |
| Model registry, resources, prompts, restrictions, print mode, wire formats, web UI, pods | | tables, text | little state; input and output | — |

`PROJECT.json` lists each of them with what is left out and, under `hazards`, the lines
where it can go wrong.

## The modules

Each module is one component. Variables have the names of the fields they stand for, an
action is the code between two awaits, named after its method, and the comment at each
variable says which field it is. Operators whose name ends in `_Something` are mutations: the
same definition with a plausible mistake in it, used to show that a property can fail.

| Module | Models | State ↔ code |
|---|---|---|
| `SessionManager` | the session store and the process that dies | `log` is every entry ever created and an id is a position in it; `fileEntries`, `leafId`, `labelsById`, `flushed` are the fields; `unmarked` is the labels that `labelsById` does not know, because their write has not returned or threw; `disk` is the lines of each file, `openTail` the files whose last line lacks its newline; `pending` is the rest of a synchronous write, so that `Crash` can fall between two lines |
| `AgentLoop` | one agent, its loop, the event stream and its consumer | `pc` is the await the loop is at; `context`, `pending`, `calls`, `processedCount`, `launched`, `running`, `results` are the locals of `runLoop` and `executeToolCalls`; `stream` is the queue of `EventStream` |
| `AgentLoop_proofs` | — | the types of `AgentLoop`, its queues and the execution of its tools; its conversation: the context of the loop, the event stream and what its consumer makes of it |
| `Conversation` | what an agent promises: each message of the user appears once, in the order of its queue, and the model speaks when it was spoken to | abstract: `sent`, `waiting`, `talk`, `open` |
| `AgentConversation` | `AgentLoop` implements `Conversation` | the mapping: `waiting` is the two queues, `talk` the context of the loop with the messages it is about to inject |
| `AgentConversation_proofs` | — | that it does, step by step |
| `Lists` | the filter of arrays, which the session store and the session use | — |
| `AgentSession` | the session around one agent | `events` is `_agentEventQueue`, `handler` what its one handler awaits, `compaction[w]` the compaction the handler, a prompt or the user is running, `timers` the scheduled `agent.continue()`, `pc[c]` the await of each `prompt()` |
| `InteractiveMode` | `AgentSession` with its user at the terminal | it extends `AgentSession`: an action is a step of the session and what the listener does on its event, or a key. `compactionQueue` and `onEscape` are the fields, `handlers` the saved handlers, `carried` the text of each `prompt()`, `batch` what a failed flush puts back; `typed`, `delivered`, `returned`, `dropped` are the fate of each text |
| `Compaction` | cut points, split turns, summaries, the context they leave | `path` is the branch; a summary is the set of messages whose content it carries |
| `SubagentManager` | slots, waiting spawns, foreground and background calls, both runtimes | an agent is named by its `spawn_agent` call; `child` is the events its process or session sends |
| `McpPool` | the entry of one server | `entry` is the `PoolEntry`, `pending` the attempt in `pendingConnections`, `clients` what each client ever built is doing |
| `BgManager` | background processes | `processes` and `procStatus` are the manager's, `os` is what the operating system knows |
| `RingBuffer` | the last lines of output | the fields; `pushed` is all lines |
| `AuthStorage` | one OAuth token shared by processes | `authFile`, `authData` of each process (a token, or none after a logout or when the file could not be read), the lock directory, `refreshing` the token each has sent |
| `LspManager` | managers over sessions, clients and server processes | `singleton` is `_manager`; a server is its process |
| `TaskStore` | tasks, sprints, archive | `store` is memory, `files` and `archive` the directories; an operation writes file by file with a crash or a failed write between; `unsaved` is what the store has otherwise than its file, after a failed write or a move on the board |
| `SettingsManager` | setters, marks, the queue of writes, reload | `memory`, `modified`, `writeQueue`; `missing` says that the first write found no file and has not locked it yet; `wanted` is the history of what was set |
| `EventsWatcher` | event files, debounce, reads with retries, timers | `notified`, `debouncing`, `reads`, `timers`, `live`; `stuck` is the contents whose file could not be removed, `over` those whose time has come |
| `SlackChannel` | one channel: backfill, queue, sync of the log into the session, runs, restarts | `sent` is the channel at Slack, `log` is `log.jsonl`, `entries` the session |
| `TransformMessages` | what a provider is sent | a function of `conversation` |
| `StdinBuffer` | the reassembly of keys and pastes | `buffer`, `pasteMode`, `pasteBuffer`; `emitted` the events |
| `Editor` | text, kill ring, undo, history | the fields; `beforeKills` and `beforeYank` remember the text |
| `Renderer` | the differential renderer and the terminal | `previousLines`, `hardwareCursorRow`, `maxLinesRendered`; `terminal` is external |
| `MCServices`, `MCWorkspace` | the small components, one run for all | the component is chosen in `Init`, the others keep their initial state |
| `Services_proofs` | — | `McpPool`, `BgManager`, `RingBuffer`, `AuthStorage`, `LspManager`, `SubagentManager`, and their composition in `MCServices` |
| `Workspace_proofs` | — | `SettingsManager`, `EventsWatcher` |
| `SessionManager_proofs` | — | the session store |
| `AgentSession_proofs` | — | the session around an agent |
| `InteractiveMode_proofs` | — | the terminal, with what the session proves |
| other `MC…` | — | the bounds for TLC |

How they relate: `AgentSession` has a coarse agent (a run is a sequence of replies and
deliveries with one queue) and a linear file without crashes; the detail of the one is in
`AgentLoop`, of the other in `SessionManager`, and its compaction keeps an arbitrary cut
point where `Compaction` computes it. `InteractiveMode` composes the session with the terminal
that listens to it and calls it. `AgentLoop` refines `Conversation`. The conversations
of `TransformMessages` are those `AgentLoop` leaves behind, cut anywhere; the file of
`SlackChannel` is written by the rule of `SessionManager`. The other components share no
state with each other in the code either, which is why one run can hold several of them
without their product.

Data is abstracted to what the properties tell apart: a message is a kind and a number, a
tool call is `"read"` (may run beside others) or `"write"`, the usage of a reply is its
kind (`"full"`: over the threshold; `"overflow"`, `"silent"`: over the window), the size of a
message is one of a few numbers.

## The runs

| Run | Question | Result |
|---|---|---|
| `loop_tools` | three tool calls of both kinds in two workers, steering, abort, one dropped failure: calls, results, events, and that each run ends | holds |
| `loop_queues` | three user messages, both queues, both modes, requests that throw: the loop implements `Conversation`; skips explained | holds |
| `loop_throw` | a run ends even if `getApiKey` throws | **fails** |
| `session_terminal` | a user at the terminal and clients of the session: as long as nothing disturbs the session, agent, display and files agree, no text is lost, sent twice or left waiting, Escape acts on what goes on | holds |
| `session_lively` | clients that prompt at any time, overflows, messages queued during a compaction, commands that interrupt a prompt: what must end well does | holds |
| `session_hangs` | every `prompt()` returns, fatal errors after a retry included | **fails** |
| `session_lost_prompt` | the agent has the messages of its file, prompts during a compaction included | **fails** |
| `session_store` | branches, labels, summaries, compactions and forks; crashes and failed writes between or inside lines; a version 1 file that is migrated | holds |
| `session_fork_label` | a fork has the whole path, labels on it or not | **fails** |
| `services` | subagents, MCP pool, background processes, ring, credentials, language servers, tasks | holds |
| `workspace` | compaction, settings, scheduled events, provider messages, terminal input, editor, renderer, Slack channel | holds |
| `compaction_forgets` | nothing is forgotten over two compactions | **fails** |

A property of a run is often a conjunction of named parts, given below in brackets; each
part can be put into a configuration alone.

### Properties

`AgentLoop`. `ToolCallsAnswered`: whenever a request goes out, every reply in it is
followed at once by one result per call, across groups, skips and runs. `ResultsComplete`: the
results of a turn are complete and in the order of the calls, though a parallel group
finishes in any order. `WritesRunAlone`: isolation of calls with side effects, and the
bound on workers. `ViewFollowsLoop` (`MessagesMatchContext`, `PendingCallsMatch`): the
consumer's view, built from late events, is the loop's. `IsConversation`: queues,
injection, clearing, aborts and failures together neither lose, double nor reorder a
message, a follow-up waits for the last word of the model, and the model is asked only when
the user or its tools spoke last. `SkipsAreExplained`: a call is skipped only
for a steering message that follows. `RunEnds`: a run reaches its `finally`.

`AgentSession`. `CopiesAgree` (`ContextMatchesFile`, `QueueMirror`). `ContextMatchesFile`: in a settled session the agent's messages are what
the file rebuilds, but for replies that a retry or a recovery took away.
`RemovesOnlyFailures`: nothing else is taken away. `RecoveryBounded` (`RetryBounded`,
`OverflowOnce`): retryable failures in a row are at most `maxRetries + 1`, and there is no
second rescue without a message or a good reply in between. `QueueMirror`: shown as queued
is queued.
These are stated as long as nothing *disturbed* the session: the history variable `disturbed`
records that two actors met where the code is known to go wrong (see
[divergences](#divergences-found)). These are, at the action that meets them: a prompt, a command
of the user or a second run that begins before the events of the last run are handled and every
recovery is over; a continue while a prompt of a client is under way; the end of a run while a
scheduled continue waits; a bash result recorded between two runs whose events are still handled; a
session that is exchanged with bash results or queued texts waiting, or for one whose last reply
overflowed. Every other interleaving is covered, and no action is guarded by `disturbed`: an event that comes
so late that it is written to another session, and a second automatic compaction that fails because
the first has cleared the controller they share, are steps of the model. Nothing is claimed for
the former, since the code has no rule that holds there. The
types, `TextsKept`, `EscapeActs` and the liveness properties do not mention it.
`PromptReturns`: every prompt returns. `CompactionResumes` (`RescueContinues`,
`KickDelivers`): an overflow compaction is followed by the retry, a message that waited for a
compaction is delivered.

`InteractiveMode`. `TextsKept` (`InOnePlace`: a text is in one queue, one call, the
conversation or the editor; `WaitsForFlush`: a text waits for a compaction only as long as one
runs). `EscapeActs`: Escape cancels a backoff or a compaction and interrupts a run. Some histories
are excepted because the code does what the properties forbid there, and each is recorded in a
variable and described under [divergences](#divergences-found): `dropped` (a text that is
nowhere any more), `again` and `restored` (what a failed flush put back), `crossed` (a handler
saved on top of another, an end without its start, a run that began unheard).

`SessionManager`. `Durable`, `ReloadEquivalent`, `AppendOnly`: the file has what memory
had, after any number of crashes, failed writes and a migration; what is missing is explained by
a fault, two entries for each at most; history is never rewritten. `PathsIntact`
(`UnlabelledHistoryIntact`, `KeptEntryOnPath`): forks and migrations leave the paths the
context is rebuilt from. `NoDuplicateLines`: what the deferred write and forks leave behind.
`LabelsAreCurrent`: the labels in memory are those of the label entries, over clearing, reloads,
forks and failed writes, but for the label being written and those whose write threw: the code
changes `labelsById` only after the write (`unmarked`).

`Compaction`. `CompactionSound` (`NoOrphanResults`: a result in the context has its call there;
`KeepsRecent`: the three walks of `findCutPoint` compute the first cut point that keeps less
than `keepRecentTokens` besides its own message — the reference definition the walk is
compared with — or, when the results at the end of the branch have that many tokens
by themselves, keep everything; `SummarisedOnce`: the two summaries of a split turn partition what is dropped
since the last compaction and repeat nothing that is kept).

`SubagentManager`. `SubagentsSafe` (`SlotsRespected`: a call that works in the foreground has
a slot, and no call waits while a slot is free; `OutcomeDelivered`: an agent leaves the working
agents only when its outcome is told, none stays among them with an outcome, and no call waits
for another agent — but for a foreground call whose agent's `start()` rejects (`Stranded`), of
which nobody is told; `ToldDoneOnce`: no completion is told twice, but of an agent that was
stopped while idle).

`McpPool`. `PoolCoherent` (`OneAttempt`: concurrent calls share one attempt, whatever
`disconnect()` does meanwhile; `NoLostCaller`: no call waits for an attempt that is over;
`EntryCoherent`: the entry says it is connected exactly while it has a client).

`BgManager`, `RingBuffer`. `BackgroundKept` (`ProcessesTracked`: a process nobody has signalled is
listed as running while pi lives, and what is listed as running lives; `KeepsTheLastLines`: the
ring gives the last lines pushed, empty, full and wrapped).

`AuthStorage`. `LockProtects`: as long as no lock is taken from a live holder, two processes
never refresh at once, a token is refreshed once, and a refresh never replaces a login nor undoes
a logout.

`LspManager`. `SharedServer`: in a manager the languages of one program share one server, however
starts, stops, failures and reloads overlap.

`TaskStore`. `TasksKept` (`NoCycle`; `FilesFollowStore`: a restart loads what memory had, but for
what a move on the board or a failed write left `unsaved`; `NothingVanishes`: a task nobody deleted
is in the store or in the archive, unless its copy in the archive could not be written).

`SettingsManager`. `ChangesPersist` (`OursPersist`: a change is in the file, in a waiting write
or marked for the next, or another process has changed the field; `TheirsPersist`: a field another
process changed is not overwritten, but by a write that found no file and did not look again).

`EventsWatcher`. `EventsFollowFiles` (`ScheduleFollowsFiles`: caught up, the timers are those of
the files on disk; `ExecutedOnce`; both but for files that could not be removed). `SlackChannel`. `ChannelIsRead` (`ReadsTheLog`: the model is
asked with every line of the log in its session; `ReadsOnce`: a sync adds no text twice).

`TransformMessages`. `CallsAnsweredOnWire`: every call has one result before the next message
that is none, under the id it is sent with. `StdinBuffer`. `InputReassembled` (`NothingLost`,
`KeysArriveWhole`). `Editor`. `EditsComeBack` (`CursorInText`, `KillsComeBack`, `YankIsExact`,
`UndoReachesTheStart`); the run checks both as `TypingKept`. `Renderer`. `ShowsContent`: after a
render the screen shows the content.

### Bounds, and why they are enough

- `loop_tools`: three calls, so that a group of two can stand before or after a write
  and a limit of two workers binds; two user messages, one to start and one to interrupt;
  one turn with tools, one dropped failure. `loop_queues`: three messages, so that two
  wait at once and the modes `all` and `one-at-a-time` differ; two calls, so that one can
  be skipped. Turns after the first are like it: the loop carries nothing over but the
  queues and the context.
- `session_terminal`, `session_lively`: a behaviour starts with one of several *budgets*
  (`Budgets`, chosen in `Init`, in `MCInteractiveMode` and `MCAgentSession`), the number of inputs
  of each kind that may still come. One budget per combination that matters keeps the product of all
  inputs out of one state space. Two prompts, so that one meets what the other left; four
  retryable failures with `MaxRetries = 1`, so that the attempts run out twice; two
  overflows, for the second rescue; three queued messages and two full replies, for a kick
  that meets another compaction. `overlap` in a budget lets clients start before the
  session has settled.
  For the user at the terminal two or three texts around one or two compactions, with retries,
  overflows, `/compact`, `/new`, `/resume`, Escape and dequeue in turn; three calls of `prompt()`,
  one of the main loop and two of flushes, so that two flushes may overlap. One `/compact` at a
  time; a third text behind a rejected flush is modelled but not reached.
- `session_store`: a behaviour starts with one of several *scopes* in the same way. Without
  faults four entries and two files, enough for a fork of a path with a label and a parent
  chain through it; with one crash or failed write three entries, labels among them, so that the
  write of a label fails and is repeated by a later flush; with two faults two entries; a
  version 1 file with a fault in its migration.
- `services`: two agents for one slot, so that one waits, and two disturbances (a stop, a
  time-out, an exit, a rescue) that meet; three calls, two disconnects and three clients of one
  server, for a late `onclose` of a first client while a second is replaced; two names and four
  processes, for a restart of what still ends; a ring of three cells and eight lines, for two
  wraps; two processes and three tokens, each process with or without the token at its start; three
  languages on two programs, so that two share one; three tasks with dependencies and no fault; or
  one or two tasks, sprints and one crash or failed write, one of them with the board (`TaskScopes`).
  `NoCycle` is checked without faults: a task whose file a failed write left behind may come back
  with a link the others do not know of.
- `workspace`: branches of six entries of sizes 1 and 3 with `KeepRecent = 3`, so that a
  turn can be cut at a call, a result or a setting and be compacted again, whatever the branch ends
  with; two fields, two
  changes by each side and one failed write, so that a write merges into a file that is not
  the one it was based on; one event file with two contents and two overlapping reads;
  conversations of five messages with two calls; two keys of every kind, cut into any
  chunks; an editor of three characters, a ring of two entries, three snapshots; four lines
  on two rows, so that the screen scrolls and shrinks back; two to three Slack messages with
  a message brought twice, a restart, or an event.

Deadlock is not checked: all these systems may stop, when the bounds are used up or when
the user does nothing more. Symmetry (files) is used for safety only.

### Fairness

The event loop runs every continuation that is ready, so the loop, its consumer, the
handler and the timers are weakly fair. A provider answers and a tool returns (both have
time-outs or an abort signal), so replies and completions are too. Nothing is assumed of
the user: no prompt, abort or command need ever come. In `session_lively` the replies are
whatever the budget allows, so a provider may fail as often as the budget says.

## What is proved

Each theorem is about every behaviour of the component's specification and every value of its
constants; the run named in `PROJECT.json` checks the same property on a small instance.

| Module | Theorem | States |
|---|---|---|
| `AgentLoop_proofs` | `TypeCorrect` | `Spec => []TypeOK` |
| | `WritesRunAloneAlways` | `Spec => []WritesRunAlone` |
| | `ResultsCompleteAlways` | `Spec => []ResultsComplete` |
| | `ToolCallsAnsweredAlways` | `Spec => []ToolCallsAnswered` |
| | `SkipsAreExplainedAlways` | `Spec => []SkipsAreExplained` |
| | `ViewFollowsLoopAlways` | `Spec => []ViewFollowsLoop` |
| `AgentConversation_proofs` | `ConversationImplemented` | `Spec => IsConversation`, the refinement |
| `SessionManager_proofs` | `StoreInvariant` | `Spec => []StoreInv` |
| | `StoreTypeCorrect` | `Spec => []TypeOK` |
| | `LabelsStayCurrent` | `Spec => []LabelsAreCurrent` |
| | `FilesAppendOnly` | `Spec => AppendOnly` |
| | `NoDuplicateLinesAlways` | `Spec => []NoDuplicateLines` |
| | `DurableAlways` | `Spec => []Durable` |
| | `ReloadEquivalentAlways` | `Spec => []ReloadEquivalent` |
| | `PathsStayIntact` | `Spec => []PathsIntact` |
| `AgentSession_proofs` | `SessionSafe` | `Spec => []SessionInvariant` |
| | `SessionTyped` | `Spec => []TypeOK` |
| `AgentHistory_proofs` | `SessionRemembers` | `Spec => []SessionHistory` |
| | `SessionAgrees` | `Spec => []CopiesAgree` |
| | `SessionRecovers` | `Spec => []RecoveryBounded` |
| | `SessionKeepsReplies` | `Spec => RemovesOnlyFailures` |
| `InteractiveMode_proofs` | `TerminalSafe` | `TerminalSpec => []TerminalInvariant` |
| | `TerminalTyped` | `TerminalSpec => []TerminalTypeOK` |
| | `TerminalRemembers` | `TerminalSpec => [](TerminalInvariant /\ SessionHistory)` |
| | `TerminalAgrees` | `TerminalSpec => []CopiesAgree` |
| | `TerminalRecovers` | `TerminalSpec => []RecoveryBounded` |
| | `TerminalKeepsReplies` | `TerminalSpec => RemovesOnlyFailures` |
| | `EscapeSafe` | `TerminalSpec => []EscapeActs` |
| `Services_proofs` | `PoolCoherentAlways` | `PoolSpec => []PoolCoherent` |
| | `ProcessesTrackedAlways` | `BgSpec => []ProcessesTracked` |
| | `KeepsTheLastLinesAlways` | `RingSpec => []KeepsTheLastLines` |
| | `BackgroundKeptAlways` | `Spec => []BackgroundKept`, of the composition `MCServices` |
| | `LockProtectsAlways` | `AuthSpec => []LockProtects` |
| | `LspTypeCorrect` | `LspSpec => []LspTypeOK` |
| | `SharedServerAlways` | `LspSpec => []SharedServer` |
| | `SubagentsSafeAlways` | `SubSpec => []SubagentsSafe` |
| `Workspace_proofs` | `ChangesPersistAlways` | `SettingsSpec => []ChangesPersist` |
| | `EventsFollowFilesAlways` | `EventsSpec => []EventsFollowFiles` |
| | `EventsInvAlways` | `EventsSpec => []EventsInv` |

### Assumptions

Only those the modules declare about their constants, which TLC evaluates on every run. Bounds
are natural numbers (at least one client, one manager, one place in the queue of events, one cell
of the ring); the modes of a queue are the two there are; there is at least one worker; the
word that stands for "no process" is not a process (`AuthAssumption`). Nothing is
assumed about the environment beyond the actions.

### The arguments

None of the properties is inductive as it stands. Each module states, after its
properties, the invariant that is, and the proof has one lemma for the initial states and
one for each action. The invariants were checked by TLC on the instances of the runs before
they were proved.

*Tools of the loop* (`IInv`). That a group of calls running side by side contains no write
depends on which group was launched, and that the results are complete at the end depends on
each step having added those of exactly the calls it processed. `GroupRuns` says so: results are
there for exactly the first `processedCount` calls, in order; outside the phase `tools`
nothing runs; in it the running calls lie between `processedCount` and `launched`, and
`launched` stays inside the group of the first unprocessed call, whose calls are
all read-only if the group is parallel, while their number is at most `Concurrency`.

*Conversation of the loop* (`QueuesInv`, `StreamInv`, `ViewInv`). The context of the loop and
the messages of the agent differ most of the time: events wait in the stream, and the results of
a turn reach the stream as the calls return but the context only when all are there. The proof
follows the `view`, what the messages will be once the consumer has read the stream
(`Catches`). Outside of a turn's tools the view and the context agree, all calls are
answered in both and every skipped call is followed by a steering message (`Settled`). During
the tools both end with the same reply after such conversations, and the view has besides
exactly the results of the calls that were launched and do not run any more
(`Answering`). The queues matter because a skip must be explained: what is taken from
`steeringQueue` was sent to steer (`QueuesInv`), and the consumer's set of pending calls is
the one that the loop runs once the stream is read (`StreamInv`). A steering message found in the
middle of a turn is the only one that may wait beyond the head of the next turn.

*Refinement* (`AskedInv`). Every action of `AgentLoop` is mapped to a step of `Conversation` or
to a step that leaves it alone: a start to `Start` or `Continue`, a poll to a delivery of the
first messages of a queue, a reply to `Speak`, the end of a run to `Finish`, and the
head of a turn, the tools and the consumer to nothing, because `talk` counts the messages
that wait to be injected and leaves out the results. What has to be known besides is
when the model has to speak: `hasMoreToolCalls` or a pending message at the head of a turn,
always when it is asked, never when the run is over. `Items` is a recursive
function; that it exists is proved by the least conversation for which it would not, and
lemmas say what it makes of a concatenation, of results, and of conversations that
differ in the order of results only, so that at the end of a run the agent's messages may
take the place of the context.

*Session store* (`StoreInv` and, on top of it, one invariant for each question). `StoreInv` has
the types, a tree whose parents are older than their children, labels in memory that are those
of the list but for what is being written or failed, and version 1 files nobody writes to before they are migrated. The filters of a
list and the branch of a leaf are recursive functions; that they exist, and what they make
of a list with one entry more or of two lists put together, is shown by the least number for
which it would fail. `CleanInv`, without faults: the file of a session is what has been written
of its list so far, nothing before the first assistant message, everything after it, so a line
that is written is new. `SavedInv`: an entry of the list that is neither on disk nor about to be
written nor in a failed write was on a torn line; a torn tail is counted with the fault that
opened it, which is why one fault costs two entries and not more. `ReloadInv` says how a file
stands to its list: an entry is given up, or nothing is written yet, or the file is the list
after lines of the same list that an earlier attempt wrote; what is repeated comes first, so
the last entry and the last label of each target are the ones of memory. `PathInv`: the leaf is in
the list; the entries of a version 1 file are no parents of others before its migration; the entry
a compaction keeps from is on its path; and without a fault every list is closed under
parents up to the labels a fork drops.

*Session* (`SessionInvariant`). The phases hold always: a compaction exists exactly while its
worker is in it, the call that runs is the owner of the run, and the session listens exactly when
no command is in progress. As long as nothing disturbed the session it is *settled* besides.
`Calm`: at most one of the run, the handler's recovery, a timer, a command and a `prompt()` before its
run is under way. `EventsInOrder`: `agent_end` is the last of the waiting events and comes only after
the run. `Sorts` and `Home`: what is queued, shown, waits as bash result or as event is of the current
session, so that what a handler writes late is in the right file; `Past`: it is older than
the clock, and a summary younger than the entries before it. Every action is reduced to what it does
to the lists of the session (`SessionStep`, `Sources`), so that the terminal can reuse the
proof with actions of its own.

*What the session remembers* (`SessionHistory`, on top of `SessionInvariant`). The file lags behind
the agent's messages, because events wait. The proof looks at the `Log`: the entries of the file and
after them the messages whose events wait. A handler that writes an entry leaves it as it is, a run
that says something makes both longer, and every step is one of six (`Story`): nothing changes, the
same is added to both, a removable reply is taken from the messages, a summary is written and the
messages are rebuilt, the session is left, or another is read. So `Mirror`, that the messages are what
the log gives back up to removable replies, is inductive, and when nothing waits it is `CopiesAgree`.
`FinalReply` says that the reply of a run that ends, or whose end waits, is the last message of the agent
and the one the handler will look at, which is why only that one is removed (`RemovesOnlyFailures`).
`Retries`: a log never has `MaxRetries + 2` retryable failures in a row; while a run goes on or is
to go on it ends in no more of them than attempts were counted (`Awaited`), and in one more once the
run fails (`Failing`). `Rescues`: a rescue that nothing has answered is the last one, and either the flag
`overflowTried` is set, or the session rests and no overflow has come since, so that the next
overflow is a new one (`Rescued`); a rescue under way was the only one (`Rescuing`). `Mirrored`: of the
user's messages whose events wait some were never shown; the others are the first ones shown, and
what is shown after them is the queue. The terminal inherits all of this because each of its turns is
a `SessionStep`.

*Terminal* (`TerminalInvariant`, `Acting`). What waits for a compaction, is carried by a `prompt()`
or put back by a failed flush was entered; as long as nothing disturbed the session, no text waits
twice, nor in the queue and in a `prompt()` at once, and nothing runs when waiting texts are flushed. `Acting` says, for
histories in which no handler was saved on top of another, that the editor has the handler of what
goes on, that each place of a saved handler is filled in its phase only, and that a run whose start
the listener has read has the loader.

*Subagents* (`SubInv`). The slots in use are those of the calls that were granted one, so the
count can be compared with the limit after any release; a working agent has a call that follows it,
or was told its outcome, or its `start()` rejected under the call (`AgentStarts`: there is no child
before that, so no later event reaches it); a completion that was announced is not announced again while the
agent's turn has not begun anew.

*MCP pool* (`PoolInv`): while an attempt is under way the entry has no client. *Background
processes* (`BgInv`): a name stands for a process that was spawned, and disposing of the manager
told every process to end. *Ring buffer* (`RingInv`): the cell filled j pushes ago holds the j-th
last line, for the j that are counted, whichever way the head wrapped. *Credentials*
(`AuthInv`): while no lock is stolen, who waits for the provider holds the lock and the file still
has the token it replaces; a token that was replaced is neither in the file nor still to come. *Language
servers*: `LspTypeOK` and `SharedServer` are inductive together, because a start looks for the
program among the languages of its own manager.

*Settings* (`SettingsInv`, field by field): a marked field has the wanted value in memory; the last
waiting write that carries a field carries the wanted value; a field that another process
changed is carried by no waiting write; a file that is not there says nothing, so that a write that
found none takes no value of the user away.

*Event files* (`EventsInv`): the timers of a file are the ones the watcher tracks, and what is
scheduled is the content of the file unless a read, a debounce or a notification is still to
come, or its file could not be removed; a version that was executed or waits in the queue is held by
no timer.

Three proofs failed for a good reason and corrected the model: `EventsInit` gave two
files of the start the same version; `AbortCall` aborted a call that did not wait in the queue; and
`ToldDoneOnce` does not hold of an agent stopped while idle (see
[divergences](#divergences-found)).

### Only model-checked

- *Liveness* (`RunEnds`, `PromptReturns`, `CompactionResumes`): the prover has no rules for
  fairness and `ENABLED`.
- *What folds and recursive functions compute*: the walks of `Compaction`, the text of `Editor` and `StdinBuffer`, the rows of `Renderer`, the
  replay of `TaskStore`, the sync of `SlackChannel`, the pass of `TransformMessages`. That needs
  induction over data. A recursive function over numbers can be had from a least
  counterexample, as `Items` and the branch of a session were; the folds and the recursive operators of the library cannot, and
  these are checked over bounded inputs.
- *Not proved yet*: `TextsKept` of `InteractiveMode`, and the type invariants of the small
  components and `TypingKept` in the compositions `MCServices` and `MCWorkspace` (see [the plan](#the-plan)).

## Divergences found

Five have a run whose counterexample shows it:

1. **A fork loses the entries above a label** (`session_fork_label`). `createBranchedSession`
   (`session-manager.ts:1179`) drops label entries and keeps `parentId`s that name them.
2. **A throwing `getApiKey` freezes the agent** (`loop_throw`). The rejection at
   `agent-loop.ts:219` leaves the stream open, `_runLoop` waits for ever and `isStreaming`
   stays true.
3. **A fatal error after a retry leaves `prompt()` waiting** (`session_hangs`). The retry
   promise is resolved by success, exhaustion and abort, not by an error of another kind
   (`agent-session.ts:547`).
4. **A prompt sent during an automatic compaction disappears** from the agent's messages
   (`session_lost_prompt`): they are replaced by those of a file that does not have it yet
   (`agent-session.ts:2210`).
5. **A second compaction forgets what the first one kept** (`compaction_forgets`): it starts
   after the previous compaction *entry* (`compaction.ts:546`), and the kept messages stand
   before it.

Others were met while modelling. The models contain them, except where it is said that they
do not, and the properties are stated so that they exclude them, or the inputs that lead to
them are left out.

*Session store, agent and session.*

- A session opened on an empty file gets a second header line with its first assistant
  message (`session-manager.ts:716`, then `810`).
- `labelsById` changes after the write of the label returned: when the write throws, the
  entry is in `fileEntries` and `getLabel` does not know it; a fork drops it, and a reload after a
  later flush has repeated it shows it (`session-manager.ts:1022`).
- A migration whose rewrite throws in a process that switches sessions leaves the new
  `fileEntries` with the index, labels and leaf of the old session (`session-manager.ts:724`; not in
  the model, where such a process ends).
- `branchWithSummary` stores the entry it moves to in `fromId` (`session-manager.ts:1157`);
  `docs/tree.md:100` says it is the leaf that was left.
- A torn *header* line makes the next open count the file as empty and truncate it
  (`session-manager.ts:716`): all of the session is lost, not two entries. `AppendOnly`
  excludes torn files.
- A follow-up queued between the last poll of the queues (`agent-loop.ts:186`) and `agent_end`
  stays in the queue of an idle agent until the next prompt.
- After a silent overflow (a complete reply with a usage over the window) the rebuilt
  messages end with that reply and the retry is refused (`agent-session.ts:2233`); if the
  compaction fails instead, the reply is gone from the agent.
- `abortRetry` cancels the backoff only; before the handler reaches it, or between its end
  and the scheduled `continue()`, the retry happens all the same (`agent-session.ts:2752`).
- `switchSession` clears the displayed queue, not the agent's (`agent-session.ts:2919`), and
  events or bash results that are still waiting go to the new file (`agent-session.ts:1613`).
- A delivered message is removed from the display by its text (`agent-session.ts:462`), which
  removes the wrong one when two texts are equal. The model has no equal texts.
- The late handler of a retry removes the last reply of the agent even if another run
  has added it (`agent-session.ts:2713`).
- The threshold check before a prompt uses the usage of a reply from before the last
  compaction (`agent-session.ts:2104`) and may compact twice.
- With a handler that lags, one overflow is recovered from twice, and the second recovery takes
  a good reply of a newer run out of the agent's messages (`agent-session.ts:2095`).
- A prompt whose message a compaction removed and whose request then fails is never continued:
  its `prompt()` waits until the user cancels.
- A manual compaction does not continue for steered messages that wait; a run that begins while
  `/compact` has disconnected the session is heard by nobody: no loader, Escape does nothing.
- Bash results recorded during a run wait for the next `prompt()`, not for `agent_end` as
  the comment at `agent-session.ts:2845` says.
- Automatic compactions share one controller field: what the first one clears is a `TypeError` for
  the second, reported as a failed compaction (`agent-session.ts:2199`, `2267`), and a cancellation
  reaches only the last one that began.
- When the results at the end of a branch alone have `keepRecentTokens`, after a `/compact` in
  the middle of a run or a crash, no cut point follows them and the cut stays at the first one:
  the compaction keeps everything and has nothing to summarise (`compaction.ts:391`).
- A split turn without a history to summarise replaces the previous summary by "No prior
  history." (`compaction.ts:649`).
- A cut at a user message that a setting or label precedes counts as a split turn
  (`compaction.ts:431` looks at the entry after the scan back), so that the whole turn
  before goes into the turn summary.

- A fork of a version 1 file copies its entries as they are under a version 3 header
  (`forkFrom`). A crash in the rewrite of a migration loses the lines that were not written
  yet (`session-manager.ts:724`); a rewrite that fails in a fork leaves a file without
  header, which the next open truncates. After a failed append later entries name a parent
  that is not on disk (`session-manager.ts:825`).

*Terminal around the session.*

- A text entered while the main loop still waits for its prompt and no run streams (the
  pre-flight of a prompt, the backoff of a retry) is dropped; only the history keeps it
  (`interactive-mode.ts:2659`).
- A flush whose prompt is rejected, because a continued run was faster or because the text was
  entered during the compaction of another prompt, puts all its texts back, those delivered
  meanwhile too, clears the session's queue, and nothing sends them before another compaction
  ends (`interactive-mode.ts:3671`). The status says "Queued message for after compaction".
- `/compact` during a backoff leaves the handler of the retry in place for good: Escape
  interrupts no later run (`interactive-mode.ts:5178`, `5219`).

*Subagents and MCP pool.*

- A `start()` that rejects is handed to the manager and not to the listener of the tool call
  (`agent-manager.ts:711`): a foreground `spawn_agent` whose child could not be started waits, with
  its slot, until it is aborted, and then says that results will follow. The comment at line 687
  says "so the TUI and main agent are properly notified instead of hanging forever."
- An agent that is stopped while it is idle may begin one more turn before its child is killed; it
  then counts as working, and its completion is told a second time
  (`subprocess-agent.ts:337`).
- `destroyAll` empties the queue of waiting calls without an answer to them: such a
  `spawn_agent` waits for ever (`agent-manager.ts:466`).
- A stop of a working child process may be followed by a "completed"; a failed start is
  reported twice; a stop between two turns counts as graceful and its outcome is told to nobody.
- A compaction or a failed retry after `agent_end` cancels the timer that completes a child
  (`subprocess-agent.ts:574`), and the agent never completes.
- A slot is lost when the spawn throws, and when a foreground agent is moved to the
  background. `destroyAll` leaves the number of active slots negative, and lets an agent that is
  still being resolved spawn afterwards.
- The end of a `disconnect()`, or the late `onclose` of an old client, overwrites the entry
  of a newer client, which then runs unknown to the pool (`pool.ts:236`); so does a connect
  that ends after `disconnectAll`. The idle timer is not stopped during a call, and a client
  that is closing may be handed out.

*Processes, credentials, language servers.*

- `child.killed` is true as soon as a signal was sent, so the SIGKILL that should follow
  SIGTERM never comes, and a restart may run two processes of one name
  (`bg/manager.ts:196`). `dispose` forgets the manager, so that the handler of the exit
  kills nothing.
- `lockSync` takes a lock over after 10 s, the asynchronous holder renews it every 15 s: a
  live refresher can lose its lock (`auth-storage.ts:352`). A login during a refresh of the
  same process is overwritten.
- From the second session on the tools ask a new manager of language servers while the
  session's start and stop know the first one (`lsp/index.ts:46`); `killAll` gets no further
  than its first await. `ShutdownStopsAll` states what the code's comment promises.

*Tasks and settings.*

- After an archive or a deletion ids are used again, and a later archive overwrites the
  first task (`store.ts:265`; `ArchivePreserved`). `start_sprint` saves one of the two sprints it
  changes (`task.ts:532`). A task file that cannot be parsed is skipped by a load, and
  the save that follows removes it. The command and the tool archive differently.
- A task that is moved on the board of `/board` is changed in the store only and not saved
  (`kanban-board.ts:287`, `commands.ts:50`). A failed write of the archive is caught, and the tasks
  are dropped all the same (`storage.ts:374`, `task.ts:287`): they are in no file.
- A write that finds no settings file takes the lock after it has computed its text, and
  overwrites what another process put there in between (`settings-manager.ts:163`).
- A field whose write failed is forgotten if an earlier write has cleared its mark; a reload
  drops all marks; a change while the file could not be loaded is never written; a crash in
  `writeFileSync` leaves an empty file.

*Slack bot.*

- Two overlapping reads of one event file set two timers, one of which nobody can stop; a
  file deleted while it is read is scheduled all the same; so is one read across `stop()`. A
  one-shot event that fires deletes a newer version of its file. One more than 2^31-1 ms ahead
  fires at once (`events.ts:289`; not in the model).
- An event file that cannot be removed is forgotten and stays: an immediate event is executed again
  at its next notification, a one-shot has no timer any more (`events.ts:369`).
- A user's second "yes" in the channel never reaches the session (`context.ts:116`); the
  prompt of a user without a known name is synced a second time (`agent.ts:605`); a stop that
  comes before the request does nothing (`main.ts:287`); what is sent between the backfill and the
  connection is lost (`slack.ts:479`); messages brought twice are logged twice.

*Terminal and RPC.*

- An incomplete sequence before a paste is dropped (`stdin-buffer.ts:308`); a time-out inside
  the paste marker turns the paste into keys.
- `$&`, `$1` and the like in a pasted text are interpreted when its marker is expanded
  (`editor.ts:1249`; not in the model). The kill ring survives a submit, the numbering of
  pastes does not.
- A change above the rows on the screen but below `previousLines.length - height` is drawn on the
  wrong rows (`tui.ts:1335`); content that shrinks to nothing leaves its first line.
- Scrolling down at the last offset does not turn auto-follow on (`scroll-controller.ts:97`;
  not in the model). RPC answers an unknown command, and one that throws, without the id of
  the request (`rpc-mode.ts:603`; not in the model).

*Output of commands (read, not modelled).*

- More than 2000 short lines under 50 KB are truncated without a file, and the notice names an
  undefined path (`tools/bash.ts:265`). The rolling buffer drops whole chunks; after a chunk over
  the limit what is left may be under it, and the cut is not announced (`tools/bash.ts:222`,
  `bash-executor.ts:128`). The line numbers of the notice are those of the rolling buffer.

## What is not modelled

In the modelled parts: streaming updates and the transformation of the context
(`AgentLoop`), runs that overlap because a listener prompts again before `finally`
(`agent.ts:495`); custom messages, extension commands and hooks, tree navigation and fork of
a live session, models, thinking levels and tools (`AgentSession`); bash mode, selectors,
dialogs, extension commands, follow-ups apart from steering, and all drawing
(`InteractiveMode`); the in-memory mode,
listing and search, a rewrite that throws in a process that lives on (`SessionManager`); texts of summaries, file lists and usage estimates
(`Compaction`); messages between agents and their limits, hooks and usage
(`SubagentManager`); notifications (`BgManager`); API keys and other providers (`AuthStorage`); the protocol
with a server (`LspManager`); groups, notes, import, sync, the state `in_review` and
the priorities set on the board, the reconstruction of the store when a session is forked (`TaskStore`); the merge of the two scopes
(`SettingsManager`); what the bot posts, attachments, several channels (`SlackChannel`);
layout, overlays, the alternate screen, completion and key bindings (`Editor`, `Renderer`;
the height of the terminal does not change); chunks that come as a single byte over 127, which is
turned into Escape and a character (`stdin-buffer.ts:263`), an empty chunk, which is handed on as
an empty event (`276`), and `clear()` at the end of the terminal's use (`StdinBuffer`). The wire formats of the providers are input and
output. Undefined behaviour does not arise: the code is single-threaded JavaScript.

The other parts are listed in `PROJECT.json`. Most of this repository by lines is text
that has no state machine: generated model tables, the components and selectors of the
interactive mode, the web interface, themes, the providers' wire formats, compiled copies of the
sources (`.js` beside `.ts`), and examples. What could still be modelled is in the plan.

## The plan

In this order; the first four blocks are done.

1. `SessionManager`, `AgentLoop`, `AgentSession`, `Compaction`; proofs about `AgentLoop`.
2. *Abstract specification and faults.* `Conversation`, refined by `AgentLoop`; failed writes and
   migration in `SessionManager`.
3. *Services, files and streams*, small modules that share two runs.
4. *The user around the session.* `InteractiveMode`, composed with `AgentSession`.
5. *Proofs.* Done: the tools and the conversation of `AgentLoop`, the services, the settings,
   the event files, the subagents, the refinement of `Conversation`, the session store, the types of
   the session and the terminal, all safety of the session, `EscapeActs`. Left: `TextsKept` of the
   terminal; `SummarisedOnce` of `Compaction`.
6. *More of the session.* Tree navigation and fork of a live session with the summary of
   the abandoned branch, custom messages, extension hooks that cancel; overlapping runs in
   `AgentLoop`.
7. *The remaining parts with state.* RPC (requests, answers and events on one pipe), the
   tool registry, the extension runner, the resource watcher. The two runs of small
   components have little time left, so these would need smaller bounds there or take the
   place of something shown by a proof.
