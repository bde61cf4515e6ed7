--------------------------- MODULE SubagentManager ---------------------------
(***************************************************************************)
(* The subagents of one pi process (.pi/extensions/subagent-system):       *)
(* AgentManager with its pool of slots (core/agent-manager.ts), the        *)
(* spawn_agent tool that waits for a foreground agent (index.ts) and the   *)
(* two kinds of agents, a child process in RPC mode                        *)
(* (runtime/subprocess-agent.ts) and a session in the same process         *)
(* (runtime/inprocess-agent.ts).                                           *)
(*                                                                         *)
(* An agent is named by the spawn_agent call that creates it. The child    *)
(* is modelled by the events it sends: its runs and turns, a rescue (a     *)
(* retry or a compaction) after a run, its exit. An event is handled when  *)
(* it arrives; how long it was in the pipe makes no difference.            *)
(*                                                                         *)
(* Left out: hooks, messages between agents and their limits, usage,       *)
(* prompts, colours, display events. "thinking" is "working".              *)
(***************************************************************************)
EXTENDS Integers, Sequences, FiniteSets, SequencesExt

CONSTANTS
  Agents,         \* the spawn_agent calls, and the agents they create
  MaxConcurrent,  \* AgentManager.MAX_CONCURRENT
  MaxTurns,       \* bound on the turns of one agent
  MaxShutdowns,   \* bound on session_shutdown
  MaxDisturbances \* bound on what comes from outside, see SubNext

ASSUME SubAssumption ==
  /\ IsFiniteSet(Agents)
  /\ MaxConcurrent \in Nat \ {0}
  /\ MaxTurns \in Nat
  /\ MaxShutdowns \in Nat
  /\ MaxDisturbances \in Nat

VARIABLES
  call,               \* where the execute() of each spawn_agent call is
  result,             \* what it returned
  background,         \* params.background of each call
  runtime,            \* runtimeMode of each handle
  activeSlots,
  slotQueue,
  agents,             \* the managed agents that work
  completedAgents,    \* those that are shown until their removal
  removalTimers,
  foregroundAgents,
  completionNotified,
  status,             \* handle.status
  phase,              \* where start() is
  session,            \* what the child, or the session, is doing
  killed,             \* agents with proc.killed
  active,             \* hasReceivedActivity
  activityTimer,
  completionTimer,
  killTimer,          \* abort() has scheduled killProcess()
  turns,              \* turns of each agent, for the bound
  messages,           \* the pi.sendMessage() calls for each agent
  graceful,           \* agents stopped while "idle"
  destroyed,          \* agents dropped by destroyAll()
  shutdowns,
  disturbances

slotVars    == <<activeSlots, slotQueue>>
managerVars == <<agents, completedAgents, removalTimers, foregroundAgents,
                 completionNotified, messages>>
timerVars   == <<activityTimer, completionTimer, killTimer>>
childVars   == <<session, killed, active, turns>>
ghostVars   == <<graceful, destroyed, shutdowns>>
subVars     == <<call, result, background, runtime, slotVars, managerVars,
                 status, phase, childVars, timerVars, ghostVars, disturbances>>

Final    == {"completed", "error", "aborted"}
Statuses == Final \cup {"idle", "working"}
Phases   == {"none", "resolving", "boot", "prompting", "rejected", "stranded", "started"}
Sessions == {"none", "idle", "prompted", "turn", "between", "ended", "rescuing", "finished",
             "unborn", "gone"}
Managed  == agents \cup completedAgents

-----------------------------------------------------------------------------
(* The pool of slots *)

\* Mutation: the waiter is not woken.
ReleaseSlot_NoWakeUp(a, res) ==
  /\ result' = [result EXCEPT ![a] = res]
  /\ activeSlots' = activeSlots - 1
  /\ call' = [call EXCEPT ![a] = "returned"]
  /\ UNCHANGED slotQueue

\* releaseSlot(): the slot goes to the first waiter if there is one.
ReleaseSlot(a, res) ==
  /\ result' = [result EXCEPT ![a] = res]
  /\ IF slotQueue = <<>>
     THEN /\ activeSlots' = activeSlots - 1
          /\ call' = [call EXCEPT ![a] = "returned"]
          /\ UNCHANGED slotQueue
     ELSE /\ slotQueue' = Tail(slotQueue)
          /\ call' = [call EXCEPT ![a] = "returned", ![Head(slotQueue)] = "granted"]
          /\ UNCHANGED activeSlots

\* The event listener of a foreground call: a final event ends the call.
Settle(a, kind) ==
  IF call[a] = "foreground"
  THEN ReleaseSlot(a, IF kind \in {"completed", "graceful"} THEN "done" ELSE "failed")
  ELSE UNCHANGED <<call, result, slotVars>>

-----------------------------------------------------------------------------
(* The events of an agent *)

Running(a) == session[a] \notin {"none", "unborn", "gone"}

\* Whether the manager acts on an event of the agent.
Handles(a, kind) ==
  /\ a \in Managed
  /\ kind = "completed" => a \notin completionNotified

\* Mutation: foreground agents are announced like the others.
Announces_Always(a, kind) ==
  /\ Handles(a, kind)
  /\ kind # "graceful"

\* Mutation: only the agents spawned in the background are announced.
Announces_Background(a, kind) ==
  /\ Handles(a, kind)
  /\ kind # "graceful"
  /\ background[a]

\* Whether the main agent gets a message about it.
Announces(a, kind) ==
  /\ Handles(a, kind)
  /\ kind # "graceful"
  /\ a \notin foregroundAgents

\* handleAgentEvent() of a final event (onAgentTaskDone, onAgentFailed,
\* onAgentAborted, onAgentGracefulShutdown): the manager's part of it.
HandleAgentEvent(a, kind, newStatus) ==
  LET handled == Handles(a, kind)
      With(S) == IF handled THEN S \cup {a} ELSE S
  IN
  /\ status' = [status EXCEPT ![a] =
                  IF handled /\ kind = "completed" THEN "completed" ELSE newStatus]
  /\ agents' = IF handled THEN agents \ {a} ELSE agents
  /\ completedAgents' = With(completedAgents)
  /\ removalTimers' = With(removalTimers)
  /\ completionNotified' =
       IF kind = "completed" THEN With(completionNotified) ELSE completionNotified
  /\ foregroundAgents' =
       IF handled /\ kind # "graceful" THEN foregroundAgents \ {a} ELSE foregroundAgents
  /\ messages' =
       IF Announces(a, kind) THEN [messages EXCEPT ![a] = Append(@, kind)] ELSE messages

\* emitAgentEvent() of a final event: the manager's handler first, then the
\* listener of the tool.
Report(a, kind, newStatus) ==
  /\ HandleAgentEvent(a, kind, newStatus)
  /\ Settle(a, kind)

Silently(a, newStatus) ==
  /\ status' = [status EXCEPT ![a] = newStatus]
  /\ UNCHANGED <<call, result, slotVars, managerVars>>

-----------------------------------------------------------------------------
(* spawn_agent *)

\* execute() up to acquireSlot().
SpawnAgent(a) ==
  /\ call[a] = "none"
  /\ \E bg \in BOOLEAN : background' = [background EXCEPT ![a] = bg]
  /\ IF activeSlots < MaxConcurrent
     THEN /\ activeSlots' = activeSlots + 1
          /\ call' = [call EXCEPT ![a] = "granted"]
          /\ UNCHANGED slotQueue
     ELSE /\ slotQueue' = Append(slotQueue, a)
          /\ call' = [call EXCEPT ![a] = "waiting"]
          /\ UNCHANGED activeSlots
  /\ UNCHANGED <<result, runtime, managerVars, status, phase, childVars,
                 timerVars, ghostVars>>

\* spawn() throws (an unknown agent): the catch block of execute() returns
\* an error and does not release the slot.
SpawnThrows(a) ==
  /\ call[a] = "granted"
  /\ call' = [call EXCEPT ![a] = "returned"]
  /\ result' = [result EXCEPT ![a] = "failed"]
  /\ UNCHANGED <<background, runtime, slotVars, managerVars, status, phase,
                 childVars, timerVars, ghostVars>>

\* spawn() and the start() it begins; a background call releases its slot
\* and returns at once.
Spawn(a) ==
  /\ call[a] = "granted"
  /\ \E r \in {"subprocess", "inprocess"} : runtime' = [runtime EXCEPT ![a] = r]
  /\ agents' = agents \cup {a}
  /\ status' = [status EXCEPT ![a] = "working"]
  /\ phase' = [phase EXCEPT ![a] = "resolving"]
  /\ IF background[a]
     THEN /\ ReleaseSlot(a, "spawned")
          /\ UNCHANGED foregroundAgents
     ELSE /\ call' = [call EXCEPT ![a] = "foreground"]
          /\ foregroundAgents' = foregroundAgents \cup {a}
          /\ UNCHANGED <<result, slotVars>>
  /\ UNCHANGED <<background, completedAgents, removalTimers, completionNotified,
                 messages, childVars, timerVars, ghostVars>>

\* The signal of the tool call: a waiting call leaves the queue, a
\* foreground agent goes on in the background (it keeps the slot). A call that
\* waits but is not in the queue, since destroyAll() emptied it, stays.
AbortCall(a) ==
  /\ \/ /\ call[a] = "waiting"
        /\ \E i \in 1..Len(slotQueue) :
             slotQueue[i] = a /\ slotQueue' = RemoveAt(slotQueue, i)
        /\ result' = [result EXCEPT ![a] = "failed"]
        /\ UNCHANGED foregroundAgents
     \/ /\ call[a] = "foreground"
        /\ foregroundAgents' = foregroundAgents \ {a}
        /\ result' = [result EXCEPT ![a] = "moved"]
        /\ UNCHANGED slotQueue
  /\ call' = [call EXCEPT ![a] = "returned"]
  /\ UNCHANGED <<background, runtime, activeSlots, agents, completedAgents,
                 removalTimers, completionNotified, messages, status, phase,
                 childVars, timerVars, ghostVars>>

\* The shortcut that moves every running foreground agent.
MoveToBg ==
  LET moved == {a \in agents \cap foregroundAgents : status[a] \notin Final} IN
  /\ moved # {}
  /\ foregroundAgents' = foregroundAgents \ moved
  /\ call' = [a \in Agents |-> IF a \in moved /\ call[a] = "foreground"
                               THEN "returned" ELSE call[a]]
  /\ result' = [a \in Agents |-> IF a \in moved /\ call[a] = "foreground"
                                 THEN "moved" ELSE result[a]]
  /\ UNCHANGED <<background, runtime, slotVars, agents, completedAgents,
                 removalTimers, completionNotified, messages, status, phase,
                 childVars, timerVars, ghostVars>>

-----------------------------------------------------------------------------
(* start() *)

\* The model registry has answered: the child process is spawned. An
\* in-process agent has loaded its resources and prompts its new session.
SpawnProcess(a) ==
  /\ phase[a] = "resolving"
  /\ IF runtime[a] = "subprocess"
     THEN /\ phase' = [phase EXCEPT ![a] = "boot"]
          /\ session' = [session EXCEPT ![a] = "idle"]
          /\ UNCHANGED activityTimer
     ELSE /\ phase' = [phase EXCEPT ![a] = "prompting"]
          /\ session' = [session EXCEPT ![a] = "prompted"]
          /\ activityTimer' = activityTimer \cup {a}
  /\ UNCHANGED <<call, result, background, runtime, slotVars, managerVars, status,
                 killed, active, turns, completionTimer, killTimer, ghostVars>>

\* The "error" event of a process that cannot be spawned ("close" follows),
\* or the catch block of an in-process agent; the rest of a subprocess's
\* start() goes on.
SpawnProcessFails(a) ==
  /\ phase[a] = "resolving"
  /\ IF runtime[a] = "subprocess"
     THEN /\ phase' = [phase EXCEPT ![a] = "boot"]
          /\ session' = [session EXCEPT ![a] = "unborn"]
     ELSE /\ phase' = [phase EXCEPT ![a] = "started"]
          /\ UNCHANGED session
  /\ Report(a, "failed", "error")
  /\ UNCHANGED <<background, runtime, killed, active, turns, timerVars, ghostVars>>

\* Mutation: the failure is logged and not handed to the manager.
StartRejects_Logged(a) ==
  /\ phase[a] = "resolving"
  /\ runtime[a] = "subprocess"
  /\ phase' = [phase EXCEPT ![a] = "started"]
  /\ Silently(a, IF status[a] \in Final THEN status[a] ELSE "error")
  /\ UNCHANGED <<background, runtime, childVars, timerVars, ghostVars>>

\* start() of a subprocess throws before there is a process (the file of the
\* system prompt, spawn() without file descriptors) and its promise rejects.
\* handleStartFailure() hands the failure to the manager only: the listener
\* of a foreground call does not hear of it, and the call is stranded.
StartRejects(a) ==
  /\ phase[a] = "resolving"
  /\ runtime[a] = "subprocess"
  /\ phase' = [phase EXCEPT ![a] =
                 IF status[a] \notin Final /\ call[a] = "foreground"
                 THEN "stranded" ELSE "started"]
  /\ IF status[a] \in Final
     THEN Silently(a, status[a])
     ELSE /\ HandleAgentEvent(a, "failed", "error")
          /\ UNCHANGED <<call, result, slotVars>>
  /\ UNCHANGED <<background, runtime, childVars, timerVars, ghostVars>>

\* 120 ms later the task is sent as an RPC prompt, if the process is there.
SendTask(a) ==
  /\ phase[a] = "boot"
  /\ session[a] \notin {"unborn", "gone"}
  /\ a \notin killed
  /\ phase' = [phase EXCEPT ![a] = "prompting"]
  /\ UNCHANGED <<call, result, background, runtime, slotVars, managerVars, status,
                 childVars, timerVars, ghostVars>>

\* The child accepts the prompt; its answer starts the activity timeout.
AcceptTask(a) ==
  /\ phase[a] = "prompting"
  /\ runtime[a] = "subprocess"
  /\ session[a] = "idle"
  /\ phase' = [phase EXCEPT ![a] = "started"]
  /\ session' = [session EXCEPT ![a] = "prompted"]
  /\ activityTimer' = activityTimer \cup {a}
  /\ UNCHANGED <<call, result, background, runtime, slotVars, managerVars, status,
                 killed, active, turns, completionTimer, killTimer, ghostVars>>

\* sendRpcWithResponse() rejects: no process, no answer in time, or the
\* process closed. start() reports it, whatever the status is.
StartFails(a) ==
  /\ runtime[a] = "subprocess"
  /\ \/ phase[a] = "boot" /\ (session[a] = "gone" \/ a \in killed)
     \/ phase[a] = "prompting"
     \/ phase[a] = "rejected"
  /\ phase' = [phase EXCEPT ![a] = "started"]
  /\ Report(a, "failed", "error")
  /\ UNCHANGED <<background, runtime, childVars, timerVars, ghostVars>>

\* The promise of session.prompt() of an in-process agent.
PromptSettles(a) ==
  /\ phase[a] = "prompting"
  /\ runtime[a] = "inprocess"
  /\ phase' = [phase EXCEPT ![a] = "started"]
  /\ activityTimer' = activityTimer \ {a}
  /\ \/ /\ session[a] \in {"between", "gone"}
        /\ IF status[a] \in {"aborted", "error"}
           THEN Silently(a, status[a])
           ELSE Report(a, "completed", "idle")
     \/ IF status[a] = "aborted"
        THEN Silently(a, status[a])
        ELSE Report(a, "failed", "error")
  /\ session' = [session EXCEPT ![a] = IF @ = "gone" THEN @ ELSE "finished"]
  /\ UNCHANGED <<background, runtime, killed, active, turns, completionTimer,
                 killTimer, ghostVars>>

-----------------------------------------------------------------------------
(* What the child sends *)

\* turn_start, after agent_start for the first turn of a run.
TurnStart(a) ==
  /\ session[a] \in {"prompted", "between"}
  /\ turns[a] < MaxTurns
  /\ turns' = [turns EXCEPT ![a] = @ + 1]
  /\ session' = [session EXCEPT ![a] = "turn"]
  /\ active' = active \cup {a}
  /\ activityTimer' = IF a \in active THEN activityTimer ELSE activityTimer \ {a}
  /\ completionTimer' = IF session[a] = "prompted" THEN completionTimer \ {a}
                                                  ELSE completionTimer
  /\ Silently(a, "working")
  /\ UNCHANGED <<background, runtime, phase, killed, killTimer, ghostVars>>

TurnEnd(a) ==
  /\ session[a] = "turn"
  /\ session' = [session EXCEPT ![a] = "between"]
  /\ Silently(a, "idle")
  /\ UNCHANGED <<background, runtime, phase, killed, active, turns, timerVars, ghostVars>>

\* agent_end: the run may go on after a rescue, so completion waits.
AgentEnd(a) ==
  /\ session[a] = "between"
  /\ runtime[a] = "subprocess"
  /\ session' = [session EXCEPT ![a] = "ended"]
  /\ completionTimer' = completionTimer \cup {a}
  /\ Silently(a, "idle")
  /\ UNCHANGED <<background, runtime, phase, killed, active, turns, activityTimer,
                 killTimer, ghostVars>>

\* auto_retry_start, auto_compaction_start.
RescueStart(a) ==
  /\ session[a] = "ended"
  /\ session' = [session EXCEPT ![a] = "rescuing"]
  /\ completionTimer' = completionTimer \ {a}
  /\ Silently(a, "working")
  /\ UNCHANGED <<background, runtime, phase, killed, active, turns, activityTimer,
                 killTimer, ghostVars>>

\* The child goes on, or not (auto_retry_end, auto_compaction_end do nothing).
RescueEnd(a) ==
  /\ session[a] = "rescuing"
  /\ \E s \in {"prompted", "finished"} : session' = [session EXCEPT ![a] = s]
  /\ UNCHANGED <<call, result, background, runtime, slotVars, managerVars, status,
                 phase, killed, active, turns, timerVars, ghostVars>>

\* COMPLETION_DELAY_MS after agent_end.
CompletionTimeout(a) ==
  /\ a \in completionTimer
  /\ completionTimer' = completionTimer \ {a}
  /\ IF status[a] \in Final THEN Silently(a, status[a])
                            ELSE Report(a, "completed", status[a])
  /\ UNCHANGED <<background, runtime, phase, childVars, activityTimer, killTimer,
                 ghostVars>>

\* A late error of a prompt that was accepted.
PromptRejected(a) ==
  /\ session[a] = "prompted"
  /\ runtime[a] = "subprocess"
  /\ session' = [session EXCEPT ![a] = "finished"]
  /\ activityTimer' = activityTimer \ {a}
  /\ IF status[a] \in Final THEN Silently(a, status[a]) ELSE Report(a, "failed", "error")
  /\ UNCHANGED <<background, runtime, phase, killed, active, turns, completionTimer,
                 killTimer, ghostVars>>

\* No event for ACTIVITY_TIMEOUT_MS.
ActivityTimeout(a) ==
  /\ a \in activityTimer
  /\ activityTimer' = activityTimer \ {a}
  /\ IF a \in active \/ status[a] \in Final
     THEN /\ Silently(a, status[a])
          /\ UNCHANGED <<session, killed>>
     ELSE /\ Report(a, "failed", "error")
          /\ IF runtime[a] = "subprocess"
             THEN /\ killed' = IF Running(a) THEN killed \cup {a} ELSE killed
                  /\ UNCHANGED session
             ELSE /\ session' = [session EXCEPT ![a] = "gone"]
                  /\ UNCHANGED killed
  /\ UNCHANGED <<background, runtime, phase, active, turns, completionTimer,
                 killTimer, ghostVars>>

\* The "close" event of the process.
Close(a) ==
  /\ runtime[a] = "subprocess"
  /\ session[a] \notin {"none", "gone"}
  /\ session' = [session EXCEPT ![a] = "gone"]
  /\ completionTimer' = completionTimer \ {a}
  /\ \E ok \in IF a \in killed \/ session[a] = "unborn" THEN {FALSE} ELSE BOOLEAN :
       IF status[a] = "aborted"
       THEN Silently(a, "aborted") /\ UNCHANGED phase
       ELSE /\ phase' = [phase EXCEPT ![a] = IF @ = "prompting" THEN "rejected" ELSE @]
            /\ IF \/ status[a] = "working" /\ a \notin active
                  \/ ~ok /\ status[a] # "completed"
               THEN Report(a, "failed", "error")
               ELSE IF status[a] \in {"completed", "error"}
                    THEN Silently(a, status[a])
                    ELSE Report(a, "completed", "completed")
  /\ UNCHANGED <<background, runtime, killed, active, turns, activityTimer, killTimer,
                 ghostVars>>

\* killProcess(), some seconds after abort().
KillFires(a) ==
  /\ a \in killTimer
  /\ killTimer' = killTimer \ {a}
  /\ killed' = IF Running(a) THEN killed \cup {a} ELSE killed
  /\ UNCHANGED <<call, result, background, runtime, slotVars, managerVars, status,
                 phase, session, active, turns, activityTimer, completionTimer, ghostVars>>

-----------------------------------------------------------------------------
(* What the user and the main agent do to an agent *)

\* stop() of a managed agent: abort() of its handle. An "idle" agent counts
\* as one that has completed its task.
Stop(a) ==
  /\ a \in Managed
  /\ activityTimer' = IF runtime[a] = "subprocess" /\ status[a] \in Final
                      THEN activityTimer ELSE activityTimer \ {a}
  /\ IF runtime[a] = "subprocess"
     THEN /\ IF status[a] \in Final
             THEN UNCHANGED <<completionTimer, killTimer>>
             ELSE /\ completionTimer' = completionTimer \ {a}
                  /\ killTimer' = killTimer \cup {a}
          /\ UNCHANGED session
     ELSE /\ session' = [session EXCEPT ![a] = IF @ = "none" THEN @ ELSE "gone"]
          /\ UNCHANGED <<completionTimer, killTimer>>
  /\ CASE status[a] \in Final -> Silently(a, status[a]) /\ UNCHANGED graceful
       [] status[a] = "idle"   -> /\ Report(a, "graceful", "completed")
                                  /\ graceful' = graceful \cup {a}
       [] OTHER                -> Report(a, "aborted", "aborted") /\ UNCHANGED graceful
  /\ UNCHANGED <<background, runtime, phase, killed, active, turns, destroyed, shutdowns>>

\* sendMessageToAgent() to an agent whose run has ended: the child starts a
\* new run. During a run the message is part of that run.
SendMessage(a) ==
  /\ a \in Managed
  /\ status[a] \notin Final
  /\ runtime[a] = "subprocess"
  /\ a \notin killed
  /\ session[a] \in {"ended", "finished"}
  /\ session' = [session EXCEPT ![a] = "prompted"]
  /\ UNCHANGED <<call, result, background, runtime, slotVars, managerVars, status,
                 phase, killed, active, turns, timerVars, ghostVars>>

\* The timer of scheduleRemoval().
RemovalFires(a) ==
  /\ a \in removalTimers
  /\ removalTimers' = removalTimers \ {a}
  /\ completedAgents' = completedAgents \ {a}
  /\ completionNotified' = completionNotified \ {a}
  /\ UNCHANGED <<call, result, background, runtime, slotVars, agents, foregroundAgents,
                 messages, status, phase, childVars, timerVars, ghostVars>>

\* session_shutdown, or the next session_start: destroyAll(). The handlers
\* of the manager are detached, those of the tool calls are not: the end of
\* an in-process agent still settles its call and releases a slot.
DestroyAll ==
  LET dropped == Managed
      Sub(a)  == a \in dropped /\ runtime[a] = "subprocess"
      Ends(a) == a \in dropped /\ runtime[a] = "inprocess" /\ status[a] \notin Final
      settled == {a \in Agents : Ends(a) /\ call[a] = "foreground"}
  IN
  /\ shutdowns < MaxShutdowns
  /\ shutdowns' = shutdowns + 1
  /\ agents' = {} /\ completedAgents' = {} /\ removalTimers' = {}
  /\ completionNotified' = {} /\ foregroundAgents' = {}
  /\ slotQueue' = <<>>
  /\ activeSlots' = 0 - Cardinality(settled)
  /\ call' = [a \in Agents |-> IF a \in settled THEN "returned" ELSE call[a]]
  /\ result' = [a \in Agents |->
       IF a \notin settled THEN result[a]
       ELSE IF status[a] = "idle" THEN "done" ELSE "failed"]
  /\ session' = [a \in Agents |->
       IF a \notin dropped \/ session[a] = "none" \/ (Sub(a) /\ a \in killed)
       THEN session[a] ELSE "gone"]
  /\ phase' = [a \in Agents |->
       IF Sub(a) /\ phase[a] = "prompting" THEN "rejected" ELSE phase[a]]
  /\ status' = [a \in Agents |->
       IF Sub(a) THEN (IF status[a] = "error" THEN "error" ELSE "aborted")
       ELSE IF Ends(a) THEN (IF status[a] = "idle" THEN "completed" ELSE "aborted")
       ELSE status[a]]
  /\ activityTimer' = activityTimer \ dropped
  /\ completionTimer' = completionTimer \ dropped
  /\ destroyed' = destroyed \cup dropped
  /\ UNCHANGED <<background, runtime, messages, killed, active, turns, killTimer, graceful>>

-----------------------------------------------------------------------------

SubInit ==
  /\ call = [a \in Agents |-> "none"]
  /\ result = [a \in Agents |-> "none"]
  /\ background = [a \in Agents |-> FALSE]
  /\ runtime = [a \in Agents |-> "none"]
  /\ activeSlots = 0 /\ slotQueue = <<>>
  /\ agents = {} /\ completedAgents = {} /\ removalTimers = {}
  /\ foregroundAgents = {} /\ completionNotified = {}
  /\ status = [a \in Agents |-> "idle"]
  /\ phase = [a \in Agents |-> "none"]
  /\ session = [a \in Agents |-> "none"]
  /\ killed = {} /\ active = {}
  /\ activityTimer = {} /\ completionTimer = {} /\ killTimer = {}
  /\ turns = [a \in Agents |-> 0]
  /\ messages = [a \in Agents |-> <<>>]
  /\ graceful = {} /\ destroyed = {} /\ shutdowns = 0 /\ disturbances = 0

\* What goes as planned.
Planned ==
  \E a \in Agents :
    \/ SpawnAgent(a) \/ Spawn(a) \/ SpawnProcess(a) \/ SendTask(a) \/ AcceptTask(a)
    \/ PromptSettles(a) \/ TurnStart(a) \/ TurnEnd(a) \/ AgentEnd(a) \/ RescueEnd(a)
    \/ CompletionTimeout(a) \/ ActivityTimeout(a) \/ KillFires(a) \/ RemovalFires(a)

\* What comes from outside: the user, a failure, a rescue, a shutdown.
Disturbance ==
  \/ \E a \in Agents :
       \/ SpawnThrows(a) \/ SpawnProcessFails(a) \/ StartRejects(a) \/ StartFails(a)
       \/ PromptRejected(a) \/ Close(a) \/ RescueStart(a) \/ AbortCall(a) \/ Stop(a) \/ SendMessage(a)
  \/ MoveToBg
  \/ DestroyAll

SubNext ==
  \/ Planned /\ UNCHANGED disturbances
  \/ /\ disturbances < MaxDisturbances
     /\ disturbances' = disturbances + 1
     /\ Disturbance

SubSpec == SubInit /\ [][SubNext]_subVars

-----------------------------------------------------------------------------

\* Every variable holds values of its kind; an agent is never listed as
\* working and as completed.
SubTypeOK ==
  /\ call \in [Agents -> {"none", "waiting", "granted", "foreground", "returned"}]
  /\ result \in [Agents -> {"none", "spawned", "done", "failed", "moved"}]
  /\ background \in [Agents -> BOOLEAN]
  /\ runtime \in [Agents -> {"none", "subprocess", "inprocess"}]
  /\ activeSlots \in Int
  /\ slotQueue \in Seq(Agents)
  /\ agents \subseteq Agents /\ completedAgents \subseteq Agents \ agents
  /\ removalTimers \subseteq Agents /\ foregroundAgents \subseteq Agents
  /\ completionNotified \subseteq Agents
  /\ status \in [Agents -> Statuses]
  /\ phase \in [Agents -> Phases]
  /\ session \in [Agents -> Sessions]
  /\ killed \subseteq Agents /\ active \subseteq Agents
  /\ activityTimer \subseteq Agents /\ completionTimer \subseteq Agents
  /\ killTimer \subseteq Agents
  /\ turns \in [Agents -> 0..MaxTurns]
  /\ messages \in [Agents -> Seq({"completed", "failed", "aborted"})]
  /\ graceful \subseteq Agents /\ destroyed \subseteq Agents
  /\ shutdowns \in 0..MaxShutdowns /\ disturbances \in 0..MaxDisturbances

\* Until a shutdown: a call that works in the foreground has a slot, no more
\* slots are taken than there are, and a call waits only while all of them
\* are taken (acquireSlot, releaseSlot: no wake-up is lost).
SlotsRespected ==
  shutdowns = 0 =>
    /\ Cardinality({a \in Agents : call[a] \in {"granted", "foreground"}}) <= activeSlots
    /\ activeSlots <= MaxConcurrent
    /\ slotQueue # <<>> => activeSlots = MaxConcurrent

\* A call whose agent's start() rejected while it waited: the manager has put
\* the agent away, and nothing but the signal of the call ends it.
Stranded(a) == phase[a] = "stranded"

\* An agent leaves the working agents only when its outcome is told, as a
\* message or as the result of its call; the exceptions are an agent that is
\* stopped while "idle", a shutdown, and a start() that rejects under a
\* foreground call, of which nobody is told. A call waits for a working agent
\* or is stranded, and only a failed agent strands its call: one that was
\* moved to the background, or stopped, before its start() rejected is told of.
\* No agent is kept among the working ones once its outcome is known.
OutcomeDelivered ==
  \A a \in Agents \ destroyed :
    /\ runtime[a] # "none" /\ a \notin agents =>
         \/ messages[a] # <<>> \/ result[a] \in {"done", "failed"} \/ a \in graceful
         \/ Stranded(a)
    /\ call[a] = "foreground" => a \in agents \/ Stranded(a)
    /\ a \in agents => status[a] \notin Final
    /\ Stranded(a) =>
         status[a] = "error" /\ messages[a] = <<>> /\ result[a] \in {"none", "moved"}

\* The main agent hears at most once that an agent has completed its task.
\* Not of an agent that was stopped while "idle": a turn it begins before the
\* child is killed makes it "working", and it can be stopped, and complete,
\* once more.
ToldDoneOnce ==
  \A a \in Agents \ graceful :
    Cardinality({i \in DOMAIN messages[a] : messages[a][i] = "completed"})
      + (IF result[a] = "done" THEN 1 ELSE 0) <= 1

\* What the run checks.
SubagentsSafe == SlotsRespected /\ OutcomeDelivered /\ ToldDoneOnce

\* What makes SubagentsSafe inductive.

SubShape ==
  /\ call \in [Agents -> {"none", "waiting", "granted", "foreground", "returned"}]
  /\ result \in [Agents -> {"none", "spawned", "done", "failed", "moved"}]
  /\ runtime \in [Agents -> {"none", "subprocess", "inprocess"}]
  /\ activeSlots \in Int /\ slotQueue \in Seq(Agents)
  /\ agents \subseteq Agents /\ completedAgents \subseteq Agents
  /\ messages \in [Agents -> Seq({"completed", "failed", "aborted"})]
  /\ shutdowns \in Nat

StartShape ==
  /\ phase \in [Agents -> Phases]
  /\ status \in [Agents -> Statuses]
  /\ session \in [Agents -> Sessions]

\* What waits in the queue is a call that waits, and waits once.
QueueOfWaiters ==
  /\ \A i \in 1..Len(slotQueue) : call[slotQueue[i]] = "waiting"
  /\ \A i, j \in 1..Len(slotQueue) : slotQueue[i] = slotQueue[j] => i = j

\* The completions among the messages about an agent.
Completions(a) == {i \in DOMAIN messages[a] : messages[a][i] = "completed"}

\* Nothing is known of an agent before its call spawns it; a call that waits
\* for its agent has no result, and the manager takes it for a foreground one
\* until a shutdown drops it or its start() rejects; an agent that is managed
\* and not announced has not told of a completion.
AgentFollowed(a) ==
  /\ call[a] \in {"none", "waiting", "granted"} =>
       /\ runtime[a] = "none" /\ messages[a] = <<>> /\ result[a] = "none"
       /\ a \notin Managed \cup foregroundAgents \cup completionNotified \cup destroyed
  /\ call[a] = "foreground" =>
       /\ result[a] = "none" /\ Completions(a) = {}
       /\ a \notin destroyed =>
            messages[a] = <<>> /\ (Stranded(a) \/ a \in agents \cap foregroundAgents)
  /\ Stranded(a) /\ a \notin destroyed =>
       /\ messages[a] = <<>> /\ result[a] \in {"none", "moved"}
       /\ call[a] \in {"foreground", "returned"}
       /\ a \notin agents \cup foregroundAgents
  /\ a \in foregroundAgents => call[a] = "foreground" \/ a \in graceful
  /\ a \in destroyed => a \notin Managed \cup foregroundAgents
  /\ a \in agents => a \notin completedAgents \cup completionNotified
  /\ a \in Managed \ (completionNotified \cup graceful) =>
       Completions(a) = {} /\ result[a] # "done"
  /\ a \notin graceful =>
       /\ \A i, j \in Completions(a) : i = j
       /\ Completions(a) # {} => result[a] # "done"

\* There is no child before start() has made one; a start() that rejected
\* leaves an error; an agent with an outcome is not among the working ones.
AgentStarts(a) ==
  /\ phase[a] \in {"none", "resolving", "stranded"} =>
       session[a] = "none" /\ a \notin activityTimer
  /\ call[a] \in {"none", "waiting", "granted"} => phase[a] = "none"
  /\ Stranded(a) => status[a] = "error"
  /\ a \in agents => status[a] \notin Final

SubInv ==
  /\ SubShape /\ StartShape
  /\ SlotsRespected /\ QueueOfWaiters
  /\ OutcomeDelivered
  /\ \A a \in Agents : AgentFollowed(a) /\ AgentStarts(a)
=============================================================================
