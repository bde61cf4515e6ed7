------------------------------ MODULE AgentLoop ------------------------------
(***************************************************************************)
(* One agent and the runs of its loop, one run after the other             *)
(* (packages/agent/src/agent.ts, agent-loop.ts, ai/src/utils/              *)
(* event-stream.ts).                                                       *)
(*                                                                         *)
(* The loop is an async function: an action is the code it runs between    *)
(* two awaits. It pushes events into `stream`; the consumer in             *)
(* Agent._runLoop takes them one by one and updates the agent's state. The *)
(* model provider, the tools and the user interleave with both.            *)
(*                                                                         *)
(* Streaming updates (message_start, message_update, partial messages and  *)
(* tool_execution_update) are left out: they change what is displayed.     *)
(* Runs that overlap because a listener prompts again are left out.        *)
(***************************************************************************)
EXTENDS Integers, Sequences, FiniteSets, SequencesExt, FiniteSetsExt

CONSTANTS
  SteeringMode,  \* "all" or "one-at-a-time"
  FollowUpMode,  \* "all" or "one-at-a-time"
  Concurrency,   \* Math.max(1, maxParallelTools)
  MaxCalls,      \* bound on the tool calls of an assistant message
  MaxToolTurns,  \* bound on the assistant messages that may call tools
  MaxUser,       \* bound on the messages the user sends
  MaxRetries,    \* a failed reply is dropped only among the first replies
  MayThrow       \* TRUE: getApiKey, convertToLlm or streamFn may throw

Modes == {"all", "one-at-a-time"}

ASSUME ALAssumption ==
  /\ SteeringMode \in Modes
  /\ FollowUpMode \in Modes
  /\ Concurrency \in Nat \ {0}
  /\ MaxCalls \in Nat
  /\ MaxToolTurns \in Nat
  /\ MaxUser \in Nat
  /\ MaxRetries \in Nat
  /\ MayThrow \in BOOLEAN

VARIABLES
  messages,          \* _state.messages
  isStreaming,       \* _state.isStreaming
  pendingToolCalls,  \* _state.pendingToolCalls
  steeringQueue,
  followUpQueue,
  aborted,           \* the signal of the run's AbortController
  pc,                \* where the loop is waiting
  context,           \* currentContext.messages
  pending,           \* pendingMessages
  hasMoreToolCalls,
  firstTurn,
  calls,             \* the kinds of the tool calls of the last reply
  processedCount,
  launched,          \* nextIndex: the calls started so far
  running,           \* the calls whose execute has not returned
  results,           \* toolResults of the turn
  stream,            \* EventStream.queue
  streamDone,        \* EventStream.done
  via,               \* how each user message was sent
  called             \* the tool calls of each reply so far

agentVars == <<messages, isStreaming, pendingToolCalls>>
queueVars == <<steeringQueue, followUpQueue>>
toolVars  == <<calls, processedCount, launched, running, results>>
turnVars  == <<context, pending, hasMoreToolCalls, firstTurn>>
vars == <<agentVars, queueVars, aborted, pc, turnVars, toolVars,
          stream, streamDone, via, called>>

CallKinds == {"read", "write"}    \* sideEffects === false, and all others
MessageKinds == {"user", "assistant", "failed", "result", "skipped"}

\* The n-th user message, the n-th reply of the model ("failed" when its
\* stop reason is error or aborted) or the result of a call of the n-th reply.
Message(kind, n, call) == [kind |-> kind, n |-> n, call |-> call]
Messages == [kind : MessageKinds, n : Nat, call : Nat]

EventTypes == {"agent_start", "turn_start", "message_end", "tool_execution_start",
               "tool_execution_end", "turn_end", "agent_end"}
Event(type, message, call) == [type |-> type, message |-> message, call |-> call]
NoMessage == Message("user", 0, 0)
Mark(type) == <<Event(type, NoMessage, 0)>>
ToolEvent(type, call) == <<Event(type, NoMessage, call)>>
MessageEnds(ms) == [i \in DOMAIN ms |-> Event("message_end", ms[i], 0)]

Phases == {"idle", "turnHead", "request", "response", "replied", "failed",
           "tools", "pollTool", "pollGroup", "toolsDone", "followUps",
           "ended", "dead"}

-----------------------------------------------------------------------------
(* The queues of the agent *)

\* dequeueSteeringMessages, dequeueFollowUpMessages: what is taken and what
\* is left.
Taken(queue, mode) == IF mode = "all" \/ queue = <<>> THEN queue ELSE <<Head(queue)>>
Left(queue, mode)  == IF mode = "all" \/ queue = <<>> THEN <<>> ELSE Tail(queue)

DequeueSteering ==
  /\ pending' = Taken(steeringQueue, SteeringMode)
  /\ steeringQueue' = Left(steeringQueue, SteeringMode)

DequeueFollowUp ==
  /\ pending' = Taken(followUpQueue, FollowUpMode)
  /\ followUpQueue' = Left(followUpQueue, FollowUpMode)

NextUser == Message("user", Len(via) + 1, 0)

Steer_Unshift ==
  /\ Len(via) < MaxUser
  /\ via' = Append(via, "steer")
  /\ steeringQueue' = <<NextUser>> \o steeringQueue
  /\ UNCHANGED <<agentVars, followUpQueue, aborted, pc, turnVars, toolVars,
                 stream, streamDone, called>>

Steer ==
  /\ Len(via) < MaxUser
  /\ via' = Append(via, "steer")
  /\ steeringQueue' = Append(steeringQueue, NextUser)
  /\ UNCHANGED <<agentVars, followUpQueue, aborted, pc, turnVars, toolVars,
                 stream, streamDone, called>>

FollowUp ==
  /\ Len(via) < MaxUser
  /\ via' = Append(via, "followUp")
  /\ followUpQueue' = Append(followUpQueue, NextUser)
  /\ UNCHANGED <<agentVars, steeringQueue, aborted, pc, turnVars, toolVars,
                 stream, streamDone, called>>

ClearAllQueues ==
  /\ steeringQueue \o followUpQueue # <<>>
  /\ steeringQueue' = <<>>
  /\ followUpQueue' = <<>>
  /\ UNCHANGED <<agentVars, aborted, pc, turnVars, toolVars, stream, streamDone,
                 via, called>>

\* abort(): the controller exists from the start of a run to its end.
Abort ==
  /\ pc # "idle"
  /\ ~aborted
  /\ aborted' = TRUE
  /\ UNCHANGED <<agentVars, queueVars, pc, turnVars, toolVars, stream, streamDone,
                 via, called>>

-----------------------------------------------------------------------------
(* Starting a run *)

\* _runLoop, agentLoop and runLoop up to their first await, the initial poll
\* of the steering queue (the caller says what it leaves of both queues).
StartRun(prompts) ==
  /\ pc' = "turnHead"
  /\ isStreaming' = TRUE
  /\ aborted' = FALSE
  /\ context' = messages \o prompts
  /\ hasMoreToolCalls' = TRUE
  /\ firstTurn' = TRUE
  /\ stream' = Mark("agent_start") \o Mark("turn_start") \o MessageEnds(prompts)
  /\ streamDone' = FALSE
  /\ UNCHANGED <<messages, pendingToolCalls, toolVars, called>>

Prompt ==
  /\ pc = "idle"
  /\ Len(via) < MaxUser
  /\ via' = Append(via, "prompt")
  /\ StartRun(<<NextUser>>)
  /\ DequeueSteering
  /\ UNCHANGED followUpQueue

LastIsReply == messages # <<>> /\ Last(messages).kind \in {"assistant", "failed"}

\* replaceMessages as the session calls it before a retry: the failed reply
\* is removed, then continue() starts from the message before it.
DropFailedReply ==
  /\ pc = "idle"
  /\ messages # <<>>
  /\ Last(messages).kind = "failed"
  /\ Len(called) <= MaxRetries
  /\ messages' = Front(messages)
  /\ UNCHANGED <<isStreaming, pendingToolCalls, queueVars, aborted, pc, turnVars,
                 toolVars, stream, streamDone, via, called>>

\* continue() after a reply: the queued steering messages become the prompt
\* and the initial poll is skipped.
ContinueWithSteering ==
  /\ pc = "idle"
  /\ LastIsReply
  /\ steeringQueue # <<>>
  /\ StartRun(Taken(steeringQueue, SteeringMode))
  /\ steeringQueue' = Left(steeringQueue, SteeringMode)
  /\ pending' = <<>>
  /\ UNCHANGED <<followUpQueue, via>>

\* continue() after a reply without steering messages.
ContinueWithFollowUp ==
  /\ pc = "idle"
  /\ LastIsReply
  /\ steeringQueue = <<>>
  /\ followUpQueue # <<>>
  /\ StartRun(Taken(followUpQueue, FollowUpMode))
  /\ followUpQueue' = Left(followUpQueue, FollowUpMode)
  /\ pending' = <<>>
  /\ UNCHANGED <<steeringQueue, via>>

\* continue() from a user message or a tool result.
ContinueFromContext ==
  /\ pc = "idle"
  /\ messages # <<>>
  /\ ~LastIsReply
  /\ StartRun(<<>>)
  /\ DequeueSteering
  /\ UNCHANGED <<followUpQueue, via>>

-----------------------------------------------------------------------------
(* The turns of runLoop *)

BeginTurn_Silent ==
  /\ pc = "turnHead"
  /\ hasMoreToolCalls \/ pending # <<>>
  /\ pc' = "request"
  /\ firstTurn' = FALSE
  /\ stream' = stream \o (IF firstTurn THEN <<>> ELSE Mark("turn_start"))
  /\ context' = context \o pending
  /\ pending' = <<>>
  /\ UNCHANGED <<agentVars, queueVars, aborted, hasMoreToolCalls, toolVars,
                 streamDone, via, called>>

\* The head of the inner loop: inject the pending messages and ask the model.
BeginTurn ==
  /\ pc = "turnHead"
  /\ hasMoreToolCalls \/ pending # <<>>
  /\ pc' = "request"
  /\ firstTurn' = FALSE
  /\ stream' = stream \o (IF firstTurn THEN <<>> ELSE Mark("turn_start"))
                      \o MessageEnds(pending)
  /\ context' = context \o pending
  /\ pending' = <<>>
  /\ UNCHANGED <<agentVars, queueVars, aborted, hasMoreToolCalls, toolVars,
                 streamDone, via, called>>

\* The inner loop is over: poll the follow-up queue.
PollFollowUps ==
  /\ pc = "turnHead"
  /\ ~hasMoreToolCalls
  /\ pending = <<>>
  /\ DequeueFollowUp
  /\ pc' = "followUps"
  /\ UNCHANGED <<agentVars, steeringQueue, aborted, context, hasMoreToolCalls,
                 firstTurn, toolVars, stream, streamDone, via, called>>

ContinueOuterLoop ==
  /\ pc = "followUps"
  /\ pending # <<>>
  /\ hasMoreToolCalls' = TRUE
  /\ pc' = "turnHead"
  /\ UNCHANGED <<agentVars, queueVars, aborted, context, pending, firstTurn,
                 toolVars, stream, streamDone, via, called>>

EndRun_LeavesOpen ==
  /\ pc = "followUps"
  /\ pending = <<>>
  /\ pc' = "ended"
  /\ stream' = stream \o Mark("agent_end")
  /\ UNCHANGED <<agentVars, queueVars, aborted, turnVars, toolVars, streamDone,
                 via, called>>

EndRun ==
  /\ pc = "followUps"
  /\ pending = <<>>
  /\ pc' = "ended"
  /\ stream' = stream \o Mark("agent_end")
  /\ streamDone' = TRUE
  /\ UNCHANGED <<agentVars, queueVars, aborted, turnVars, toolVars, via, called>>

\* streamAssistantResponse up to the response of streamFn.
Request ==
  /\ pc = "request"
  /\ pc' = "response"
  /\ UNCHANGED <<agentVars, queueVars, aborted, turnVars, toolVars, stream,
                 streamDone, via, called>>

\* One of its awaits rejects: nobody catches the rejection of the loop and
\* nothing ends the stream.
RequestThrows ==
  /\ MayThrow
  /\ pc = "request"
  /\ pc' = "dead"
  /\ UNCHANGED <<agentVars, queueVars, aborted, turnVars, toolVars, stream,
                 streamDone, via, called>>

\* The response is complete. A provider that sees the signal aborted fails.
Reply(kind, cs) ==
  /\ pc = "response"
  /\ kind \in {"assistant", "failed"}
  /\ kind = "assistant" => ~aborted
  /\ LET message == Message(kind, Len(called) + 1, 0)
     IN  /\ context' = Append(context, message)
         /\ stream' = stream \o MessageEnds(<<message>>)
  /\ called' = Append(called, cs)
  /\ calls' = cs
  /\ processedCount' = 0
  /\ launched' = 0
  /\ results' = <<>>
  /\ pc' = IF kind = "failed" THEN "failed" ELSE "replied"
  /\ UNCHANGED <<agentVars, queueVars, aborted, pending, hasMoreToolCalls, firstTurn,
                 running, streamDone, via>>

\* stopReason error or aborted: the run ends without looking at the queues.
StopOnFailure ==
  /\ pc = "failed"
  /\ pc' = "ended"
  /\ stream' = stream \o Mark("turn_end") \o Mark("agent_end")
  /\ streamDone' = TRUE
  /\ UNCHANGED <<agentVars, queueVars, aborted, turnVars, toolVars, via, called>>

FinishTurnWithoutTools ==
  /\ pc = "replied"
  /\ calls = <<>>
  /\ hasMoreToolCalls' = FALSE
  /\ stream' = stream \o Mark("turn_end")
  /\ DequeueSteering
  /\ pc' = "turnHead"
  /\ UNCHANGED <<agentVars, followUpQueue, aborted, context, firstTurn, toolVars,
                 streamDone, via, called>>

-----------------------------------------------------------------------------
(* The tool calls of a turn *)

GroupEnd_OneTooFar(cs, k) ==
  IF cs[k] = "write" THEN k
  ELSE 1 + CHOOSE e \in k..Len(cs) :
         /\ \A i \in k..e : cs[i] = "read"
         /\ e < Len(cs) => cs[e + 1] = "write"

GroupEnd_AnyKind(cs, k) == Len(cs)

\* groupToolCalls: consecutive read-only calls form a group, any other call
\* is a group of its own. The last call of the group of call k:
GroupEnd(cs, k) ==
  IF cs[k] = "write" THEN k
  ELSE CHOOSE e \in k..Len(cs) :
         /\ \A i \in k..e : cs[i] = "read"
         /\ e < Len(cs) => cs[e + 1] = "write"

Parallel(cs, k) == Concurrency > 1 /\ GroupEnd(cs, k) > k

LaunchEnd(cs, k) ==
  IF Parallel(cs, k) THEN Min({k + Concurrency - 1, GroupEnd(cs, k)}) ELSE k

\* Start executing at call k: the workers of a parallel group each take a
\* call, any other call runs alone.
Launch(k) ==
  /\ pc' = "tools"
  /\ running' = k..LaunchEnd(calls, k)
  /\ launched' = LaunchEnd(calls, k)
  /\ stream' = stream \o [i \in 1..(LaunchEnd(calls, k) - k + 1) |->
                            Event("tool_execution_start", NoMessage, k + i - 1)]

StartTools ==
  /\ pc = "replied"
  /\ calls # <<>>
  /\ hasMoreToolCalls' = TRUE
  /\ Launch(1)
  /\ UNCHANGED <<agentVars, queueVars, aborted, context, pending, firstTurn, calls,
                 processedCount, results, streamDone, via, called>>

Result(kind, call) == Message(kind, Len(called), call)

Results(kind, first, last) ==
  [i \in 1..(last - first + 1) |-> Result(kind, first + i - 1)]

\* The execute of call k returns or throws; its worker takes the next call
\* of the group, or the group is complete.
CompleteTool(k) ==
  /\ pc = "tools"
  /\ k \in running
  /\ LET more == /\ Parallel(calls, processedCount + 1)
                 /\ launched < GroupEnd(calls, processedCount + 1)
         done == ToolEvent("tool_execution_end", k) \o MessageEnds(<<Result("result", k)>>)
     IN  IF more
         THEN /\ running' = (running \ {k}) \union {launched + 1}
              /\ launched' = launched + 1
              /\ stream' = stream \o done \o ToolEvent("tool_execution_start", launched + 1)
              /\ UNCHANGED <<pc, processedCount, results>>
         ELSE /\ running' = running \ {k}
              /\ stream' = stream \o done
              /\ IF running' = {}
                 THEN /\ results' = results \o Results("result", processedCount + 1, launched)
                      /\ processedCount' = launched
                      /\ pc' = IF Parallel(calls, processedCount + 1) THEN "pollGroup" ELSE "pollTool"
                 ELSE UNCHANGED <<pc, processedCount, results>>
              /\ UNCHANGED launched
  /\ UNCHANGED <<agentVars, queueVars, aborted, turnVars, calls, streamDone,
                 via, called>>

SkipEvents_Swapped(call) ==
  ToolEvent("tool_execution_end", call) \o ToolEvent("tool_execution_start", call)
    \o MessageEnds(<<Result("skipped", call)>>)

\* The events of one skipped call.
SkipEvents(call) ==
  ToolEvent("tool_execution_start", call) \o ToolEvent("tool_execution_end", call)
    \o MessageEnds(<<Result("skipped", call)>>)

SkipRemaining_OneShort ==
  /\ pc' = "toolsDone"
  /\ results' = results \o Results("skipped", processedCount + 2, Len(calls))
  /\ stream' = stream \o [i \in 1..(3 * (Len(calls) - processedCount)) |->
                            SkipEvents(processedCount + 1 + ((i - 1) \div 3))[1 + ((i - 1) % 3)]]
  /\ UNCHANGED <<launched, running>>

\* A steering message was found: every call not yet executed gets an error
\* result.
SkipRemaining ==
  /\ pc' = "toolsDone"
  /\ results' = results \o Results("skipped", processedCount + 1, Len(calls))
  /\ stream' = stream \o [i \in 1..(3 * (Len(calls) - processedCount)) |->
                            SkipEvents(processedCount + 1 + ((i - 1) \div 3))[1 + ((i - 1) % 3)]]
  /\ UNCHANGED <<launched, running>>

GoOn(k) ==
  /\ Launch(k)
  /\ UNCHANGED results

PollAfterTool_SkipsOnAbort ==
  /\ pc = "pollTool"
  /\ DequeueSteering
  /\ IF pending' # <<>> \/ aborted THEN SkipRemaining
     ELSE IF processedCount < GroupEnd(calls, processedCount) THEN GoOn(processedCount + 1)
     ELSE /\ pc' = "pollGroup"
          /\ UNCHANGED <<launched, running, results, stream>>
  /\ UNCHANGED <<agentVars, followUpQueue, aborted, context, hasMoreToolCalls, firstTurn,
                 calls, processedCount, streamDone, via, called>>

\* The poll after a call that ran alone.
PollAfterTool ==
  /\ pc = "pollTool"
  /\ DequeueSteering
  /\ IF pending' # <<>> THEN SkipRemaining
     ELSE IF processedCount < GroupEnd(calls, processedCount) THEN GoOn(processedCount + 1)
     ELSE /\ pc' = "pollGroup"
          /\ UNCHANGED <<launched, running, results, stream>>
  /\ UNCHANGED <<agentVars, followUpQueue, aborted, context, hasMoreToolCalls, firstTurn,
                 calls, processedCount, streamDone, via, called>>

\* The poll after a group.
PollAfterGroup ==
  /\ pc = "pollGroup"
  /\ DequeueSteering
  /\ IF pending' # <<>> THEN SkipRemaining
     ELSE IF processedCount < Len(calls) THEN GoOn(processedCount + 1)
     ELSE /\ pc' = "toolsDone"
          /\ UNCHANGED <<launched, running, results, stream>>
  /\ UNCHANGED <<agentVars, followUpQueue, aborted, context, hasMoreToolCalls, firstTurn,
                 calls, processedCount, streamDone, via, called>>

FinishTurnWithTools_NotStored ==
  /\ pc = "toolsDone"
  /\ stream' = stream \o Mark("turn_end")
  /\ IF pending # <<>> THEN UNCHANGED <<pending, steeringQueue>> ELSE DequeueSteering
  /\ pc' = "turnHead"
  /\ UNCHANGED <<agentVars, followUpQueue, aborted, context, hasMoreToolCalls, firstTurn,
                 toolVars, streamDone, via, called>>

\* Back in runLoop: store the results, end the turn, and poll again unless
\* the tools already found steering messages.
FinishTurnWithTools ==
  /\ pc = "toolsDone"
  /\ context' = context \o results
  /\ stream' = stream \o Mark("turn_end")
  /\ IF pending # <<>> THEN UNCHANGED <<pending, steeringQueue>> ELSE DequeueSteering
  /\ pc' = "turnHead"
  /\ UNCHANGED <<agentVars, followUpQueue, aborted, hasMoreToolCalls, firstTurn, toolVars,
                 streamDone, via, called>>

-----------------------------------------------------------------------------
(* The consumer in Agent._runLoop *)

Consume ==
  /\ stream # <<>>
  /\ stream' = Tail(stream)
  /\ LET event == Head(stream)
     IN  /\ messages' = IF event.type = "message_end"
                        THEN Append(messages, event.message) ELSE messages
         /\ pendingToolCalls' =
              CASE event.type = "tool_execution_start" -> pendingToolCalls \union {event.call}
                [] event.type = "tool_execution_end"   -> pendingToolCalls \ {event.call}
                [] OTHER -> pendingToolCalls
         /\ isStreaming' = (isStreaming /\ event.type # "agent_end")
  /\ UNCHANGED <<queueVars, aborted, pc, turnVars, toolVars, streamDone, via, called>>

\* The stream is over: the finally block of _runLoop.
FinishRun ==
  /\ pc = "ended"
  /\ stream = <<>>
  /\ streamDone
  /\ pc' = "idle"
  /\ isStreaming' = FALSE
  /\ pendingToolCalls' = {}
  /\ aborted' = FALSE
  /\ UNCHANGED <<messages, queueVars, turnVars, toolVars, stream, streamDone,
                 via, called>>

-----------------------------------------------------------------------------
Init ==
  /\ messages = <<>>
  /\ isStreaming = FALSE
  /\ pendingToolCalls = {}
  /\ steeringQueue = <<>>
  /\ followUpQueue = <<>>
  /\ aborted = FALSE
  /\ pc = "idle"
  /\ context = <<>>
  /\ pending = <<>>
  /\ hasMoreToolCalls = FALSE
  /\ firstTurn = FALSE
  /\ calls = <<>>
  /\ processedCount = 0
  /\ launched = 0
  /\ running = {}
  /\ results = <<>>
  /\ stream = <<>>
  /\ streamDone = FALSE
  /\ via = <<>>
  /\ called = <<>>

\* The tool calls a reply may ask for.
CallLists ==
  {<<>>} \union
  (IF Cardinality({t \in DOMAIN called : called[t] # <<>>}) < MaxToolTurns
   THEN UNION {[1..n -> CallKinds] : n \in 1..MaxCalls} ELSE {})

User == Prompt \/ DropFailedReply \/ ContinueWithSteering \/ ContinueWithFollowUp \/ ContinueFromContext
          \/ Steer \/ FollowUp \/ ClearAllQueues \/ Abort

Replies == (\E cs \in CallLists : Reply("assistant", cs)) \/ Reply("failed", <<>>)

Tools == \E k \in 1..MaxCalls : CompleteTool(k)

Loop == BeginTurn \/ PollFollowUps \/ ContinueOuterLoop \/ EndRun \/ Request
          \/ StopOnFailure \/ FinishTurnWithoutTools \/ StartTools
          \/ PollAfterTool \/ PollAfterGroup \/ FinishTurnWithTools

Consumer == Consume \/ FinishRun

Next == User \/ Loop \/ RequestThrows \/ Replies \/ Tools \/ Consumer

Spec == Init /\ [][Next]_vars

\* The event loop runs every continuation that is ready, the provider answers
\* every request and every tool returns.
FairSpec == Spec /\ WF_vars(Loop) /\ WF_vars(Replies) /\ WF_vars(Tools) /\ WF_vars(Consumer)

-----------------------------------------------------------------------------
(* Properties *)

\* The values the agent, the loop and the stream take; a call is running only
\* if it was launched and not processed.
TypeOK ==
  /\ messages \in Seq(Messages)
  /\ isStreaming \in BOOLEAN
  /\ pendingToolCalls \in SUBSET Nat
  /\ steeringQueue \in Seq(Messages)
  /\ followUpQueue \in Seq(Messages)
  /\ aborted \in BOOLEAN
  /\ pc \in Phases
  /\ context \in Seq(Messages)
  /\ pending \in Seq(Messages)
  /\ hasMoreToolCalls \in BOOLEAN
  /\ firstTurn \in BOOLEAN
  /\ calls \in Seq(CallKinds)
  /\ processedCount \in 0..Len(calls)
  /\ launched \in processedCount..Len(calls)
  /\ running \subseteq (processedCount + 1)..launched
  /\ results \in Seq(Messages)
  /\ stream \in Seq([type : EventTypes, message : Messages, call : Nat])
  /\ streamDone \in BOOLEAN
  /\ via \in Seq({"prompt", "steer", "followUp"})
  /\ called \in Seq(Seq(CallKinds))

IsResult(m) == m.kind \in {"result", "skipped"}

\* Results so far: one per processed call, in the order of the calls.
ResultsFor(n) ==
  /\ Len(results) = n
  /\ \A i \in 1..n : /\ results[i].call = i
                    /\ results[i].n = Len(called)
                    /\ IsResult(results[i])

\* When the tools of a turn are done there is one result for every call of the
\* reply, in the order of the calls, whether the call was executed alone, by
\* a worker of a parallel group, or skipped for a steering message.
ResultsComplete == pc = "toolsDone" => ResultsFor(Len(calls))

\* The reply at position i of a conversation is followed at once by one result
\* for each of its calls, which are as many as count.
AnsweredBy(conversation, i, count) ==
  /\ i + count <= Len(conversation)
  /\ \A j \in i + 1..i + count :
       IsResult(conversation[j]) /\ conversation[j].n = conversation[i].n
  /\ {conversation[j].call : j \in i + 1..i + count} = 1..count

AnsweredAt(conversation, i) ==
  AnsweredBy(conversation, i, Len(called[conversation[i].n]))

\* Every request the model gets is well formed: each reply is followed at once
\* by one result for each of its calls, executed or skipped, and there is no
\* other result. This holds across parallel groups, steering and runs.
ToolCallsAnswered ==
  pc \in {"request", "response"} =>
    /\ \A i \in DOMAIN context :
         context[i].kind = "assistant" => AnsweredAt(context, i)
    /\ \A i \in DOMAIN context : IsResult(context[i]) =>
         \E j \in 1..i - 1 : /\ context[j].kind = "assistant"
                            /\ context[j].n = context[i].n
                            /\ i <= j + Len(called[context[j].n])

\* After a run the agent's messages are the context the model saw, up to the
\* order in which the calls of one parallel group finished.
MessagesMatchContext ==
  pc = "ended" /\ stream = <<>> =>
    /\ Len(messages) = Len(context)
    /\ ToSet(messages) = ToSet(context)
    /\ \A i \in DOMAIN messages :
         \/ messages[i] = context[i]
         \/ IsResult(messages[i]) /\ IsResult(context[i]) /\ messages[i].n = context[i].n

\* What pendingToolCalls will be once the consumer caught up.
Drained ==
  LET About(k) == {i \in DOMAIN stream :
                     /\ stream[i].type \in {"tool_execution_start", "tool_execution_end"}
                     /\ stream[i].call = k}
  IN  {k \in pendingToolCalls \union {stream[i].call : i \in DOMAIN stream} :
         IF About(k) = {} THEN k \in pendingToolCalls
         ELSE stream[Max(About(k))].type = "tool_execution_start"}

\* pendingToolCalls follows the calls that are executing, skipped calls
\* included, and nothing is pending once a turn is over.
PendingCallsMatch == Drained = running

\* The consumer's view, built from events that arrive late, is the loop's.
ViewFollowsLoop == MessagesMatchContext /\ PendingCallsMatch

\* A call with side effects never overlaps another call, and no more calls
\* run at once than maxParallelTools allows.
WritesRunAlone ==
  /\ Cardinality(running) <= Concurrency
  /\ \A k \in running : calls[k] = "write" => running = {k}

\* What makes WritesRunAlone and ResultsComplete inductive: while calls
\* execute they belong to the group of the first call not processed yet, and
\* outside of that phase nothing executes.
ToolPhases == {"tools", "pollTool", "pollGroup"}

GroupRuns ==
  /\ pc # "tools" => running = {}
  /\ pc = "replied" => processedCount = 0 /\ results = <<>>
  /\ pc \in {"pollTool", "pollGroup"} => processedCount >= 1
  /\ pc \in ToolPhases => ResultsFor(processedCount)
  /\ pc = "tools" =>
       /\ running # {}
       /\ IF Parallel(calls, processedCount + 1)
          THEN /\ launched <= GroupEnd(calls, processedCount + 1)
               /\ Cardinality(running) <= Concurrency
          ELSE launched = processedCount + 1

IInv == TypeOK /\ GroupRuns /\ ResultsComplete

\* Calls are skipped only to let a steering message through: the first thing
\* after the results of that turn is a steering message.
SkipsAreExplained ==
  LET all == context \o pending
  IN  \A i \in DOMAIN all : all[i].kind = "skipped" =>
        \E j \in i + 1..Len(all) :
          /\ all[j].kind = "user"
          /\ via[all[j].n] = "steer"
          /\ \A k \in i + 1..j - 1 : IsResult(all[k])

\* Every run ends: the finally block of _runLoop is reached, so
\* waitForIdle() resolves.
RunEnds == (pc # "idle") ~> (pc = "idle")
-----------------------------------------------------------------------------
(* What makes the properties of the conversation inductive. `view` is what   *)
(* the agent's messages will be once the consumer caught up.                 *)

\* Every reply is followed at once by the results of the calls it asked for, and
\* there is no result besides.
WellAnswered(conversation, asked) ==
  /\ \A i \in DOMAIN conversation : conversation[i].kind = "assistant" =>
       /\ conversation[i].n \in DOMAIN asked
       /\ AnsweredBy(conversation, i, Len(asked[conversation[i].n]))
  /\ \A i \in DOMAIN conversation : IsResult(conversation[i]) =>
       \E j \in 1..i - 1 : /\ conversation[j].kind = "assistant"
                          /\ conversation[j].n = conversation[i].n
                          /\ i <= j + Len(asked[conversation[j].n])

\* Behind a skipped call, after nothing but results, comes a message that was
\* sent to steer.
SkipsFollowed(conversation, sent) ==
  \A i \in DOMAIN conversation : conversation[i].kind = "skipped" =>
    \E j \in i + 1..Len(conversation) :
      /\ conversation[j].kind = "user"
      /\ conversation[j].n \in DOMAIN sent /\ sent[conversation[j].n] = "steer"
      /\ \A k \in i + 1..j - 1 : IsResult(conversation[k])

\* Equal but for the order of the results of one reply.
Agree(view, conversation) ==
  /\ Len(view) = Len(conversation)
  /\ ToSet(view) = ToSet(conversation)
  /\ \A i \in DOMAIN view :
       \/ view[i] = conversation[i]
       \/ IsResult(view[i]) /\ IsResult(conversation[i]) /\ view[i].n = conversation[i].n

FromSteering(queue) ==
  \A i \in DOMAIN queue :
    queue[i].kind = "user" /\ queue[i].n \in DOMAIN via /\ via[queue[i].n] = "steer"

FromUser(queue) == \A i \in DOMAIN queue : queue[i].kind = "user"

\* A call is executing, as far as its last event in a stream says, or else what
\* the consumer of the stream knows.
About(events, i, k) ==
  events[i].type \in {"tool_execution_start", "tool_execution_end"} /\ events[i].call = k

Executing(events, known, k) ==
  \/ k \in known /\ \A i \in DOMAIN events : ~About(events, i, k)
  \/ \E i \in DOMAIN events :
       /\ About(events, i, k) /\ events[i].type = "tool_execution_start"
       /\ \A j \in i + 1..Len(events) : ~About(events, j, k)

\* The queues, and the messages that are about to be injected: none after the
\* head of a turn, but for the steering message that made the rest of the calls
\* be skipped.
QueuesInv ==
  /\ FromSteering(steeringQueue) /\ FromUser(followUpQueue) /\ FromUser(pending)
  /\ pending # <<>> => pc \in {"turnHead", "toolsDone", "followUps"}
  /\ pc \in ToolPhases => \A i \in DOMAIN results : results[i].kind = "result"
  /\ pc = "toolsDone" /\ (\E i \in DOMAIN results : results[i].kind = "skipped") =>
       pending # <<>> /\ FromSteering(pending)

\* The calls that the stream says are executing are.
StreamInv ==
  /\ pc = "idle" => stream = <<>>
  /\ \A k \in Nat : Executing(stream, pendingToolCalls, k) <=> k \in running

\* In the phases of a turn that follow its reply, the reply is the last message
\* of the context, after `talk`; in the view it comes after `seen`, and the
\* results of the calls that returned follow it, in the order in which they did.
AnsweringPhases == {"replied", "tools", "pollTool", "pollGroup", "toolsDone"}

LastReply == Message("assistant", Len(called), 0)

Answering(view, talk, seen, answers) ==
  /\ called # <<>> /\ calls = called[Len(called)]
  /\ context = Append(talk, LastReply)
  /\ view = Append(seen, LastReply) \o answers
  /\ Agree(seen, talk)
  /\ WellAnswered(talk, called) /\ WellAnswered(seen, called)
  /\ SkipsFollowed(talk, via) /\ SkipsFollowed(seen, via)
  /\ pc = "replied" => launched = 0
  /\ pc \in {"pollTool", "pollGroup"} => launched = processedCount
  /\ IF pc = "toolsDone"
     THEN /\ \A i \in DOMAIN answers : answers[i] = results[answers[i].call]
          /\ {answers[i].call : i \in DOMAIN answers} = 1..Len(calls)
          /\ Len(answers) = Len(calls)
     ELSE /\ \A i \in DOMAIN answers :
               answers[i] = Message("result", Len(called), answers[i].call)
          /\ {answers[i].call : i \in DOMAIN answers} = (1..launched) \ running
          /\ Len(answers) = Cardinality((1..launched) \ running)

\* In the other phases the view and the context agree, but between two runs,
\* when the context is that of the last run.
Settled(view) ==
  /\ WellAnswered(view, called)
  /\ SkipsFollowed(view \o pending, via) /\ SkipsFollowed(context \o pending, via)
  /\ pc # "idle" => WellAnswered(context, called) /\ Agree(view, context)
=============================================================================
