-------------------------- MODULE TransformMessages --------------------------
(***************************************************************************)
(* What a provider is sent (packages/ai/src/providers/                     *)
(* transform-messages.ts): a conversation in which the tool calls of other *)
(* models have ids this provider accepts, the replies that failed are left *)
(* out, and a call that was never answered has an empty result. The        *)
(* conversations are the ones the agent keeps: results in the order of     *)
(* their calls, perhaps cut off by an abort or a crash, none for the calls *)
(* of a reply that failed.                                                 *)
(***************************************************************************)
EXTENDS Integers, Sequences, FiniteSets, FiniteSetsExt, SequencesExt

CONSTANTS
  MaxMessages,  \* bound: messages of a conversation
  MaxCalls      \* bound: tool calls of a reply

ASSUME TransformAssumption == MaxMessages \in Nat /\ MaxCalls \in Nat

VARIABLES
  conversation,
  lastCall      \* the id of the last tool call; ids are not used twice

transformVars == <<conversation, lastCall>>

User == [role |-> "user"]
Assistant(foreign, failed, calls) ==
  [role |-> "assistant", foreign |-> foreign, failed |-> failed, calls |-> calls]
Result(call) == [role |-> "toolResult", call |-> call]

\* normalizeToolCallId: one-to-one on the ids of a conversation.
Normalized(call) == -call

-----------------------------------------------------------------------------
(* transformMessages *)

\* toolCallIdMap when the message at k is looked at: the calls of replies of
\* another model up to there.
ForeignCalls(messages, k) ==
  UNION {Range(messages[j].calls) :
           j \in {i \in 1..k : messages[i].role = "assistant" /\ messages[i].foreign}}
IdMap_OnlyNeighbour(messages, k) ==
  ForeignCalls(messages, k) \ ForeignCalls(messages, Max({0, k - 2}))
IdMap(messages, k) == ForeignCalls(messages, k)

\* The first pass: calls of another model get a new id, and results follow.
Renamed(messages) ==
  LET Name(c, k) == IF c \in IdMap(messages, k) THEN Normalized(c) ELSE c
  IN  [k \in 1..Len(messages) |->
        CASE messages[k].role = "user" -> messages[k]
          [] messages[k].role = "assistant" ->
               [messages[k] EXCEPT !.calls = [i \in 1..Len(@) |-> Name(@[i], k)]]
          [] messages[k].role = "toolResult" -> Result(Name(messages[k].call, k))]

\* The second pass: a user message or a reply ends the turn before it, and the
\* calls of that turn without a result get one. A reply that failed is skipped,
\* its calls are not pending.
TurnBefore(messages, k) ==
  Max({0} \cup {j \in 1..k - 1 : messages[j].role # "toolResult"})
Answered(messages, j, k) == {messages[i].call : i \in j + 1..k - 1}
Orphans(messages, k) ==
  LET j == TurnBefore(messages, k)
  IN  IF messages[k].role = "toolResult" \/ j = 0 \/ messages[j].role = "user"
           \/ messages[j].failed
      THEN <<>>
      ELSE SelectSeq(messages[j].calls, LAMBDA c : c \notin Answered(messages, j, k))
Synthetic(calls) == [i \in 1..Len(calls) |-> Result(calls[i])]
Replayed(message) == IF message.role = "assistant" /\ message.failed THEN <<>> ELSE <<message>>

TransformedMessages(messages) ==
  LET renamed == Renamed(messages)
  IN  FlattenSeq([k \in 1..Len(messages) |->
                   Synthetic(Orphans(renamed, k)) \o Replayed(renamed[k])])

-----------------------------------------------------------------------------
(* The conversations of the agent *)

TransformInit == conversation = <<>> /\ lastCall = 0

Say(message, calls) ==
  /\ Len(conversation) < MaxMessages
  /\ conversation' = Append(conversation, message)
  /\ lastCall' = lastCall + calls

AddUser == Say(User, 0)
AddAssistant ==
  \E foreign \in BOOLEAN, failed \in BOOLEAN, n \in 0..MaxCalls :
    /\ conversation # <<>>
    /\ Say(Assistant(foreign, failed, [i \in 1..n |-> lastCall + i]), n)
AddResult ==
  LET j == TurnBefore(conversation, Len(conversation) + 1)
      answered == Len(conversation) - j
  IN  /\ j > 0 /\ conversation[j].role = "assistant" /\ ~conversation[j].failed
      /\ answered < Len(conversation[j].calls)
      /\ Say(Result(conversation[j].calls[answered + 1]), 0)

TransformNext == AddUser \/ AddAssistant \/ AddResult

-----------------------------------------------------------------------------
(* Properties *)

TransformTypeOK ==
  /\ Len(conversation) <= MaxMessages
  /\ \A k \in 1..Len(conversation) : conversation[k].role \in {"user", "assistant", "toolResult"}
  /\ lastCall \in Nat

\* A request is well formed whichever models the conversation is from and
\* wherever it was cut: every call of a reply has exactly one result, under the
\* id the call is sent with, before the next message that is none; every result
\* is one of the reply before it. Only the last reply may be waiting.
CallsAnsweredOnWire ==
  LET wire == TransformedMessages(conversation)
      Block(k) == {i \in k + 1..Len(wire) :
                     \A m \in k + 1..i : wire[m].role = "toolResult"}
  IN  \A k \in 1..Len(wire) :
        /\ wire[k].role = "toolResult" =>
             LET j == TurnBefore(wire, k)
             IN  /\ j > 0 /\ wire[j].role = "assistant"
                 /\ wire[k].call \in Range(wire[j].calls)
        /\ wire[k].role = "assistant" =>
             \A c \in Range(wire[k].calls) :
               LET answers == Cardinality({i \in Block(k) : wire[i].call = c})
               IN  answers = 1 \/ (answers = 0 /\ Block(k) = k + 1..Len(wire))
=============================================================================
