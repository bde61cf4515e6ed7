---------------------------- MODULE Conversation ----------------------------
(***************************************************************************)
(* What an agent promises to whoever talks to it (packages/agent/README.md,*)
(* the comments of prompt, steer, followUp and continue in agent.ts): a    *)
(* conversation in which every message of the user appears once, in the    *)
(* order of its queue, and the model speaks when it was spoken to.         *)
(*                                                                         *)
(* Nothing is said of turns, events, tools or the moment a queue is        *)
(* polled. AgentLoop implements this module.                               *)
(***************************************************************************)
EXTENDS Naturals, Sequences

VARIABLES
  sent,     \* how each message of the user was sent
  waiting,  \* the messages that wait, of each of the two queues
  talk,     \* the messages of the user and the replies, as the model sees them
  open      \* a run is in progress

convVars == <<sent, waiting, talk, open>>

Queues == {"steer", "followUp"}

Said(n) == [kind |-> "user", n |-> n, asks |-> FALSE]

\* A reply asks for tools, is the last word of a run, or has failed.
Replied(kind, asks) == [kind |-> kind, n |-> 0, asks |-> asks]

SaidAll(ns) == [i \in DOMAIN ns |-> Said(ns[i])]

\* The model has to speak: the user spoke last, or its tools did.
Asked(items) ==
  items # <<>> /\ (items[Len(items)].kind = "user" \/ items[Len(items)].asks)

Enqueue(queue) ==
  /\ sent' = Append(sent, queue)
  /\ waiting' = [waiting EXCEPT ![queue] = Append(@, Len(sent) + 1)]
  /\ UNCHANGED <<talk, open>>

Clear ==
  /\ waiting' = [q \in Queues |-> <<>>]
  /\ UNCHANGED <<sent, talk, open>>

\* The first k messages of a queue are added to the conversation.
Deliver(queue, k, items) ==
  /\ talk' = items \o SaidAll(SubSeq(waiting[queue], 1, k))
  /\ waiting' = [waiting EXCEPT ![queue] = SubSeq(@, k + 1, Len(@))]

\* Steering comes in at any point of a run, a follow-up when it would end.
DeliverSteering(k) ==
  /\ open
  /\ Deliver("steer", k, talk)
  /\ UNCHANGED <<sent, open>>

DeliverFollowUp(k) ==
  /\ open
  /\ ~Asked(talk)
  /\ Deliver("followUp", k, talk)
  /\ UNCHANGED <<sent, open>>

\* A prompt starts a run and takes waiting steering messages with it.
Start(k) ==
  /\ ~open
  /\ open' = TRUE
  /\ sent' = Append(sent, "prompt")
  /\ Deliver("steer", k, Append(talk, Said(Len(sent) + 1)))

\* A run goes on from what was said last, or else from what waits, steering
\* first.
Continue(queue, k) ==
  /\ ~open
  /\ open' = TRUE
  /\ ~Asked(talk) => k > 0
  /\ queue = "followUp" => ~Asked(talk) /\ waiting["steer"] = <<>>
  /\ Deliver(queue, k, talk)
  /\ UNCHANGED sent

Speak(kind, asks) ==
  /\ open
  /\ Asked(talk)
  /\ talk' = Append(talk, Replied(kind, asks))
  /\ UNCHANGED <<sent, waiting, open>>

\* A run ends when the model has had the last word.
Finish ==
  /\ open
  /\ ~Asked(talk)
  /\ open' = FALSE
  /\ UNCHANGED <<sent, waiting, talk>>

\* Before a retry a failed reply is taken back.
TakeBack ==
  /\ ~open
  /\ talk # <<>>
  /\ talk[Len(talk)].kind = "failed"
  /\ talk' = SubSeq(talk, 1, Len(talk) - 1)
  /\ UNCHANGED <<sent, waiting, open>>

ConvInit ==
  /\ sent = <<>>
  /\ waiting = [q \in Queues |-> <<>>]
  /\ talk = <<>>
  /\ open = FALSE

ConvNext ==
  \/ Clear \/ Finish \/ TakeBack
  \/ \E q \in Queues : Enqueue(q)
  \/ \E k \in 0..Len(waiting["steer"]) : DeliverSteering(k) \/ Start(k)
  \/ \E k \in 0..Len(waiting["followUp"]) : DeliverFollowUp(k)
  \/ \E q \in Queues : \E k \in 0..Len(waiting[q]) : Continue(q, k)
  \/ \E asks \in BOOLEAN : Speak("assistant", asks)
  \/ Speak("failed", FALSE)

ConvSpec == ConvInit /\ [][ConvNext]_convVars
=============================================================================
