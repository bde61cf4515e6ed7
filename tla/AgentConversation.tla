-------------------------- MODULE AgentConversation --------------------------
(***************************************************************************)
(* AgentLoop implements Conversation: the queues of the agent are what     *)
(* waits, and what was said is the context of the running loop with the    *)
(* messages it is about to inject, or the agent's messages between runs.   *)
(* Tool results are a part of the reply that asked for them.               *)
(***************************************************************************)
EXTENDS AgentLoop

Numbers(queue) == [i \in DOMAIN queue |-> queue[i].n]

Item(m, asked) ==
  [kind |-> m.kind,
   n    |-> IF m.kind = "user" THEN m.n ELSE 0,
   asks |-> m.kind = "assistant" /\ asked[m.n] # <<>>]

\* What the user and the model said, up to each message of a conversation.
SaidUpTo(ms, asked) ==
  LET upTo[i \in 0..Len(ms)] ==
        IF i = 0 THEN <<>>
        ELSE IF IsResult(ms[i]) THEN upTo[i - 1]
        ELSE Append(upTo[i - 1], Item(ms[i], asked))
  IN  upTo

Items(ms, asked) == SaidUpTo(ms, asked)[Len(ms)]

Waiting ==
  [q \in {"steer", "followUp"} |-> Numbers(IF q = "steer" THEN steeringQueue ELSE followUpQueue)]

Talk == Items(IF pc = "idle" THEN messages ELSE context \o pending, called)

AsConversation ==
  INSTANCE Conversation WITH
    sent <- via, waiting <- Waiting, talk <- Talk, open <- pc # "idle"

\* Whatever the user sends, clears and aborts, whatever fails and whenever the
\* loop polls its queues, the conversation is one that Conversation allows: no
\* message is lost, repeated or overtaken in its queue, a follow-up waits for
\* the last word of the model, and the model is asked only when the user or
\* its tools spoke last.
IsConversation == AsConversation!ConvSpec

\* What the proof of it needs besides the invariants of AgentLoop: in each
\* phase of a run, whether the model has to speak.
AskedInv ==
  LET asked(ms) == AsConversation!Asked(Items(ms, called))
  IN  /\ pc = "turnHead" =>
           (asked(context \o pending) <=> hasMoreToolCalls \/ pending # <<>>)
      /\ pc \in {"request", "response"} => asked(context \o pending)
      /\ pc = "followUps" => ~hasMoreToolCalls /\ ~asked(context)
      /\ pc \in {"failed", "ended"} => ~asked(context \o pending)
      /\ pc \in ToolPhases \union {"toolsDone"} => hasMoreToolCalls /\ calls # <<>>
=============================================================================
