---------------------------- MODULE SlackChannel -----------------------------
(***************************************************************************)
(* One channel of the Slack bot (packages/mom/src/slack.ts, main.ts,       *)
(* agent.ts, context.ts). Every message a user sends is to be a line of    *)
(* log.jsonl, whoever it is for; before a run the lines are synced into    *)
(* the session the model reads (context.jsonl), compared by their text.    *)
(*                                                                         *)
(* The time stamp of a message is its index in sent. Only the messages of  *)
(* users are entries here: of replies it matters that the first one makes  *)
(* the session manager write the file (see SessionManager). Attachments,   *)
(* threads and what the bot posts are left out; "stop" only aborts the     *)
(* request, so that its reply, aborted, comes as any other.                *)
(***************************************************************************)
EXTENDS Integers, Sequences, FiniteSets, SequencesExt

CONSTANTS
  SlackMessages,   \* what users may send: [user, text, kind], see MessageUses
  OldUsers,        \* the users that the workspace has from the start
  EventLimit,      \* works that wait when enqueueEvent discards an event
  SlackScopes      \* bounds, of which a behaviour has one: messages, messages that
                   \* Slack brings twice, processes one after the other, and events

\* A mention or a direct message is for the bot, chatter is not.
MessageUses == {"trigger", "stop", "chatter"}

ASSUME SlackAssumption ==
  /\ \A m \in SlackMessages : m.kind \in MessageUses /\ m.user # "unknown"
  /\ EventLimit \in Nat \ {0}
  /\ SlackScopes \subseteq [sent : Nat, twice : Nat, starts : Nat, events : Nat]

VARIABLES
  sent,       \* the channel at Slack: [message, deliveries], oldest first
  log,        \* log.jsonl: [ts, label]
  entries,    \* the user messages of the session: [ts, label, prompted]; 0 is an event
  flushed,    \* the session has a reply, so entries are on disk
  bot,        \* how far start() is
  startupTs,  \* 0 until the bot has started
  users,      \* the users the bot knows by name
  waiting,    \* ChannelQueue.queue: time stamps of messages, 0 for an event
  run,        \* what is executed: its phase, its message, the lines it has synced
  starts, slackEvents,
  slackScope

channelVars == <<sent, log>>
sessionVars == <<entries, flushed>>
botVars == <<bot, startupTs, users, starts>>
workVars == <<waiting, run>>
boundVars == <<slackEvents, slackScope>>
slackVars == <<channelVars, sessionVars, botVars, workVars, boundVars>>

Idle == [phase |-> "idle", ts |-> 0, read |-> 0]

\* A line has the user's name, or the id when the name is not known, and the
\* text; the prompt of a user without a name has "unknown".
LoggedLabel(m) == [user |-> m.user, named |-> m.user \in users, text |-> m.text]
PromptLabel(ts) ==
  IF ts = 0 THEN [user |-> "unknown", named |-> FALSE, text |-> "event"]
  ELSE LET m == sent[ts].message
       IN  IF m.user \in users THEN LoggedLabel(m)
           ELSE [user |-> "unknown", named |-> FALSE, text |-> m.text]

Labels(list) == {list[i].label : i \in 1..Len(list)}

-----------------------------------------------------------------------------
(* Slack *)

Send(m) ==
  /\ Len(sent) < slackScope.sent
  /\ sent' = Append(sent, [message |-> m, deliveries |-> 0])
  /\ UNCHANGED <<log, sessionVars, botVars, workVars, boundVars>>

-----------------------------------------------------------------------------
(* Start and backfill *)

\* The names may include the users that came since.
StartBot ==
  /\ bot = "down" /\ starts < slackScope.starts
  /\ bot' = "starting" /\ starts' = starts + 1 /\ startupTs' = 0
  /\ users' \in {users, OldUsers \cup {m.user : m \in SlackMessages}}
  /\ UNCHANGED <<channelVars, sessionVars, workVars, boundVars>>

\* backfillChannel: what is newer than the newest line, in a channel with a log.
Latest == CHOOSE ts \in {log[k].ts : k \in 1..Len(log)} : \A k \in 1..Len(log) : log[k].ts <= ts

Backfill ==
  /\ bot = "starting"
  /\ bot' = "backfilled"
  /\ log' = IF log = <<>> THEN log
            ELSE log \o [k \in 1..Len(sent) - Latest |->
                           [ts |-> Latest + k, label |-> LoggedLabel(sent[Latest + k].message)]]
  /\ UNCHANGED <<sent, sessionVars, startupTs, users, starts, workVars, boundVars>>

Connect ==
  /\ bot = "backfilled"
  /\ bot' = "connected"
  /\ UNCHANGED <<channelVars, sessionVars, startupTs, users, starts, workVars, boundVars>>

\* The clock of the bot, after every message there is.
SetStartupTs ==
  /\ bot = "connected" /\ startupTs = 0
  /\ startupTs' = Len(sent) + 1
  /\ UNCHANGED <<channelVars, sessionVars, bot, users, starts, workVars, boundVars>>

-----------------------------------------------------------------------------
(* Messages, events and the queue *)

\* ChannelQueue.processNext with handleEvent up to its first await.
Begins(ts) == run' = [phase |-> "typing", ts |-> ts, read |-> 0]

\* A message comes, late, out of order or once more. It is logged; one that is
\* not from before the start and is for the bot runs unless something does.
Deliver(ts) ==
  LET m == sent[ts].message
  IN  /\ bot = "connected"
      /\ \/ sent[ts].deliveries = 0
         \/ /\ sent[ts].deliveries = 1
            /\ Cardinality({t \in 1..Len(sent) : sent[t].deliveries = 2}) < slackScope.twice
      /\ sent' = [sent EXCEPT ![ts].deliveries = @ + 1]
      /\ log' = Append(log, [ts |-> ts, label |-> LoggedLabel(m)])
      /\ IF m.kind = "trigger" /\ run = Idle /\ ~(startupTs # 0 /\ ts < startupTs)
         THEN Begins(ts) ELSE UNCHANGED run
      /\ UNCHANGED <<sessionVars, botVars, waiting, boundVars>>

\* Events come from the start of the process on, and wait their turn.
EnqueueEvent ==
  /\ bot # "down" /\ slackEvents < slackScope.events
  /\ slackEvents' = slackEvents + 1
  /\ IF Len(waiting) >= EventLimit THEN UNCHANGED <<workVars>>
     ELSE IF run = Idle THEN Begins(0) /\ UNCHANGED waiting
     ELSE waiting' = Append(waiting, 0) /\ UNCHANGED run
  /\ UNCHANGED <<channelVars, sessionVars, botVars, slackScope>>

-----------------------------------------------------------------------------
(* A run *)

\* The lines that syncLogToSessionManager adds: not the current message, which
\* the prompt brings, and no text that an entry or a line before has.
Lacking_LiveOnes(line, added, ts) ==
  /\ line.ts # ts
  /\ line.label \notin Labels(SelectSeq(entries, LAMBDA e : ~e.prompted)) \cup Labels(added)
Lacking_Current(line, added, ts) == line.label \notin Labels(entries) \cup Labels(added)
Lacking_Old(line, added, ts) ==
  line.ts # ts /\ ~(\E e \in ToSet(entries) : e.ts >= line.ts) /\ line.label \notin Labels(added)
Lacking(line, added, ts) ==
  /\ line.ts # ts
  /\ line.label \notin Labels(entries) \cup Labels(added)

Synced(ts) ==
  SortSeq(FoldLeft(LAMBDA added, line :
                     IF Lacking(line, added, ts)
                     THEN Append(added, [ts |-> line.ts, label |-> line.label, prompted |-> FALSE])
                     ELSE added, <<>>, log),
          LAMBDA a, b : a.ts < b.ts)

\* The status is posted, the run begins with the sync.
Sync ==
  /\ run.phase = "typing"
  /\ entries' = entries \o Synced(run.ts)
  /\ run' = [run EXCEPT !.phase = "synced", !.read = Len(log)]
  /\ UNCHANGED <<channelVars, flushed, botVars, waiting, boundVars>>

\* session.prompt, after the files it waits for.
Prompt ==
  /\ run.phase = "synced"
  /\ entries' = Append(entries, [ts |-> run.ts, label |-> PromptLabel(run.ts), prompted |-> TRUE])
  /\ run' = [run EXCEPT !.phase = "asking"]
  /\ UNCHANGED <<channelVars, flushed, botVars, waiting, boundVars>>

\* The reply, an error or an abort: a message of the assistant.
Reply ==
  /\ run.phase = "asking"
  /\ flushed' = TRUE
  /\ run' = [run EXCEPT !.phase = "replied"]
  /\ UNCHANGED <<channelVars, entries, botVars, waiting, boundVars>>

\* The run returns, or the prompt throws (no model, no key); then the next
\* work, in the same turn of the event loop.
RunEnds ==
  /\ run.phase \in {"synced", "replied"}
  /\ IF waiting = <<>> THEN run' = Idle /\ UNCHANGED waiting
     ELSE Begins(Head(waiting)) /\ waiting' = Tail(waiting)
  /\ UNCHANGED <<channelVars, sessionVars, botVars, boundVars>>

Crash ==
  /\ bot # "down"
  /\ bot' = "down" /\ startupTs' = 0
  /\ entries' = IF flushed THEN entries ELSE <<>>
  /\ waiting' = <<>> /\ run' = Idle
  /\ UNCHANGED <<channelVars, flushed, users, starts, boundVars>>

SlackInit ==
  /\ sent = <<>> /\ log = <<>> /\ entries = <<>> /\ flushed = FALSE
  /\ bot = "down" /\ startupTs = 0 /\ users = OldUsers
  /\ waiting = <<>> /\ run = Idle /\ starts = 0 /\ slackEvents = 0
  /\ slackScope \in SlackScopes

SlackNext ==
  \/ \E m \in SlackMessages : Send(m)
  \/ StartBot \/ Backfill \/ Connect \/ SetStartupTs
  \/ \E ts \in 1..Len(sent) : Deliver(ts)
  \/ EnqueueEvent \/ Sync \/ Prompt \/ Reply \/ RunEnds \/ Crash

-----------------------------------------------------------------------------
(* Properties *)

SlackTypeOK ==
  LET labels == [user : {m.user : m \in SlackMessages} \cup {"unknown"}, named : BOOLEAN,
                 text : {m.text : m \in SlackMessages} \cup {"event"}]
  IN  /\ sent \in Seq([message : SlackMessages, deliveries : 0..2])
      /\ log \in Seq([ts : 1..Len(sent), label : labels])
      /\ entries \in Seq([ts : 0..Len(sent), label : labels, prompted : BOOLEAN])
      /\ flushed \in BOOLEAN
      /\ bot \in {"down", "starting", "backfilled", "connected"}
      /\ startupTs \in 0..slackScope.sent + 1
      /\ waiting \in Seq({0})
      /\ run \in [phase : {"idle", "typing", "synced", "asking", "replied"},
                  ts : 0..Len(sent), read : 0..Len(log)]

\* When the model is asked, its session has every message the log had when the
\* run began (a compaction may have summarised it): after crashes, failed
\* prompts, runs for others and backfills, and whichever way each message came.
ReadsTheLog ==
  run.phase = "asking" =>
    \A k \in 1..run.read :
      \E e \in ToSet(entries) :
        e.label = log[k].label \/ (e.ts = log[k].ts /\ e.ts = run.ts /\ e.prompted)

\* A sync never brings a text that the session has; and a message of a user
\* with a name that was prompted is not synced as well, unless the log has it
\* more than once (brought again by Slack, or brought after the backfill).
ReadsOnce ==
  /\ \A i, j \in 1..Len(entries) :
       i < j /\ entries[i].label = entries[j].label => entries[j].prompted
  /\ \A i, j \in 1..Len(entries) :
       entries[i].ts = entries[j].ts /\ entries[i].prompted /\ ~entries[j].prompted =>
         \/ ~entries[j].label.named
         \/ Cardinality({k \in 1..Len(log) : log[k].ts = entries[i].ts}) > 1

ChannelIsRead == ReadsTheLog /\ ReadsOnce
=============================================================================
