----------------------------- MODULE Compaction -----------------------------
(***************************************************************************)
(* What a compaction keeps and what it summarises                          *)
(* (packages/coding-agent/src/core/compaction/compaction.ts), over the     *)
(* entries of one branch of a session that is used and compacted again and *)
(* again. A summary is the set of the messages whose content it carries,   *)
(* first hand or through the summary before it.                            *)
(*                                                                         *)
(* Kinds of entry: "user"; "bash", a command of the user; "call", a reply  *)
(* that calls tools; "result"; "reply", one that does not; "custom", a     *)
(* custom_message or branch_summary entry; "meta", an entry that is not in *)
(* the context; "compaction".                                              *)
(***************************************************************************)
EXTENDS Integers, Sequences, FiniteSets, FiniteSetsExt, SequencesExt

CONSTANTS
  KeepRecent,     \* settings.keepRecentTokens
  Sizes,          \* what estimateTokens may return
  MaxEntries,     \* bound on the entries
  MaxCompactions  \* bound on the compactions

ASSUME CAssumption ==
  /\ KeepRecent \in Nat
  /\ Sizes \subseteq Nat
  /\ MaxEntries \in Nat
  /\ MaxCompactions \in Nat

VARIABLE path     \* the entries from the root to the leaf

MessageKinds == {"user", "bash", "call", "result", "reply"}
Kinds == MessageKinds \cup {"custom", "meta", "compaction"}

\* size counts for messages; first, history, prefix and covers for compactions.
Entry == [kind : Kinds, size : Sizes \cup {0}, first : Nat,
          history : SUBSET Nat, prefix : SUBSET Nat, covers : SUBSET Nat]
NewEntry(kind, size) ==
  [kind |-> kind, size |-> size, first |-> 0, history |-> {}, prefix |-> {}, covers |-> {}]

IsMessage(i) == path[i].kind \in MessageKinds
IsCompaction(i) == path[i].kind = "compaction"

\* getMessageFromEntry gives a message, compactions aside: none is ever in a
\* range that is summarised or kept.
InRange(from, to) == {i \in from..to : IsMessage(i) \/ path[i].kind = "custom"}

PreviousCompaction(c) == Max({i \in 1..c - 1 : IsCompaction(i)} \cup {0})

-----------------------------------------------------------------------------
(* The cut point among the entries from..to *)

CutKinds_Results == MessageKinds \cup {"custom"}
CutKinds == (MessageKinds \ {"result"}) \cup {"custom"}
CutPoints(from, to) == {i \in from..to : path[i].kind \in CutKinds}

\* The tokens of the messages i..to; a custom_message counts for nothing.
Tokens(i, to) == MapThenSumSet(LAMBDA k : path[k].size, {k \in i..to : IsMessage(k)})
Enough(from, to) == {i \in from..to : IsMessage(i) /\ Tokens(i, to) >= KeepRecent}

CutAtOrAfter_Strictly(i, cuts) == {c \in cuts : c > i}
CutAtOrAfter(i, cuts) == {c \in cuts : c >= i}

\* The walk back stops at the last message with enough tokens from it on; the
\* cut is the next cut point, or the first of all.
CutIndex(from, to) ==
  LET cuts == CutPoints(from, to)
      enough == Enough(from, to)
      next == IF enough = {} THEN {} ELSE CutAtOrAfter(Max(enough), cuts)
  IN  IF cuts = {} THEN from ELSE IF next = {} THEN Min(cuts) ELSE Min(next)

\* The entries before the cut that are not messages are kept with it.
FirstKept(from, to) ==
  LET cut == CutIndex(from, to)
  IN  Min({k \in from..cut : \A j \in k..cut - 1 : ~IsMessage(j) /\ ~IsCompaction(j)})

\* findTurnStartIndex, 0 for none.
TurnStart(from, i) ==
  Max({j \in from..i : path[j].kind \in {"user", "bash", "custom"}} \cup {0})

-----------------------------------------------------------------------------
(* prepareCompaction and compact *)

SplitAt(from, first) == IF path[first].kind = "user" THEN 0 ELSE TurnStart(from, first)

HistoryEnd_First(split, first) == first
HistoryEnd_Inclusive(split, first) == first + 1
HistoryEnd(split, first) == IF split = 0 THEN first ELSE split

\* The content of the new summary. A split turn gets one of its own beside
\* the history's; without a history that one says so, and the summary before
\* is not passed on.
Covered(history, prefix, previous) ==
  IF prefix # {} /\ history = {} THEN prefix ELSE history \cup prefix \cup previous

CompactionEntry(n) ==
  LET previous == PreviousCompaction(n + 1)
      from == previous + 1
      first == FirstKept(from, n)
      split == SplitAt(from, first)
      history == InRange(from, HistoryEnd(split, first) - 1)
      prefix == IF split = 0 THEN {} ELSE InRange(split, first - 1)
  IN  [NewEntry("compaction", 0) EXCEPT
         !.first = first, !.history = history, !.prefix = prefix,
         !.covers = Covered(history, prefix,
                            IF previous = 0 THEN {} ELSE path[previous].covers)]

-----------------------------------------------------------------------------
(* The session *)

\* The last entry that is not a setting, a label or the like.
LastKind ==
  LET i == Max({k \in DOMAIN path : path[k].kind # "meta"} \cup {0})
  IN  IF i = 0 THEN "none" ELSE path[i].kind

\* Results follow their call. A run may end anywhere, by a crash or by the
\* /compact that stops listening before it aborts: the user goes on after a call
\* without results. A retry answers again after a failed reply.
MayFollow(kind) ==
  CASE kind = "result" -> LastKind \in {"call", "result"}
    [] kind \in {"call", "reply"} -> LastKind \notin {"none", "call"}
    [] OTHER -> TRUE

AppendEntry(kind, size) ==
  /\ Len(path) < MaxEntries
  /\ kind # "compaction" /\ MayFollow(kind)
  /\ size = 0 <=> kind \in {"meta", "custom"}
  /\ path' = Append(path, NewEntry(kind, size))

\* Not twice in a row; nothing is asked of what the branch ends with.
Compact ==
  /\ Cardinality({i \in DOMAIN path : IsCompaction(i)}) < MaxCompactions
  /\ path # <<>> /\ ~IsCompaction(Len(path))
  /\ path' = Append(path, CompactionEntry(Len(path)))

CompactionInit == path = <<>>
CompactionNext ==
  Compact \/ \E kind \in Kinds, size \in Sizes \cup {0} : AppendEntry(kind, size)

-----------------------------------------------------------------------------
(* Properties *)

\* What buildSessionContext gives to the model, besides the last summary.
LastCompaction == PreviousCompaction(Len(path) + 1)
Context ==
  IF LastCompaction = 0 THEN InRange(1, Len(path))
  ELSE InRange(path[LastCompaction].first, Len(path))

\* A compaction names an earlier entry and summarises earlier messages.
CompactionTypeOK ==
  /\ path \in Seq(Entry)
  /\ \A c \in DOMAIN path : IsCompaction(c) =>
       /\ path[c].first \in 1..c - 1
       /\ path[c].covers \subseteq 1..path[c].first - 1

\* A tool result in the context has its call there: providers refuse a result
\* without one (findValidCutPoints).
NoOrphanResults ==
  \A r \in Context : path[r].kind = "result" =>
    Max({k \in 1..r : path[k].kind = "call"}) \in Context

\* A compaction keeps less than keepRecentTokens besides the first message it
\* keeps, so that it frees the context, and keeping from any earlier cut point
\* on would keep that much (findCutPoint). When the results at the end of the
\* branch are that many there is no cut point after them, and all is kept.
ResultsFill(from, to) ==
  LET cuts == CutPoints(from, to)
  IN  cuts # {} /\ Tokens(Max(cuts) + 1, to) >= KeepRecent

KeepsRecent ==
  \A c \in DOMAIN path : IsCompaction(c) =>
    LET from == PreviousCompaction(c) + 1
        first == path[c].first
    IN  /\ \/ \E m \in first..c - 1 :
                (\A k \in first..m - 1 : ~IsMessage(k)) /\ Tokens(m + 1, c - 1) < KeepRecent
           \/ ResultsFill(from, c - 1) /\ InRange(from, first - 1) = {}
        /\ \A k \in CutPoints(from, first - 1) : Tokens(k + 1, c - 1) >= KeepRecent

\* Each message between the last compaction and the first kept entry goes into
\* exactly one of the two summaries, and none that is kept is in a summary
\* (prepareCompaction, compact).
SummarisedOnce ==
  \A c \in DOMAIN path : IsCompaction(c) =>
    LET e == path[c]
    IN  /\ e.history \cap e.prefix = {}
        /\ e.history \cup e.prefix = InRange(PreviousCompaction(c) + 1, e.first - 1)
        /\ e.covers \cap InRange(e.first, c) = {}

\* What is cut off is summarised, what stays makes sense to the model.
CompactionSound == NoOrphanResults /\ KeepsRecent /\ SummarisedOnce

\* A message is in the context or in the summary: "Messages to summarize (will
\* be discarded after summary)".
NothingForgotten ==
  InRange(1, Len(path)) \subseteq
    Context \cup (IF LastCompaction = 0 THEN {} ELSE path[LastCompaction].covers)
=============================================================================
