-------------------------- MODULE MCSessionManager --------------------------
(* Instances of SessionManager for TLC. *)
EXTENDS SessionManager, TLC

CONSTANTS f1, f2

MCFiles == {f1, f2}
Symmetry == Permutations(MCFiles)

\* The other kinds are appended like "assistant" and a summary like them.
KeptKinds    == {"assistant", "compaction", "label"}
SummaryKinds == {"assistant", "branch_summary", "label"}
ForkKinds == {"user", "assistant", "label"}

Quiet(kinds) ==
  [kinds |-> kinds, entries |-> 4, faults |-> 0,
   tear |-> FALSE, touch |-> FALSE, old |-> FALSE]

TreeScopes == {Quiet(KeptKinds), Quiet(SummaryKinds)}

\* A crash or a failed write, that of a label too, torn lines, a file that
\* exists empty; and two of them in a row.
FaultScope(kinds, count, times, exists) ==
  [kinds |-> kinds, entries |-> count, faults |-> times,
   tear |-> TRUE, touch |-> exists, old |-> FALSE]
FaultScopes == {FaultScope(ForkKinds, 3, 1, TRUE), FaultScope({"user", "assistant"}, 2, 2, FALSE)}

\* A version 1 file of three entries, migrated and then used.
OldScope ==
  [kinds |-> KeptKinds, entries |-> 4, faults |-> 1,
   tear |-> FALSE, touch |-> FALSE, old |-> TRUE]

StoreScopes == TreeScopes \cup FaultScopes \cup {OldScope}
ForkScopes  == {Quiet(ForkKinds)}
=============================================================================
