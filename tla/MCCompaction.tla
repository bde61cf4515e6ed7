---------------------------- MODULE MCCompaction ----------------------------
(* Compaction alone, as a specification for TLC. *)
EXTENDS Compaction

Init == CompactionInit
Next == CompactionNext
Spec == Init /\ [][Next]_path
=============================================================================
