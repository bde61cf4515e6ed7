--------------------------- MODULE SettingsManager ---------------------------
(***************************************************************************)
(* The settings (packages/coding-agent/src/core/settings-manager.ts): the  *)
(* global and the project file are loaded into memory once; a setter       *)
(* changes memory, marks the field and puts a write on one queue. A write  *)
(* merges the fields that were marked into what the file says by then, so  *)
(* that other processes may change other fields. A nested key is a field   *)
(* of its own here, as it is for the merge.                                *)
(***************************************************************************)
EXTENDS Integers, Sequences, FiniteSets

CONSTANTS
  Fields,
  MaxSets,    \* bound: changes by this process
  MaxEdits,   \* bound: changes of a file by others
  MaxFaults   \* bound: writes and loads that fail though the file is well-formed

ASSUME SettingsAssumption == MaxSets \in Nat /\ MaxEdits \in Nat /\ MaxFaults \in Nat

VARIABLES
  disk,       \* by scope, the file: its state and the value of each field
  memory,     \* globalSettings, projectSettings
  modified,   \* modifiedFields, modifiedProjectFields
  loadError,
  writeQueue, \* the writes enqueueWrite has chained
  missing,    \* the first of them found no file, and has not yet locked it
  sets, edits, faults,
  wanted,     \* by scope and field, the last value this process set, Unset if none
  excused,    \* the changes that are lost, each by one of the ways documented below
  theirs      \* the fields others changed while no change of this process was under way,
              \* and that no first write of a file has overwritten

settingsVars == <<disk, memory, modified, loadError, writeQueue, missing, sets, edits,
                  faults, wanted, excused, theirs>>
SettingsScopes == {"global", "project"}
Unset == 0
Other == -1   \* a value another process wrote
Blank == [f \in Fields |-> Unset]

\* persistScopedSettings: the fields of the write over what the file says.
Merged_WholeSnapshot(write, current) == write.snapshot
Merged(write, current) ==
  [f \in Fields |-> IF f \in write.fields THEN write.snapshot[f] ELSE current[f]]

\* What clearModifiedScope leaves after a write of a scope, and after one that
\* failed.
MarksAfter_ClearsOnFailure(scope, succeeded) == [modified EXCEPT ![scope] = {}]
MarksAfter(scope, succeeded) ==
  IF succeeded THEN [modified EXCEPT ![scope] = {}] ELSE modified

Of(scope, fields) == {<<scope, f>> : f \in fields}

SettingsInit ==
  /\ \E state \in [SettingsScopes -> {"absent", "json", "broken"}] :
       /\ disk = [s \in SettingsScopes |-> [state |-> state[s], at |-> Blank]]
       /\ loadError = [s \in SettingsScopes |-> state[s] = "broken"]
  /\ memory = [s \in SettingsScopes |-> Blank]
  /\ modified = [s \in SettingsScopes |-> {}]
  /\ writeQueue = <<>> /\ missing = FALSE
  /\ sets = 0 /\ edits = 0 /\ faults = 0
  /\ wanted = [s \in SettingsScopes |-> Blank]
  /\ excused = {} /\ theirs = {}

\* A setter. When the file could not be loaded the change stays in memory.
Set(scope, field) ==
  LET fresh == [memory[scope] EXCEPT ![field] = sets + 1]
      marked == modified[scope] \cup {field}
  IN  /\ ~missing
      /\ sets < MaxSets
      /\ sets' = sets + 1
      /\ memory' = [memory EXCEPT ![scope] = fresh]
      /\ modified' = [modified EXCEPT ![scope] = marked]
      /\ wanted' = [wanted EXCEPT ![scope][field] = sets + 1]
      /\ theirs' = theirs \ {<<scope, field>>}
      /\ \/ /\ loadError[scope]
            /\ excused' = excused \cup {<<scope, field>>}
            /\ UNCHANGED writeQueue
         \/ /\ ~loadError[scope]
            /\ excused' = excused \ {<<scope, field>>}
            /\ writeQueue' = Append(writeQueue,
                 [scope |-> scope, snapshot |-> fresh, fields |-> marked])
      /\ UNCHANGED <<disk, loadError, missing, edits, faults>>

\* withLock looks for the file before it takes the lock. What a file that is not
\* there says is nothing; this process does nothing else until it has written,
\* but another one may create the file.
LooksForFile ==
  /\ writeQueue # <<>> /\ ~missing
  /\ disk[Head(writeQueue).scope].state = "absent"
  /\ missing' = TRUE
  /\ UNCHANGED <<disk, memory, modified, loadError, writeQueue, sets, edits, faults, wanted,
                 excused, theirs>>

\* A file that was there is locked, read and written; the other one is locked
\* now, and written without what another process put there since.
HasText(write) == missing \/ disk[write.scope].state = "json"
TextRead(write) == IF missing THEN Blank ELSE disk[write.scope].at

Write ==
  LET write == Head(writeQueue)
  IN  /\ writeQueue # <<>>
      /\ HasText(write)
      /\ writeQueue' = Tail(writeQueue)
      /\ missing' = FALSE
      /\ disk' = [disk EXCEPT ![write.scope] =
                    [state |-> "json", at |-> Merged(write, TextRead(write))]]
      /\ modified' = MarksAfter(write.scope, TRUE)
      /\ theirs' = IF missing THEN theirs \ Of(write.scope, Fields) ELSE theirs
      /\ UNCHANGED <<memory, loadError, sets, edits, faults, wanted, excused>>

\* The file is not JSON, or another process holds the lock: the marks stay, so
\* that the next write of the scope carries the fields; but a field whose mark
\* an earlier write has cleared is forgotten.
WriteFails ==
  LET write == Head(writeQueue)
  IN  /\ writeQueue # <<>>
      /\ \/ disk[write.scope].state = "broken" /\ ~missing /\ UNCHANGED faults
         \/ faults < MaxFaults /\ faults' = faults + 1
      /\ writeQueue' = Tail(writeQueue)
      /\ missing' = FALSE
      /\ modified' = MarksAfter(write.scope, FALSE)
      /\ excused' = excused \cup Of(write.scope, write.fields \ modified[write.scope])
      /\ UNCHANGED <<disk, memory, loadError, sets, edits, wanted, theirs>>

\* writeFileSync truncates before it writes: when the disk is full the file is
\* left empty, and is read as one without settings.
WriteTruncates ==
  LET write == Head(writeQueue)
  IN  /\ writeQueue # <<>>
      /\ HasText(write)
      /\ faults < MaxFaults /\ faults' = faults + 1
      /\ writeQueue' = Tail(writeQueue)
      /\ missing' = FALSE
      /\ disk' = [disk EXCEPT ![write.scope] = [state |-> "json", at |-> Blank]]
      /\ modified' = MarksAfter(write.scope, FALSE)
      /\ excused' = excused \cup Of(write.scope, Fields \ modified[write.scope])
      /\ theirs' = theirs \ Of(write.scope, Fields)
      /\ UNCHANGED <<memory, loadError, sets, edits, wanted>>

\* reload: memory is what the files say, except for a file that cannot be read;
\* no change is marked any more, though its write may still be waiting.
Reload ==
  \E locked \in SUBSET SettingsScopes :
    LET fails == {s \in SettingsScopes : disk[s].state = "broken"} \cup locked
    IN  /\ ~missing
        /\ faults + Cardinality(locked) <= MaxFaults
        /\ faults' = faults + Cardinality(locked)
        /\ memory' = [s \in SettingsScopes |-> IF s \in fails THEN memory[s] ELSE disk[s].at]
        /\ loadError' = [s \in SettingsScopes |-> s \in fails]
        /\ modified' = [s \in SettingsScopes |-> {}]
        /\ excused' = excused \cup UNION {Of(s, modified[s]) : s \in SettingsScopes}
        /\ UNCHANGED <<disk, writeQueue, missing, sets, edits, wanted, theirs>>

\* Another pi process changes a field, or the user edits the file: not while a
\* write of this process that found the file holds the lock.
OtherChanges(scope, field) ==
  /\ edits < MaxEdits /\ edits' = edits + 1
  /\ disk[scope].state # "broken"
  /\ disk' = [disk EXCEPT ![scope] = [state |-> "json", at |-> [@.at EXCEPT ![field] = Other]]]
  /\ theirs' = theirs \cup
       (IF field \in modified[scope]
             \/ \E i \in 1..Len(writeQueue) : /\ writeQueue[i].scope = scope
                                              /\ field \in writeQueue[i].fields
        THEN {} ELSE {<<scope, field>>})
  /\ UNCHANGED <<memory, modified, loadError, writeQueue, missing, sets, faults, wanted, excused>>

\* The user saves a file that is not JSON, and mends it.
OtherBreaks(scope) ==
  /\ edits < MaxEdits /\ edits' = edits + 1
  /\ disk[scope].state = "json"
  /\ disk' = [disk EXCEPT ![scope].state = "broken"]
  /\ UNCHANGED <<memory, modified, loadError, writeQueue, missing, sets, faults, wanted, excused,
                 theirs>>
OtherMends(scope) ==
  /\ disk[scope].state = "broken"
  /\ disk' = [disk EXCEPT ![scope].state = "json"]
  /\ UNCHANGED <<memory, modified, loadError, writeQueue, missing, sets, edits, faults, wanted,
                 excused, theirs>>

SettingsNext ==
  \/ LooksForFile \/ Write \/ WriteFails \/ WriteTruncates \/ Reload
  \/ \E scope \in SettingsScopes :
       \/ OtherBreaks(scope) \/ OtherMends(scope)
       \/ \E field \in Fields : Set(scope, field) \/ OtherChanges(scope, field)

SettingsSpec == SettingsInit /\ [][SettingsNext]_settingsVars

-----------------------------------------------------------------------------
(* Properties *)

SettingsTypeOK ==
  LET Values == [Fields -> Other..MaxSets]
  IN  /\ disk \in [SettingsScopes -> [state : {"absent", "json", "broken"}, at : Values]]
      /\ memory \in [SettingsScopes -> Values]
      /\ modified \in [SettingsScopes -> SUBSET Fields]
      /\ missing \in BOOLEAN
      /\ sets \in 0..MaxSets /\ edits \in 0..MaxEdits /\ faults \in 0..MaxFaults
      /\ \A i \in 1..Len(writeQueue) : writeQueue[i].fields # {}

Carries(i, s, f) == writeQueue[i].scope = s /\ f \in writeQueue[i].fields

\* What the user changed is in a write that is waiting, or will go with the next
\* write of its scope. The exceptions are what WriteFails, WriteTruncates, Reload
\* and a file that could not be loaded lose.
UnderWay(s, f) ==
  \/ wanted[s][f] = Unset
  \/ f \in modified[s]
  \/ \E i \in 1..Len(writeQueue) : Carries(i, s, f) /\ writeQueue[i].snapshot[f] = wanted[s][f]
  \/ <<s, f>> \in excused

\* A change of the user is in the file or under way; or another process has
\* changed the field since.
OursPersist ==
  \A s \in SettingsScopes, f \in Fields :
    disk[s].at[f] \in {wanted[s][f], Other} \/ UnderWay(s, f)

\* A field that another process changed keeps its value, whatever other fields
\* are written from the memory of this one; but the first write of a file drops
\* what was put there between its look and its lock.
TheirsPersist == \A change \in theirs : disk[change[1]].at[change[2]] = Other

\* Over every order of setters, writes, failures, reloads and foreign edits.
ChangesPersist == OursPersist /\ TheirsPersist

\* What makes ChangesPersist inductive. A marked field has its last value in
\* memory. Unless the change is excused, the last write that carries a field
\* has its last value, and a field that is marked is carried by the last
\* write of its scope, so that no write clears a mark too early. What others
\* changed is neither marked nor carried. And a file that is not there says
\* nothing, so that a write that found none cannot take a value away.
LastWriteIsWanted(s, f) ==
  \A i \in 1..Len(writeQueue) : Carries(i, s, f) =>
    \E j \in i..Len(writeQueue) : Carries(j, s, f) /\ writeQueue[j].snapshot[f] = wanted[s][f]

MarkIsCarried(s, f) ==
  f \in modified[s] =>
    \A i \in 1..Len(writeQueue) : writeQueue[i].scope = s =>
      \E j \in i..Len(writeQueue) : Carries(j, s, f)

SettingsInv ==
  /\ SettingsTypeOK
  /\ writeQueue \in Seq([scope : SettingsScopes, snapshot : [Fields -> Other..MaxSets],
                         fields : SUBSET Fields])
  /\ wanted \in [SettingsScopes -> [Fields -> Other..MaxSets]]
  /\ loadError \in [SettingsScopes -> BOOLEAN]
  /\ theirs \subseteq SettingsScopes \X Fields
  /\ ChangesPersist
  /\ \A s \in SettingsScopes, f \in Fields :
       /\ f \in modified[s] => memory[s][f] = wanted[s][f]
       /\ <<s, f>> \notin excused => LastWriteIsWanted(s, f) /\ MarkIsCarried(s, f)
       /\ <<s, f>> \in theirs =>
            f \notin modified[s] /\ \A i \in 1..Len(writeQueue) : ~Carries(i, s, f)
       /\ disk[s].state = "absent" => disk[s].at[f] = Unset
       /\ missing /\ writeQueue[1].scope = s => UnderWay(s, f)
=============================================================================
