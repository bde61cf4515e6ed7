--------------------------- MODULE SessionManager ---------------------------
(***************************************************************************)
(* The session store of the coding agent: a tree of entries kept in memory *)
(* and appended to a JSONL file (core/session-manager.ts).                 *)
(*                                                                         *)
(* `log` records every entry ever created; an entry's id is its position   *)
(* in it, so a line of a file and an item of fileEntries are both numbers. *)
(* A synchronous file operation of the code is a burst of WriteLine steps: *)
(* no other method runs while `pending` is not empty, but the process may  *)
(* die there.                                                              *)
(***************************************************************************)
EXTENDS Integers, Sequences, FiniteSets, SequencesExt, FiniteSetsExt, Lists

CONSTANTS
  Files,   \* names a session file may take
  Scopes   \* the bounds a behaviour may run under: kinds, the kinds of entry
           \* it creates; entries, the bound on Len(log); faults, the bound on
           \* crashes and failed writes; tear, whether either may leave a line
           \* half written; touch, whether a file may exist empty before it is
           \* opened; old, whether it starts from a file of format version 1

AllKinds == {"user", "assistant", "meta", "custom_message", "compaction",
             "branch_summary", "label"}

Header == 0    \* the line of type "session"
Null   == 0    \* parentId: null, leafId: null, fromId: "root"
Garbage == -1  \* a line JSON.parse rejects

ASSUME SMAssumption ==
  \A s \in Scopes :
    /\ s.kinds \subseteq AllKinds
    /\ {s.entries, s.faults} \subseteq Nat
    /\ {s.tear, s.touch, s.old} \subseteq BOOLEAN

VARIABLES
  scope,        \* the bounds of this behaviour
  log,          \* every entry created: [kind, parent, ref, on]
  fileEntries,  \* this.fileEntries: Header and ids
  leafId,       \* this.leafId
  labelsById,   \* keys of this.labelsById
  unmarked,     \* label entries of fileEntries that labelsById does not know:
                \* their write has not returned, or it threw
  flushed,      \* this.flushed
  sessionFile,  \* this.sessionFile
  alive,        \* the process has a SessionManager
  disk,         \* the lines of each file
  present,      \* the files that exist
  openTail,     \* the files whose last line has no newline
  pending,      \* lines the running synchronous write has still to append
  old,          \* the files still in format version 1
  failed,       \* what a failed write did not write
  faults        \* crashes and failed writes so far

memory == <<fileEntries, leafId, labelsById, unmarked, flushed, sessionFile, alive>>
files  == <<disk, present, openTail>>
bounds == <<scope, failed, faults>>
vars   == <<log, memory, files, pending, old, bounds>>

Entry == [kind : AllKinds, parent : Nat, ref : Nat, on : BOOLEAN]

-----------------------------------------------------------------------------
(* Reading a list of entries *)

Ids(s) == ToSet(s) \ {Header, Garbage}

IsKind(id, kind) == log[id].kind = kind

HasAssistant(s) == \E id \in Ids(s) : IsKind(id, "assistant")

\* _buildIndex: the last entry that is not a header becomes the leaf.
LastId_Count(s) == Len(s)

LastId(s) ==
  LET ids == Only(s, Ids(s))
  IN  IF ids = <<>> THEN Null ELSE Last(ids)

LabelsOf_NeverCleared(s) ==
  {t \in 1..Len(log) :
     \E k \in DOMAIN s : /\ s[k] # Header
                         /\ IsKind(s[k], "label")
                         /\ log[s[k]].ref = t
                         /\ log[s[k]].on}

\* The last label entry about a target decides, those of `skipped` aside.
LabelsBut(s, skipped) ==
  LET About(k, t) == /\ s[k] # Header
                     /\ s[k] \notin skipped
                     /\ IsKind(s[k], "label")
                     /\ log[s[k]].ref = t
  IN  {t \in 1..Len(log) :
         \E k \in DOMAIN s :
            /\ About(k, t)
            /\ log[s[k]].on
            /\ \A m \in DOMAIN s : About(m, t) => m <= k}

\* _buildIndex
LabelsOf(s) == LabelsBut(s, {})

\* getBranch: from an entry to the root, through the entries `known` holds.
Branches(known) ==
  LET path[i \in 0..Len(log)] ==
        IF i \in known THEN Append(path[log[i].parent], i) ELSE <<>>
  IN  path

Branch(known, id) == Branches(known)[id]

\* loadEntriesFromFile: malformed lines are skipped; without a header first
\* the whole file counts as empty.
Parsed(f) == Only(disk[f], ToSet(disk[f]) \ {Garbage})

Loaded(f) ==
  LET entries == Parsed(f)
  IN  IF entries # <<>> /\ Head(entries) = Header THEN entries ELSE <<>>

-----------------------------------------------------------------------------
(* Writing *)

Idle == alive /\ pending = <<>>

\* _persist: nothing before the first assistant message, then everything,
\* then line by line.
PersistPending_OnlyNew(entries, id) ==
  /\ pending' = IF \E k \in DOMAIN entries : entries[k] # Header /\ log'[entries[k]].kind = "assistant"
                THEN <<id>> ELSE pending
  /\ UNCHANGED flushed

PersistPending(entries, id) ==
  IF ~ \E k \in DOMAIN entries : entries[k] # Header /\ log'[entries[k]].kind = "assistant"
  THEN /\ flushed' = FALSE
       /\ UNCHANGED pending
  ELSE /\ pending' = IF flushed THEN <<id>> ELSE entries
       /\ UNCHANGED flushed

\* _appendEntry of the new entry e, whose parent the caller chose.
AppendEntry(e) ==
  LET id == Len(log) + 1
  IN  /\ e.kind \in scope.kinds
      /\ id <= scope.entries
      /\ log' = Append(log, e)
      /\ fileEntries' = Append(fileEntries, id)
      /\ leafId' = id
      /\ PersistPending(fileEntries', id)

NewEntry(kind, ref, on) ==
  [kind |-> kind, parent |-> leafId, ref |-> ref, on |-> on]

LabelsAfter_NeverClears(entry) == labelsById \union {entry.ref}

\* What appendLabelChange does to labelsById once the entry is appended.
LabelsAfter(entry) ==
  IF entry.on THEN labelsById \union {entry.ref} ELSE labelsById \ {entry.ref}

\* _rewriteFile: writeFileSync truncates, then writes every line.
Truncate(f) ==
  /\ disk' = [disk EXCEPT ![f] = <<>>]
  /\ present' = present \union {f}
  /\ openTail' = openTail \ {f}

\* appendFileSync of one line. After a torn line the new text joins it on
\* one line that cannot be parsed. With the last line _appendEntry returns,
\* and appendLabelChange goes on to labelsById.
WriteLine ==
  /\ pending # <<>>
  /\ LET f == sessionFile
     IN  /\ disk' = [disk EXCEPT ![f] =
                       IF f \in openTail
                       THEN Append(Front(@), Garbage)
                       ELSE Append(@, Head(pending))]
         /\ present' = present \union {f}
         /\ openTail' = openTail \ {f}
  /\ pending' = Tail(pending)
  /\ flushed' = (flushed \/ pending' = <<>>)
  /\ alive' = (alive \/ pending' = <<>>)
  /\ IF pending' = <<>> /\ Head(pending) \in unmarked
     THEN /\ labelsById' = LabelsAfter(log[Head(pending)])
          /\ unmarked' = unmarked \ {Head(pending)}
     ELSE UNCHANGED <<labelsById, unmarked>>
  /\ UNCHANGED <<log, fileEntries, leafId, sessionFile, old, bounds>>

\* A write that does not end leaves the file as it is, or with the next line
\* cut short (Garbage) or complete but without its newline.
Interrupted ==
  \/ UNCHANGED files
  \/ /\ scope.tear
     /\ pending # <<>>
     /\ sessionFile \notin openTail
     /\ \E x \in {Garbage, Head(pending)} :
          disk' = [disk EXCEPT ![sessionFile] = Append(@, x)]
     /\ present' = present \union {sessionFile}
     /\ openTail' = openTail \union {sessionFile}

\* appendFileSync or writeFileSync throws (a full disk, a lost mount) and the
\* caller goes on: the entries, the index and the leaf are already updated,
\* labelsById is not.
WriteFails ==
  /\ alive
  /\ pending # <<>>
  /\ faults < scope.faults
  /\ faults' = faults + 1
  /\ failed' = failed \union ToSet(pending)
  /\ pending' = <<>>
  /\ Interrupted
  /\ UNCHANGED <<scope, log, memory, old>>

-----------------------------------------------------------------------------
(* Appending entries *)

\* appendMessage, appendThinkingLevelChange, appendModelChange,
\* appendCustomEntry, appendSessionInfo, appendCustomMessageEntry.
AppendMessage(kind) ==
  /\ Idle
  /\ kind \in {"user", "assistant", "meta", "custom_message"}
  /\ AppendEntry(NewEntry(kind, Null, FALSE))
  /\ UNCHANGED <<labelsById, unmarked, sessionFile, alive, files, old, bounds>>

\* appendCompaction: the caller keeps an entry of the current branch.
AppendCompaction(firstKept) ==
  /\ Idle
  /\ firstKept \in ToSet(Branch(Ids(fileEntries), leafId))
  /\ AppendEntry(NewEntry("compaction", firstKept, FALSE))
  /\ UNCHANGED <<labelsById, unmarked, sessionFile, alive, files, old, bounds>>

\* labelsById changes when _appendEntry has returned: at once where nothing
\* is written, else with the last line (WriteLine).
AppendLabelChange(target, on) ==
  /\ Idle
  /\ target \in Ids(fileEntries)
  /\ LET entry == NewEntry("label", target, on)
     IN  /\ AppendEntry(entry)
         /\ IF pending' = <<>>
            THEN /\ labelsById' = LabelsAfter(entry)
                 /\ UNCHANGED unmarked
            ELSE /\ unmarked' = unmarked \union {Len(log) + 1}
                 /\ UNCHANGED labelsById
  /\ UNCHANGED <<sessionFile, alive, files, old, bounds>>

-----------------------------------------------------------------------------
(* Moving the leaf *)

BranchTo(id) ==
  /\ Idle
  /\ id \in Ids(fileEntries)
  /\ leafId' = id
  /\ UNCHANGED <<log, fileEntries, labelsById, unmarked, flushed, sessionFile, alive,
                 files, pending, old, bounds>>

ResetLeaf ==
  /\ Idle
  /\ leafId' = Null
  /\ UNCHANGED <<log, fileEntries, labelsById, unmarked, flushed, sessionFile, alive,
                 files, pending, old, bounds>>

BranchWithSummary(id) ==
  /\ Idle
  /\ id \in Ids(fileEntries) \union {Null}
  /\ AppendEntry([kind |-> "branch_summary", parent |-> id, ref |-> id, on |-> FALSE])
  /\ UNCHANGED <<labelsById, unmarked, sessionFile, alive, files, old, bounds>>

FreshFiles_Any == Files

\* A name that no file has stands for the timestamp and uuid of the code.
FreshFiles == Files \ present

Unlabelled(ids) == {id \in ids : ~IsKind(id, "label")}

ForkPath_NoRoot(id) ==
  LET path == Only(Branch(Ids(fileEntries), id), Unlabelled(Ids(fileEntries)))
  IN  IF Len(path) > 1 THEN Tail(path) ELSE path

ForkPath(id) == Only(Branch(Ids(fileEntries), id), Unlabelled(Ids(fileEntries)))

ForkLabels(path) == labelsById \intersect ToSet(path)

ForkWritesNow_Always(path) == TRUE

ForkWritesNow(path) == HasAssistant(path)

\* createBranchedSession: the path without its label entries, then one new
\* label entry per label that survives (the order of the Map is abstracted
\* to some order).
CreateBranchedSession(id) ==
  /\ Idle
  /\ id \in Ids(fileEntries)
  /\ LET path   == ForkPath(id)
         kept   == SetToSeq(ForkLabels(path))
         n      == Len(log)
         labels == [k \in 1..Len(kept) |->
                      [kind   |-> "label",
                       parent |-> IF k = 1 THEN Last(path) ELSE n + k - 1,
                       ref    |-> kept[k],
                       on     |-> TRUE]]
         entries == <<Header>> \o path \o [k \in 1..Len(kept) |-> n + k]
     IN  /\ n + Len(kept) <= scope.entries
         /\ log' = log \o labels
         /\ fileEntries' = entries
         /\ leafId' = LastId(entries)
         /\ labelsById' = ForkLabels(path)
         /\ unmarked' = {}
         /\ \E f \in FreshFiles :
              /\ sessionFile' = f
              /\ IF ForkWritesNow(path)
                 THEN /\ Truncate(f)
                      /\ pending' = entries
                      /\ UNCHANGED flushed
                 ELSE /\ flushed' = FALSE
                      /\ UNCHANGED <<files, pending>>
  /\ UNCHANGED <<alive, old, bounds>>

-----------------------------------------------------------------------------
(* Opening sessions *)

Fresh ==
  /\ fileEntries' = <<Header>>
  /\ leafId' = Null
  /\ labelsById' = {}
  /\ unmarked' = {}
  /\ flushed' = FALSE

\* _buildIndex
Indexed(entries) ==
  /\ fileEntries' = entries
  /\ leafId' = LastId(entries)
  /\ labelsById' = LabelsOf(entries)
  /\ unmarked' = {}

\* newSession, and the constructor without a file.
NewSession ==
  /\ pending = <<>>
  /\ Fresh
  /\ alive' = TRUE
  /\ \E f \in FreshFiles : sessionFile' = f
  /\ UNCHANGED <<log, files, pending, old, bounds>>

\* migrateV1ToV2 counts the header too: index 0 is the session line.
KeptOf_NoHeader(entries, index) == entries[index]

KeptOf(entries, index) == entries[index + 1]

\* migrateToCurrentVersion of a version 1 file: every entry becomes the child
\* of the one before, and the index a compaction holds becomes an entry.
Migrated(entries) ==
  [id \in DOMAIN log |->
     IF id \notin Ids(entries) THEN log[id]
     ELSE LET k == CHOOSE k \in DOMAIN entries : entries[k] = id
          IN  [log[id] EXCEPT
                 !.parent = entries[k - 1],
                 !.ref = IF IsKind(id, "compaction") THEN KeptOf(entries, @) ELSE @]]

\* setSessionFile, and the constructor with a file. No method runs before
\* the rewrite of a migration is over, in the constructor or in a process
\* that switches to an old file; only there, a rewrite that throws is not
\* modelled.
SetSessionFile(f) ==
  /\ pending = <<>>
  /\ sessionFile' = f
  /\ \/ /\ f \notin present
        /\ Fresh
        /\ alive' = TRUE
        /\ UNCHANGED <<log, files, pending, old>>
     \/ /\ f \in present
        /\ Loaded(f) = <<>>
        /\ Fresh
        /\ Truncate(f)
        /\ pending' = <<Header>>
        /\ UNCHANGED <<log, alive, old>>
     \/ /\ f \in present \ old
        /\ Loaded(f) # <<>>
        /\ Indexed(Loaded(f))
        /\ flushed' = TRUE
        /\ alive' = TRUE
        /\ UNCHANGED <<log, files, pending, old>>
     \/ /\ f \in present \intersect old
        /\ Indexed(Loaded(f))
        /\ log' = Migrated(Loaded(f))
        /\ Truncate(f)
        /\ pending' = Loaded(f)
        /\ old' = old \ {f}
        /\ flushed' = FALSE
        /\ alive' = FALSE
  /\ UNCHANGED bounds

\* forkFrom runs at start-up only: copy the entries of src under a new
\* header, line by line, and open the copy.
ForkFrom(src) ==
  /\ ~alive
  /\ pending = <<>>
  /\ Loaded(src) # <<>>
  /\ src \notin old
  /\ \E f \in FreshFiles : sessionFile' = f
  /\ LET entries == <<Header>> \o Only(Loaded(src), Ids(Loaded(src)))
     IN  /\ Indexed(entries)
         /\ pending' = entries
  /\ flushed' = FALSE
  /\ UNCHANGED <<log, files, alive, old, bounds>>

-----------------------------------------------------------------------------
(* The environment *)

\* A user or a tool creates an empty file that is later given to --session.
TouchFile(f) ==
  /\ scope.touch
  /\ f \notin present
  /\ ~alive
  /\ pending = <<>>
  /\ present' = present \union {f}
  /\ UNCHANGED <<log, memory, disk, openTail, pending, old, bounds>>

\* The process ends, possibly in the middle of a synchronous write; what was
\* in memory is lost.
Crash ==
  /\ alive \/ pending # <<>>
  /\ faults < scope.faults
  /\ alive' = FALSE
  /\ faults' = faults + 1
  /\ Fresh
  /\ pending' = <<>>
  /\ Interrupted
  /\ UNCHANGED <<scope, log, sessionFile, old, failed>>

\* A version 1 file has no ids and no parents; a compaction in it names the
\* entry it keeps by its index.
OldEntry(kind, index) == [kind |-> kind, parent |-> Null, ref |-> index, on |-> FALSE]

Init ==
  /\ scope \in Scopes
  /\ sessionFile \in Files
  /\ \/ /\ ~scope.old
        /\ log = <<>>
        /\ disk = [f \in Files |-> <<>>]
        /\ old = {}
     \/ /\ scope.old
        /\ \E index \in 1..2 :
             log = <<OldEntry("user", Null), OldEntry("assistant", Null),
                     OldEntry("compaction", index)>>
        /\ disk = [f \in Files |-> IF f = sessionFile THEN <<Header, 1, 2, 3>> ELSE <<>>]
        /\ old = {sessionFile}
  /\ present = old
  /\ fileEntries = <<Header>>
  /\ leafId = Null
  /\ labelsById = {}
  /\ unmarked = {}
  /\ flushed = FALSE
  /\ alive = FALSE
  /\ openTail = {}
  /\ pending = <<>>
  /\ failed = {}
  /\ faults = 0

Next ==
  \/ \E kind \in AllKinds : AppendMessage(kind)
  \/ \E id \in 1..Len(log) : AppendCompaction(id)
  \/ \E id \in 1..Len(log), on \in BOOLEAN : AppendLabelChange(id, on)
  \/ \E id \in 1..Len(log) : BranchTo(id)
  \/ ResetLeaf
  \/ \E id \in 0..Len(log) : BranchWithSummary(id)
  \/ \E id \in 1..Len(log) : CreateBranchedSession(id)
  \/ NewSession
  \/ \E f \in Files : SetSessionFile(f) \/ ForkFrom(f) \/ TouchFile(f)
  \/ WriteLine
  \/ WriteFails
  \/ Crash

Spec == Init /\ [][Next]_vars

-----------------------------------------------------------------------------
(* Properties *)

\* The values the class fields, the files and the write in progress take.
TypeOK ==
  /\ log \in Seq(Entry)
  /\ fileEntries \in Seq(0..Len(log))
  /\ leafId \in 0..Len(log)
  /\ labelsById \subseteq 1..Len(log)
  /\ unmarked \subseteq 1..Len(log)
  /\ flushed \in BOOLEAN
  /\ sessionFile \in Files
  /\ alive \in BOOLEAN
  /\ disk \in [Files -> Seq(-1..Len(log))]
  /\ present \subseteq Files
  /\ openTail \subseteq present
  /\ pending \in Seq(0..Len(log))
  /\ old \subseteq present
  /\ failed \subseteq 0..Len(log)
  /\ faults \in 0..scope.faults

\* A crash cut a line of the file short.
Torn(f) == f \in openTail \/ Garbage \in ToSet(disk[f])

Written == ToSet(disk[sessionFile]) \union ToSet(pending)

\* Once a session has an assistant message, every entry of it is on disk or
\* about to be written by the method that is running, unless a write of that
\* very entry failed: the deferred flush of _persist, the direct write of
\* createBranchedSession and the rewrite of a migration never miss one. A
\* fault that cuts a line short costs at most that line and the next.
Durable ==
  HasAssistant(fileEntries) =>
    LET missing == ToSet(fileEntries) \ (Written \union failed)
    IN  /\ ~Torn(sessionFile) => missing = {}
        /\ Cardinality(missing) <= 2 * faults

\* Opening the file of an idle session in a new process finds the entries
\* and the labels that the running process has, even where a crash, a failed
\* flush that is repeated or an empty file made lines appear twice. (Only a
\* label whose write failed and was repeated later is new to the reload.)
ReloadEquivalent ==
  /\ Idle
  /\ HasAssistant(fileEntries)
  /\ ~Torn(sessionFile)
  /\ ToSet(fileEntries) \subseteq Written
  =>
    LET entries == Loaded(sessionFile)
    IN  /\ Ids(entries) = Ids(fileEntries)
        /\ LastId(entries) = LastId(fileEntries)
        /\ LabelsBut(entries, unmarked) = labelsById

\* No line of a session file is ever changed or removed: the full history
\* remains in the file whatever is branched, compacted or forked. (The
\* exceptions: a file with a line that a crash cut short, a file whose header
\* could not be written, and a file of an old format.)
AppendOnly ==
  [][\A f \in Files :
       ~Torn(f) /\ f \notin old /\ Loaded(f) # <<>> => IsPrefix(disk[f], disk'[f])]_vars

\* getLabel answers from the label entries of the session, and the only
\* entries it leaves out are the one being written and those whose write
\* failed.
LabelsAreCurrent ==
  /\ labelsById = LabelsBut(fileEntries, unmarked)
  /\ unmarked \ failed \subseteq (IF pending = <<>> THEN {} ELSE {Last(pending)})

\* A session file that only this program wrote, by processes that were never
\* killed and had no write fail, has one header and no line twice.
NoDuplicateLines ==
  faults = 0 /\ ~scope.touch =>
    \A f \in Files : \A i, j \in DOMAIN disk[f] : disk[f][i] = disk[f][j] => i = j

FullBranch(id) == Branch(1..Len(log), id)

\* getBranch returns, in every session that holds an entry, the whole path
\* the entry was created on, as long as no label entry is on that path.
UnlabelledHistoryIntact ==
  faults = 0 =>
  \A id \in Ids(fileEntries) :
    LET path == FullBranch(id)
    IN  (\A a \in ToSet(path) : ~IsKind(a, "label")) => Branch(Ids(fileEntries), id) = path

\* The same for every path, label entries aside: "a new session file
\* containing only the path from root to the specified leaf".
HistoryIntact ==
  \A id \in Ids(fileEntries) :
    ~IsKind(id, "label") =>
      LET kept == Unlabelled(DOMAIN log)
      IN  Only(Branch(Ids(fileEntries), id), kept) = Only(FullBranch(id), kept)

\* The entry a compaction keeps from is on the path of the compaction, which
\* is where buildSessionContext looks for it: also after the index of a
\* version 1 file has become an entry.
KeptEntryOnPath ==
  \A id \in DOMAIN log :
    IsKind(id, "compaction") /\ id \in Ids(fileEntries) =>
      log[id].ref \in ToSet(FullBranch(id))

\* Forks, faults and migrations leave the paths that the context is rebuilt
\* from.
PathsIntact == UnlabelledHistoryIntact /\ KeptEntryOnPath
-----------------------------------------------------------------------------
(* What makes the properties inductive *)

\* A parent is older than its child, and a label names an entry there is.
TreeInv ==
  \A id \in DOMAIN log :
    /\ log[id].parent < id
    /\ IsKind(id, "label") => log[id].ref \in DOMAIN log

\* Until it is migrated, an old file is as it was, and no session writes to it.
OldFilesInv ==
  \A f \in old :
    /\ alive \/ pending # <<>> => f # sessionFile
    /\ f \notin openTail
    /\ disk[f] = <<Header, 1, 2, 3>>
    /\ {1, 2, 3} \subseteq DOMAIN log
    /\ IsKind(1, "user") /\ IsKind(2, "assistant") /\ IsKind(3, "compaction")
    /\ log[3].ref \in 1..2

\* A label being written is the entry appended last.
WritingLabel ==
  pending # <<>> /\ Last(pending) \in unmarked =>
    /\ fileEntries # <<>>
    /\ Last(pending) = Last(fileEntries)
    /\ IsKind(Last(pending), "label")

StoreInv ==
  /\ scope \in Scopes
  /\ TypeOK
  /\ TreeInv
  /\ LabelsAreCurrent
  /\ WritingLabel
  /\ OldFilesInv
  /\ \A f \in Files \ present : disk[f] = <<>>
=============================================================================
