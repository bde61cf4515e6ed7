----------------------------- MODULE TaskStore ------------------------------
(***************************************************************************)
(* The task feature (packages/coding-agent/src/core/features/task,         *)
(* core/tools/task.ts): one store in memory, a file for every task and     *)
(* sprint, an index, and an archive of the tasks that are done. Each       *)
(* operation changes the store and then writes its files one by one; the   *)
(* process may die between two of them, and a write may fail: the store    *)
(* keeps the change then, and what the call had left to write is skipped.  *)
(* A move on the board of /board is not written at all.                    *)
(*                                                                         *)
(* Block and unblock are SetStatus with a note. Groups, notes and agents   *)
(* are a part of a task's content, which is not modelled.                  *)
(***************************************************************************)
EXTENDS Integers, FiniteSets, FiniteSetsExt, SequencesExt

CONSTANTS
  TaskScopes  \* bounds of a behaviour: [tasks, sprints, links, board, faults]

ASSUME TaskAssumption ==
  TaskScopes \subseteq
    [tasks : Nat, sprints : Nat, links : BOOLEAN, board : BOOLEAN, faults : Nat]

VARIABLES
  store,    \* the TaskStore in memory, shared by the tool, the hooks and the commands
  files,    \* .pi/tasks: the files of tasks and sprints, and the index
  archive,  \* archive/tasks: by id, the task that was archived last
  ids,      \* the id of each task ever created
  dropped,  \* the tasks that were deleted, whose creation was cut short, or whose
            \* copy in the archive could not be written
  unsaved,  \* what the store has otherwise than its file: a failed write, or the board
  faults,   \* crashes and failed writes
  taskScope

taskVars == <<store, files, archive, ids, dropped, unsaved, faults, taskScope>>

\* STATUS_ORDER, the columns of the board, without in_review: a task in review is
\* treated like one in progress, but that AutoComplete passes over it.
StatusOrder == <<"todo", "in_progress", "done", "blocked">>
TaskStatuses == ToSet(StatusOrder)
SprintStatuses == {"planned", "active", "completed"}
NoId == 0

\* createDefaultStore.
EmptyMap == [i \in {} |-> 0]
DefaultStore == [tasks |-> EmptyMap, sprints |-> EmptyMap, nextTask |-> 1,
                 nextSprint |-> 1, activeTask |-> NoId, activeSprint |-> NoId]

\* recalculateNextIds: an id that was archived or deleted may be given again.
RecalculateNextIds(s) ==
  [s EXCEPT !.nextTask = Max(DOMAIN s.tasks \cup {0}) + 1,
            !.nextSprint = Max(DOMAIN s.sprints \cup {0}) + 1]

Keep(map, kept) == [i \in DOMAIN map \cap kept |-> map[i]]
Put(map, i, v) == [j \in DOMAIN map \cup {i} |-> IF j = i THEN v ELSE map[j]]

-----------------------------------------------------------------------------
(* Files *)

File(kind, id, value) == [kind |-> kind, id |-> id, value |-> value]
TaskFile(s, id) == <<File("task", id, s.tasks[id])>>
SprintFile(s, id) == <<File("sprint", id, s.sprints[id])>>
Index(s) == <<File("index", 0, [task |-> s.activeTask, sprint |-> s.activeSprint])>>

\* writeTaskFile, writeSprintFile, writeIndex, removeFile: each atomic, by a
\* rename.
Written(disk, f) ==
  CASE f.kind = "task" -> [disk EXCEPT !.tasks = Put(@, f.id, f.value)]
    [] f.kind = "sprint" -> [disk EXCEPT !.sprints = Put(@, f.id, f.value)]
    [] f.kind = "index" -> [disk EXCEPT !.index = f.value]
    [] f.kind = "archive" -> [disk EXCEPT !.archive = Put(@, f.id, f.value)]
    [] f.kind = "noTask" -> [disk EXCEPT !.tasks = Keep(@, DOMAIN @ \ {f.id})]
    [] f.kind = "noSprint" -> [disk EXCEPT !.sprints = Keep(@, DOMAIN @ \ {f.id})]

Disk == [tasks |-> files.tasks, sprints |-> files.sprints, index |-> files.index,
         archive |-> archive]
DiskAfter(writes) == FoldLeft(Written, Disk, writes)

ForEach(Op(_), numbers) ==
  FoldLeft(LAMBDA done, i : IF i \in numbers THEN done \o Op(i) ELSE done, <<>>,
           [i \in 1..Max(numbers \cup {0}) |-> i])

SaveTask(s, id) == TaskFile(s, id) \o Index(s)
SaveSprint(s, id) == SprintFile(s, id) \o Index(s)

\* save: all files are written, the ones of entities that are gone removed.
Save(s) ==
  ForEach(LAMBDA i : TaskFile(s, i), DOMAIN s.tasks)
    \o ForEach(LAMBDA i : <<File("noTask", i, NoId)>>, DOMAIN files.tasks \ DOMAIN s.tasks)
    \o ForEach(LAMBDA i : SprintFile(s, i), DOMAIN s.sprints)
    \o ForEach(LAMBDA i : <<File("noSprint", i, NoId)>>,
               DOMAIN files.sprints \ DOMAIN s.sprints)
    \o Index(s)

\* archiveTasks: the copy is written before the file is removed.
ArchiveTasks_RemovesFirst(tasks, done, s) ==
  IF done = {} THEN <<>>
  ELSE ForEach(LAMBDA i : <<File("noTask", i, NoId), File("archive", i, tasks[i].born)>>, done)
         \o Index(s)
ArchiveTasks(tasks, done, s) ==
  IF done = {} THEN <<>>
  ELSE ForEach(LAMBDA i : <<File("archive", i, tasks[i].born), File("noTask", i, NoId)>>, done)
         \o Index(s)
ArchiveSprints(over, s) ==
  IF over = {} THEN <<>>
  ELSE ForEach(LAMBDA i : <<File("noSprint", i, NoId)>>, over) \o Index(s)

\* load: what is on disk, with an active task that exists.
Load(disk) ==
  RecalculateNextIds(
    [tasks |-> disk.tasks, sprints |-> disk.sprints, nextTask |-> 1, nextSprint |-> 1,
     activeTask |-> IF disk.index.task \in DOMAIN disk.tasks THEN disk.index.task ELSE NoId,
     activeSprint |-> disk.index.sprint])

OnDisk(disk) ==
  /\ files' = [tasks |-> disk.tasks, sprints |-> disk.sprints, index |-> disk.index]
  /\ archive' = disk.archive

\* Init of a session: the store is loaded and, with what a migration changed,
\* saved.
Loaded(disk) ==
  /\ store' = Load(disk)
  /\ OnDisk([disk EXCEPT !.index = [task |-> Load(disk).activeTask,
                                     sprint |-> disk.index.sprint]])

\* An operation leaves the store s; each call of the storage writes some files.
Entity(f) ==
  <<CASE f.kind = "noTask" -> "task" [] f.kind = "noSprint" -> "sprint" [] OTHER -> f.kind, f.id>>

Wrote(s, calls, written) ==
  LET all == FlattenSeq(calls)
      done == FlattenSeq(written)
      kept == ToSet(done)
      missed == {n \in DOMAIN all : /\ all[n] \notin kept
                                    /\ \A m \in n + 1..Len(all) : Entity(all[m]) # Entity(all[n])}
  IN  /\ store' = s
      /\ OnDisk(DiskAfter(done))
      /\ unsaved' = (unsaved \ {Entity(f) : f \in ToSet(all)}) \cup {Entity(all[n]) : n \in missed}
      /\ UNCHANGED taskScope

Completed(s, calls) == Wrote(s, calls, calls) /\ UNCHANGED faults

MayFail == faults < taskScope.faults

\* A write that fails ends its call, whose caller never learns of it; a file
\* that cannot be removed is passed over.
Failing(calls) ==
  {[calls EXCEPT ![at[1]] = IF @[at[2]].kind \in {"noTask", "noSprint"} THEN RemoveAt(@, at[2])
                            ELSE SubSeq(@, 1, at[2] - 1)] :
     at \in UNION {{c} \X DOMAIN calls[c] : c \in DOMAIN calls}}

FailsWriting(s, calls, written) ==
  /\ faults' = faults + 1
  /\ Wrote(s, calls, written)

\* The next session starts from the files written so far.
DiesWriting(calls) ==
  LET writes == FlattenSeq(calls)
  IN  /\ MayFail
      /\ faults' = faults + 1
      /\ \E disk \in {DiskAfter(SubSeq(writes, 1, k)) : k \in 0..Len(writes) - 1} : Loaded(disk)
      /\ unsaved' = {}
      /\ UNCHANGED taskScope

\* The copies that were to be written to the archive and are not.
NotArchived(calls, written) ==
  {f.value : f \in {g \in ToSet(FlattenSeq(calls)) \ ToSet(FlattenSeq(written)) :
                      g.kind = "archive"}}

Persisted(s, calls, gone) ==
  \/ (Completed(s, calls) \/ DiesWriting(calls)) /\ dropped' = dropped \cup gone
  \/ /\ MayFail
     /\ \E written \in Failing(calls) :
          /\ FailsWriting(s, calls, written)
          /\ dropped' = dropped \cup gone \cup NotArchived(calls, written)

-----------------------------------------------------------------------------
(* Tasks *)

Task(born, status, sprint, deps) ==
  [born |-> born, status |-> status, sprint |-> sprint, deps |-> deps]

WithTask(s, id, task) == [s EXCEPT !.tasks[id] = task]
WithStatus(s, id, status) == [s EXCEPT !.tasks[id].status = status]
NotActive(s, gone) == [s EXCEPT !.activeTask = IF @ \in gone THEN NoId ELSE @]

\* Most actions change one task, save its file and the index.
ChangeTask(s, id) == Persisted(s, <<SaveTask(s, id), Index(s)>>, {}) /\ UNCHANGED ids

Create ==
  LET born == Len(ids) + 1
      id == store.nextTask
      s == [store EXCEPT !.tasks = Put(@, id, Task(born, "todo", NoId, {})), !.nextTask = id + 1]
      calls == <<SaveTask(s, id), Index(s)>>
  IN  /\ Len(ids) < taskScope.tasks
      /\ ids' = Append(ids, id)
      /\ \/ Completed(s, calls)
         \/ DiesWriting(calls)
         \/ MayFail /\ \E written \in Failing(calls) : FailsWriting(s, calls, written)
      /\ dropped' = dropped \cup {b \in {born} : \A i \in DOMAIN files'.tasks :
                                                  files'.tasks[i].born # b}

\* delete and bulk_delete: dependencies on what is deleted go with it.
DeleteTasks(gone) ==
  LET left == Keep(store.tasks, DOMAIN store.tasks \ gone)
      s == NotActive([store EXCEPT !.tasks =
             [i \in DOMAIN left |-> [left[i] EXCEPT !.deps = @ \ gone]]], gone)
  IN  /\ Persisted(RecalculateNextIds(s), <<Save(s)>>, {store.tasks[i].born : i \in gone})
      /\ UNCHANGED ids

SetStatus(id, status) ==
  /\ status # "done"
  /\ ChangeTask(WithStatus(store, id, status), id)

\* start, and auto-start when a file of the task is edited.
Start(id) ==
  /\ store.tasks[id].status = "todo"
  /\ ChangeTask([WithStatus(store, id, "in_progress") EXCEPT !.activeTask = id], id)

CompleteTask(id) ==
  /\ store.tasks[id].status \notin {"done", "blocked"}
  /\ ChangeTask(NotActive(WithStatus(store, id, "done"), {id}), id)

\* Auto-complete when the tests pass; the task stays the active one.
AutoComplete ==
  /\ store.activeTask \in DOMAIN store.tasks
  /\ store.tasks[store.activeTask].status = "in_progress"
  /\ ChangeTask(WithStatus(store, store.activeTask, "done"), store.activeTask)

\* bulk_set_status: tasks that have the status, and blocked ones that would be
\* done, are skipped.
BulkSetStatus(targets, status) ==
  LET changed == {i \in targets : /\ store.tasks[i].status # status
                                  /\ ~(status = "done" /\ store.tasks[i].status = "blocked")}
      all == [i \in DOMAIN store.tasks |->
                IF i \in changed THEN [store.tasks[i] EXCEPT !.status = status]
                ELSE store.tasks[i]]
      s == NotActive([store EXCEPT !.tasks = all], IF status = "done" THEN changed ELSE {})
  IN  /\ changed # {}
      /\ Persisted(s, <<Save(s)>>, {})
      /\ UNCHANGED ids

\* What a task depends on, directly or through others (the walk of hasCycle).
Reached(tasks, id) ==
  LET within[n \in Nat] ==
        IF n = 0 THEN tasks[id].deps
        ELSE LET near == within[n - 1]
             IN  near \cup UNION {tasks[j].deps : j \in near \cap DOMAIN tasks}
  IN  within[Cardinality(DOMAIN tasks)]

AddDependency_NoCycleCheck(id, target) ==
  /\ taskScope.links
  /\ id # target /\ target \notin store.tasks[id].deps
  /\ ChangeTask([store EXCEPT !.tasks[id].deps = @ \cup {target}], id)

AddDependency(id, target) ==
  /\ taskScope.links
  /\ id # target /\ target \notin store.tasks[id].deps
  /\ id \notin Reached(store.tasks, target)
  /\ ChangeTask([store EXCEPT !.tasks[id].deps = @ \cup {target}], id)

RemoveDependency(id, target) ==
  /\ target \in store.tasks[id].deps
  /\ ChangeTask([store EXCEPT !.tasks[id].deps = @ \ {target}], id)

\* The board of /board moves a task by a column, in the store only; nothing is
\* written until another operation saves it. A task that is in progress for the
\* first time becomes the active one.
MoveOnBoard(id, status) ==
  /\ taskScope.board
  /\ \E n \in 1..3 : {StatusOrder[n], StatusOrder[n + 1]} = {store.tasks[id].status, status}
  /\ \E active \in {store.activeTask} \cup (IF status = "in_progress" THEN {id} ELSE {}) :
       store' = NotActive([WithStatus(store, id, status) EXCEPT !.activeTask = active],
                          IF status = "done" THEN {id} ELSE {})
  /\ unsaved' = unsaved \cup {<<"task", id>>, <<"index", 0>>}
  /\ UNCHANGED <<files, archive, ids, dropped, faults, taskScope>>

-----------------------------------------------------------------------------
(* Sprints and the archive *)

AssignSprint(id, sprint) ==
  /\ sprint \in DOMAIN store.sprints
  /\ ChangeTask([store EXCEPT !.tasks[id].sprint = sprint], id)

UnassignSprint(id) ==
  /\ store.tasks[id].sprint # NoId
  /\ ChangeTask([store EXCEPT !.tasks[id].sprint = NoId], id)

BulkAssignSprint(targets, sprint) ==
  LET s == [store EXCEPT !.tasks = [i \in DOMAIN @ |->
              IF i \in targets THEN [@[i] EXCEPT !.sprint = sprint] ELSE @[i]]]
  IN  /\ s # store
      /\ Persisted(s, <<Save(s)>>, {})
      /\ UNCHANGED ids

CreateSprint ==
  LET id == store.nextSprint
      s == [store EXCEPT !.sprints = Put(@, id, "planned"), !.nextSprint = id + 1]
  IN  /\ id <= taskScope.sprints
      /\ Persisted(s, <<SaveSprint(s, id), Index(s)>>, {})
      /\ UNCHANGED ids

\* The sprint that was active is completed; only the file of the one that is
\* started is written.
StartSprint(id) ==
  LET s == [store EXCEPT
              !.sprints = [k \in DOMAIN @ |-> IF k = id THEN "active"
                                              ELSE IF @[k] = "active" THEN "completed" ELSE @[k]],
              !.activeSprint = id]
  IN  /\ store.sprints[id] # "active"
      /\ Persisted(s, <<SaveSprint(s, id), Index(s)>>, {})
      /\ UNCHANGED ids

CompleteSprint(id) ==
  LET done == {i \in DOMAIN store.tasks :
                 store.tasks[i].sprint = id /\ store.tasks[i].status = "done"}
      s == RecalculateNextIds(
             [store EXCEPT !.sprints[id] = "completed",
                           !.activeSprint = IF @ = id THEN NoId ELSE @,
                           !.tasks = Keep(@, DOMAIN @ \ done)])
  IN  /\ store.sprints[id] # "completed"
      /\ Persisted(s, <<ArchiveTasks(store.tasks, done, s), ArchiveSprints({id}, s), Save(s)>>, {})
      /\ UNCHANGED ids

OverSprints == {k \in DOMAIN store.sprints : store.sprints[k] = "completed"}
DoneTasks == {i \in DOMAIN store.tasks : store.tasks[i].status = "done"}
Without(done, over) ==
  [store EXCEPT !.tasks = Keep(@, DOMAIN @ \ done), !.sprints = Keep(@, DOMAIN @ \ over)]

\* archiveDoneTasks, the action of the tool: what is done in a sprint that is
\* not over stays.
ArchiveDone ==
  LET done == {i \in DoneTasks : store.tasks[i].sprint \notin DOMAIN store.sprints \ OverSprints}
      s == RecalculateNextIds(NotActive(Without(done, OverSprints), done))
  IN  /\ done \cup OverSprints # {}
      /\ Persisted(s, <<ArchiveTasks(store.tasks, done, store),
                        ArchiveSprints(OverSprints, store), Index(s)>>, {})
      /\ UNCHANGED ids

\* The /archive command takes every task that is done, and leaves the ids and
\* the active task as they are.
ArchiveCommand ==
  LET s == Without(DoneTasks, OverSprints)
  IN  /\ DoneTasks \cup OverSprints # {}
      /\ Persisted(s, <<ArchiveTasks(store.tasks, DoneTasks, store),
                        ArchiveSprints(OverSprints, store), Save(s)>>, {})
      /\ UNCHANGED ids

\* The program ends and is started again, or the user switches the session.
ReloadStore ==
  /\ Loaded(Disk)
  /\ unsaved' = {}
  /\ UNCHANGED <<ids, dropped, faults, taskScope>>

TaskInit ==
  /\ taskScope \in TaskScopes
  /\ store = DefaultStore
  /\ files = [tasks |-> EmptyMap, sprints |-> EmptyMap, index |-> [task |-> NoId, sprint |-> NoId]]
  /\ archive = EmptyMap
  /\ ids = <<>>
  /\ dropped = {}
  /\ unsaved = {}
  /\ faults = 0

TaskNext ==
  \/ Create \/ AutoComplete \/ CreateSprint \/ ArchiveDone \/ ArchiveCommand \/ ReloadStore
  \/ \E id \in DOMAIN store.tasks :
       \/ Start(id) \/ CompleteTask(id) \/ UnassignSprint(id)
       \/ \E status \in TaskStatuses : SetStatus(id, status) \/ MoveOnBoard(id, status)
       \/ \E target \in DOMAIN store.tasks : AddDependency(id, target)
       \/ \E target \in store.tasks[id].deps : RemoveDependency(id, target)
       \/ \E sprint \in DOMAIN store.sprints : AssignSprint(id, sprint)
  \/ \E targets \in SUBSET DOMAIN store.tasks \ {{}} :
       \/ DeleteTasks(targets)
       \/ \E status \in TaskStatuses : BulkSetStatus(targets, status)
       \/ \E sprint \in DOMAIN store.sprints : BulkAssignSprint(targets, sprint)
  \/ \E id \in DOMAIN store.sprints : StartSprint(id) \/ CompleteSprint(id)

-----------------------------------------------------------------------------
(* Properties *)

TaskTypeOK ==
  /\ \A i \in DOMAIN store.tasks :
       store.tasks[i] \in [born : 1..Len(ids), status : TaskStatuses, sprint : Nat, deps : SUBSET Nat]
  /\ \A k \in DOMAIN store.sprints : store.sprints[k] \in SprintStatuses
  /\ dropped \subseteq 1..Len(ids)
  /\ unsaved \subseteq {"task", "sprint", "index", "archive"} \X Nat
  /\ faults \in 0..taskScope.faults

\* No task waits for itself, directly or through others: a cycle could never
\* be started without a warning, and hasCycle looks at the store of today only.
\* (With links there are no faults: a task whose file a failed write left behind
\* may come back with a link that the others do not know of.)
NoCycle == \A i \in DOMAIN store.tasks : i \notin Reached(store.tasks, i)

\* What a restart would load is what the store says, the active task, tasks and
\* sprints alike, but for what was moved on the board or could not be written
\* since its file was written last; and a sprint that was completed because
\* another one was started is still active on disk.
FilesFollowStore ==
  /\ <<"index", 0>> \notin unsaved => <<File("index", 0, files.index)>> = Index(store)
  /\ \A i \in DOMAIN store.tasks \cup DOMAIN files.tasks :
       \/ <<"task", i>> \in unsaved
       \/ i \in DOMAIN store.tasks \cap DOMAIN files.tasks /\ files.tasks[i] = store.tasks[i]
  /\ \A k \in DOMAIN store.sprints \cup DOMAIN files.sprints :
       \/ <<"sprint", k>> \in unsaved
       \/ /\ k \in DOMAIN store.sprints \cap DOMAIN files.sprints
          /\ \/ files.sprints[k] = store.sprints[k]
             \/ /\ files.sprints[k] = "active" /\ store.sprints[k] = "completed"
                /\ store.activeSprint # k

\* A task that was created and not deleted, and that no failed write of the
\* archive left out, is in the store or in the archive, unless a later task that
\* was given its id was archived over it.
NothingVanishes ==
  \A b \in 1..Len(ids) \ dropped :
    \/ \E i \in DOMAIN store.tasks : store.tasks[i].born = b
    \/ ids[b] \in DOMAIN archive /\ archive[ids[b]] >= b

\* Over every order of operations, board moves, archives, failed writes and
\* crashes between two files.
TasksKept == NoCycle /\ FilesFollowStore /\ NothingVanishes

\* What was archived stays in the archive: recalculateNextIds "prevents ID
\* collisions after archiving or deletion".
ArchivePreserved == [][\A i \in DOMAIN archive : i \in DOMAIN archive' /\ archive'[i] = archive[i]]_taskVars
=============================================================================
