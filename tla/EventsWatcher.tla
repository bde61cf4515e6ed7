---------------------------- MODULE EventsWatcher ----------------------------
(***************************************************************************)
(* The scheduled events of the Slack bot (packages/mom/src/events.ts) and  *)
(* the queue of a channel (slack.ts). A file in the events directory is an *)
(* event: it is executed at once, at a time, or again and again. The       *)
(* watcher hears of a change, waits for a pause, and reads the file, with  *)
(* retries; the timer it then sets belongs to the content it read.         *)
(***************************************************************************)
EXTENDS Integers, Sequences, FiniteSets

CONSTANTS
  EventFiles,
  MaxVersions, \* bound: contents ever written
  MaxTouches,  \* bound: notifications without a change, and events that a cron fires
  MaxReads,    \* bound: calls of handleFile at a time
  QueueLimit   \* the works a channel's queue takes from events (5)

ASSUME EventsAssumption ==
  /\ MaxVersions \in Nat /\ MaxTouches \in Nat /\ MaxReads \in Nat
  /\ QueueLimit \in Nat \ {0}

VARIABLES
  versions,   \* the contents ever written: kind of event, whether it was there at the start
  content,    \* by file, the version on disk, Absent if there is none
  notified,   \* files with a notification that is not delivered
  debouncing, \* debounceTimers
  reads,      \* the calls of handleFile that have not returned
  known,      \* knownFiles
  timers,     \* timers and crons: by file and kind, the number of the one that is tracked
  live,       \* the timers and crons that were not stopped
  nextTimer,
  watching,
  queue, running, \* the channel: works waiting, and the ones that are executed
  touches,
  ran,        \* by version, how often its work was taken by the channel
  raced,      \* files whose change was handled, or that stop() met, while they were read
  stuck,      \* the contents whose file could not be removed
  over        \* the contents whose time has come, or whose schedule is not valid

eventsVars == <<versions, content, notified, debouncing, reads, known, timers, live,
                nextTimer, watching, queue, running, touches, ran, raced, stuck, over>>

EventKinds == {"immediate", "oneShot", "periodic"}
Absent == 0
NoTimers == [oneShot |-> 0, periodic |-> 0]
Tracked(file) == {timers[file].oneShot, timers[file].periodic}
MaxRetries == 3

IsEvent(version) == version # Absent /\ versions[version].kind \in EventKinds
Reading(file) == \E read \in reads : read.file = file

\* handleFile is called: the file is read, one try after the other.
FirstTry(file, call) ==
  [file |-> file, call |-> call, try |-> 1, phase |-> "reading", version |-> Absent]
FreeCall == CHOOSE c \in 1..MaxReads : \A read \in reads : read.call # c

\* deleteFile; the watcher hears of it like of every change. When the file
\* cannot be removed it is forgotten all the same.
DeleteFile(file) ==
  /\ known' = known \ {file}
  /\ \/ /\ content' = [content EXCEPT ![file] = Absent]
        /\ notified' = IF content[file] # Absent /\ watching THEN notified \cup {file} ELSE notified
        /\ UNCHANGED stuck
     \/ /\ content[file] # Absent
        /\ stuck' = stuck \cup {content[file]}
        /\ UNCHANGED <<content, notified>>

\* cancelScheduled: only what the maps know can be stopped.
Cancelled_KeepsTimer(file) == live
Cancelled(file) == {t \in live : t.number \notin Tracked(file)}

\* The files that are there at the start, each with a content of its own.
EventsInit ==
  /\ \E n \in 0..MaxVersions : \E kind \in [1..n -> EventKinds \cup {"partial"}] :
       /\ versions = [v \in 1..n |-> [kind |-> kind[v], stale |-> TRUE]]
       /\ content \in [EventFiles -> 0..n]
       /\ \A v \in 1..n : \E f \in EventFiles : \A g \in EventFiles : content[g] = v <=> g = f
       /\ reads = {FirstTry(f, 1) : f \in {g \in EventFiles : content[g] # Absent}}
       /\ ran = [v \in 1..n |-> 0]
  /\ notified = {} /\ debouncing = {} /\ known = {}
  /\ timers = [f \in EventFiles |-> NoTimers]
  /\ live = {} /\ nextTimer = 1
  /\ watching = TRUE
  /\ queue = <<>> /\ running = {}
  /\ touches = 0 /\ raced = {} /\ stuck = {} /\ over = {}

-----------------------------------------------------------------------------
(* Files and notifications *)

\* The agent or the user writes an event file, perhaps not to its end yet.
WriteEvent(file) ==
  /\ Len(versions) < MaxVersions
  /\ \E kind \in EventKinds \cup {"partial"} :
       versions' = Append(versions, [kind |-> kind, stale |-> FALSE])
  /\ content' = [content EXCEPT ![file] = Len(versions) + 1]
  /\ ran' = Append(ran, 0)
  /\ notified' = IF watching THEN notified \cup {file} ELSE notified
  /\ UNCHANGED <<debouncing, reads, known, timers, live, nextTimer, watching, queue, running,
                 touches, raced, stuck, over>>

RemoveEvent(file) ==
  /\ content[file] # Absent
  /\ content' = [content EXCEPT ![file] = Absent]
  /\ notified' = IF watching THEN notified \cup {file} ELSE notified
  /\ UNCHANGED <<versions, debouncing, reads, known, timers, live, nextTimer, watching, queue,
                 running, touches, ran, raced, stuck, over>>

\* One change is often announced more than once.
Touch(file) ==
  /\ watching /\ touches < MaxTouches
  /\ touches' = touches + 1
  /\ notified' = notified \cup {file}
  /\ UNCHANGED <<versions, content, debouncing, reads, known, timers, live, nextTimer, watching,
                 queue, running, ran, raced, stuck, over>>

Notify(file) ==
  /\ file \in notified
  /\ notified' = notified \ {file}
  /\ debouncing' = debouncing \cup {file}
  /\ UNCHANGED <<versions, content, reads, known, timers, live, nextTimer, watching, queue,
                 running, touches, ran, raced, stuck, over>>

\* handleFileChange, handleDelete
HandleFileChange(file) ==
  /\ file \in debouncing
  /\ Cardinality(reads) < MaxReads
  /\ debouncing' = debouncing \ {file}
  /\ raced' = IF Reading(file) THEN raced \cup {file} ELSE raced
  /\ IF file \in known
     THEN live' = Cancelled(file) /\ timers' = [timers EXCEPT ![file] = NoTimers]
     ELSE UNCHANGED <<live, timers>>
  /\ IF content[file] = Absent
     THEN known' = known \ {file} /\ UNCHANGED reads
     ELSE reads' = reads \cup {FirstTry(file, FreeCall)} /\ UNCHANGED known
  /\ UNCHANGED <<versions, content, notified, nextTimer, watching, queue, running, touches,
                 ran, stuck, over>>

\* stop: a file that is being read is scheduled all the same.
Stop ==
  /\ watching
  /\ watching' = FALSE
  /\ notified' = {} /\ debouncing' = {} /\ known' = {}
  /\ timers' = [f \in EventFiles |-> NoTimers]
  /\ live' = {t \in live : t.number \notin Tracked(t.file)}
  /\ raced' = raced \cup {read.file : read \in reads}
  /\ UNCHANGED <<versions, content, reads, nextTimer, queue, running, touches, ran, stuck, over>>

-----------------------------------------------------------------------------
(* The queue of the channel *)

\* enqueue, processNext: a work starts when no other one is executed.
Starts_WhileRunning(works) == works # <<>>
Starts(works) == works # <<>> /\ running = {}

\* enqueueEvent for the work of a version: it is discarded when the queue is full.
Enqueue(version) ==
  LET works == Append(queue, version)
  IN  IF Len(queue) >= QueueLimit THEN UNCHANGED <<queue, running, ran>>
      ELSE IF Starts(works)
           THEN /\ running' = running \cup {Head(works)}
                /\ queue' = Tail(works)
                /\ ran' = [ran EXCEPT ![Head(works)] = @ + 1]
           ELSE queue' = works /\ UNCHANGED <<running, ran>>

\* The work returns or throws; the next one starts.
WorkEnds(version) ==
  /\ version \in running
  /\ IF queue # <<>>
     THEN /\ running' = (running \ {version}) \cup {Head(queue)}
          /\ queue' = Tail(queue)
          /\ ran' = [ran EXCEPT ![Head(queue)] = @ + 1]
     ELSE running' = running \ {version} /\ UNCHANGED <<queue, ran>>
  /\ UNCHANGED <<versions, content, notified, debouncing, reads, known, timers, live, nextTimer,
                 watching, touches, raced, stuck, over>>

-----------------------------------------------------------------------------
(* Reading and scheduling *)

\* readFile has the content of this moment; handleFile goes on later.
ReadFile(read) ==
  /\ read.phase = "reading"
  /\ reads' = (reads \ {read}) \cup
                {[read EXCEPT !.phase = "read", !.version = content[read.file]]}
  /\ UNCHANGED <<versions, content, notified, debouncing, known, timers, live, nextTimer,
                 watching, queue, running, touches, ran, raced, stuck, over>>

\* Not there, or not an event: wait and try again, and delete the file after
\* the last try.
ReadFails(read) ==
  /\ read.phase = "read" /\ ~IsEvent(read.version)
  /\ IF read.try < MaxRetries
     THEN /\ reads' = (reads \ {read}) \cup {[read EXCEPT !.phase = "sleeping"]}
          /\ UNCHANGED <<content, notified, known, stuck>>
     ELSE reads' = reads \ {read} /\ DeleteFile(read.file)
  /\ UNCHANGED <<versions, debouncing, timers, live, nextTimer, watching, queue, running,
                 touches, ran, raced, over>>
ReadAgain(read) ==
  /\ read.phase = "sleeping"
  /\ reads' = (reads \ {read}) \cup
                {[read EXCEPT !.phase = "reading", !.try = @ + 1, !.version = Absent]}
  /\ UNCHANGED <<versions, content, notified, debouncing, known, timers, live, nextTimer,
                 watching, queue, running, touches, ran, raced, stuck, over>>

Scheduling(read, kinds) ==
  /\ read.phase = "read" /\ IsEvent(read.version)
  /\ versions[read.version].kind \in kinds
  /\ reads' = reads \ {read}
  /\ UNCHANGED <<versions, debouncing, watching, touches, raced>>

\* handleImmediate: nothing for a file that is gone; one from before the start
\* is deleted and not executed.
HandleImmediate(read) ==
  /\ Scheduling(read, {"immediate"})
  /\ IF content[read.file] = Absent
     THEN /\ known' = known \cup {read.file}
          /\ UNCHANGED <<content, notified, queue, running, ran, stuck>>
     ELSE /\ DeleteFile(read.file)
          /\ IF versions[content[read.file]].stale THEN UNCHANGED <<queue, running, ran>>
             ELSE Enqueue(read.version)
  /\ UNCHANGED <<timers, live, nextTimer, over>>

\* handleOneShot in time, handlePeriodic: the map forgets an earlier timer.
Schedule(read) ==
  /\ Scheduling(read, {"oneShot", "periodic"})
  /\ read.version \notin over
  /\ known' = known \cup {read.file}
  /\ timers' = [timers EXCEPT ![read.file][versions[read.version].kind] = nextTimer]
  /\ live' = live \cup {[number |-> nextTimer, file |-> read.file, version |-> read.version]}
  /\ nextTimer' = nextTimer + 1
  /\ UNCHANGED <<content, notified, queue, running, ran, stuck, over>>

\* handleOneShot too late, handlePeriodic with a schedule that is not valid.
Expired(read) ==
  /\ Scheduling(read, {"oneShot", "periodic"})
  /\ over' = over \cup {read.version}
  /\ DeleteFile(read.file)
  /\ UNCHANGED <<timers, live, nextTimer, queue, running, ran>>

\* The callback of a one-shot: the map entry goes, the work is enqueued, the
\* file of that name is deleted, whatever it says by now.
TimerFires(t) ==
  /\ t \in live /\ versions[t.version].kind = "oneShot"
  /\ live' = live \ {t}
  /\ timers' = [timers EXCEPT ![t.file].oneShot = 0]
  /\ over' = over \cup {t.version}
  /\ Enqueue(t.version)
  /\ DeleteFile(t.file)
  /\ UNCHANGED <<versions, debouncing, reads, nextTimer, watching, touches, raced>>

CronFires(t) ==
  /\ t \in live /\ versions[t.version].kind = "periodic"
  /\ touches < MaxTouches /\ touches' = touches + 1
  /\ Enqueue(t.version)
  /\ UNCHANGED <<versions, content, notified, debouncing, reads, known, timers, live, nextTimer,
                 watching, raced, stuck, over>>

EventsNext ==
  \/ Stop
  \/ \E file \in EventFiles :
       \/ WriteEvent(file) \/ RemoveEvent(file) \/ Touch(file) \/ Notify(file)
       \/ HandleFileChange(file)
  \/ \E read \in reads :
       \/ ReadFile(read) \/ ReadFails(read) \/ ReadAgain(read)
       \/ HandleImmediate(read) \/ Schedule(read) \/ Expired(read)
  \/ \E t \in live : TimerFires(t) \/ CronFires(t)
  \/ \E version \in running : WorkEnds(version)

EventsSpec == EventsInit /\ [][EventsNext]_eventsVars

-----------------------------------------------------------------------------
(* Properties *)

EventsTypeOK ==
  /\ \A f \in EventFiles : content[f] \in 0..Len(versions) /\ Tracked(f) \subseteq 0..nextTimer - 1
  /\ DOMAIN ran = 1..Len(versions)
  /\ \A read \in reads : read.try \in 1..MaxRetries /\ read.version \in 0..Len(versions)
  /\ \A t \in live : t.number \in 1..nextTimer - 1
  /\ Len(queue) <= QueueLimit
  /\ running \cup stuck \cup over \subseteq 1..Len(versions) /\ touches \in 0..MaxTouches

Settled(file) == file \notin notified \cup debouncing \cup raced /\ ~Reading(file)
LiveOf(file) == {t \in live : t.file = file}

\* When the watcher has caught up, what is scheduled is what the file says: for
\* a file the one timer that the map tracks, of its last content, and none for
\* a name without one. A file that could not be removed is forgotten and has no
\* timer until the next notification. Not for a file whose change was handled
\* while it was being read: two calls of handleFile then set two timers, or one
\* for a file that is gone, and only one of them can be stopped.
Asked(f) ==
  IF watching /\ content[f] # Absent
  THEN {[number |-> timers[f][versions[content[f]].kind], file |-> f, version |-> content[f]]}
  ELSE {}

ScheduleFollowsFiles ==
  \A f \in EventFiles : Settled(f) =>
    \/ content[f] \in stuck /\ LiveOf(f) = {}
    \/ LiveOf(f) = Asked(f)

\* The channel executes one work at a time, and an event that is not periodic
\* at most once, unless its file could not be removed: an immediate one is then
\* executed again whenever the file is touched.
ExecutedOnce ==
  /\ Cardinality(running) <= 1
  /\ raced = {} => \A v \in 1..Len(versions) \ stuck :
       versions[v].kind \in {"immediate", "oneShot"} => ran[v] <= 1

\* Over every order of changes, notifications, reads and timers.
EventsFollowFiles == ScheduleFollowsFiles /\ ExecutedOnce

\* What makes EventsFollowFiles inductive.

EventsShape ==
  /\ versions \in Seq([kind : EventKinds \cup {"partial"}, stale : BOOLEAN])
  /\ content \in [EventFiles -> 0..Len(versions)]
  /\ notified \subseteq EventFiles /\ debouncing \subseteq EventFiles
  /\ \A r \in reads :
       /\ r = [file |-> r.file, call |-> r.call, try |-> r.try, phase |-> r.phase,
               version |-> r.version]
       /\ r.file \in EventFiles /\ r.version \in 0..Len(versions)
  /\ timers \in [EventFiles -> [oneShot : Nat, periodic : Nat]]
  /\ nextTimer \in Nat \ {0}
  /\ live \subseteq [number : 1..(nextTimer - 1), file : EventFiles, version : 1..Len(versions)]
  /\ watching \in BOOLEAN
  /\ queue \in Seq(1..Len(versions)) /\ running \subseteq 1..Len(versions)
  /\ ran \in Seq(Nat) /\ Len(ran) = Len(versions)
  /\ stuck \subseteq 1..Len(versions)

\* The number of a timer is tracked for its own file only, and is never zero
\* or the one of the next timer; what is read again is not an event.
TimersAreTold ==
  /\ \A f \in EventFiles : \A n \in Tracked(f) : n < nextTimer
  /\ \A t \in live : /\ versions[t.version].kind \in {"oneShot", "periodic"}
                      /\ \A f \in EventFiles : t.number \in Tracked(f) => t.file = f
  /\ \A r \in reads : r.phase = "sleeping" => ~IsEvent(r.version)

\* A file that no change met while it was read: it is read by one call at a
\* time, and not while a timer of it is live; its one timer is tracked, and
\* it is the one of its content unless a change is still to be handled.
Calm(f) ==
  /\ \A r, q \in reads : r.file = f /\ q.file = f => r = q
  /\ \A t, u \in LiveOf(f) : t = u
  /\ \A t \in LiveOf(f) : /\ watching /\ f \in known /\ ~Reading(f)
                          /\ t.number = timers[f][versions[t.version].kind]
  /\ ~watching => ~Reading(f) /\ f \notin notified \cup debouncing
  /\ watching /\ f \notin notified \cup debouncing =>
       /\ \A r \in reads : r.file = f /\ r.phase = "read" => r.version = content[f]
       /\ \A t \in LiveOf(f) : t.version = content[f]
       /\ ~Reading(f) /\ content[f] \notin stuck \cup {Absent} => LiveOf(f) # {}

\* A version belongs to one file.
Holds(f, v) ==
  \/ content[f] = v
  \/ \E r \in reads : r.file = f /\ r.version = v
  \/ \E t \in live : t.file = f /\ t.version = v

\* A version that is executed once: it waits in the queue, or was taken, or a
\* file still holds it.
OnceAtMost(v) ==
  /\ \A f, g \in EventFiles : Holds(f, v) /\ Holds(g, v) => f = g
  /\ \A i, j \in 1..Len(queue) : queue[i] = v /\ queue[j] = v => i = j
  /\ ran[v] <= 1
  /\ ran[v] = 1 => \A i \in 1..Len(queue) : queue[i] # v
  /\ ran[v] = 1 \/ (\E i \in 1..Len(queue) : queue[i] = v) => \A f \in EventFiles : ~Holds(f, v)

EventsInv ==
  /\ EventsShape
  /\ TimersAreTold
  /\ \A f \in EventFiles \ raced : Calm(f)
  /\ Cardinality(running) <= 1
  /\ raced = {} => \A v \in 1..Len(versions) \ stuck :
       versions[v].kind \in {"immediate", "oneShot"} => OnceAtMost(v)
=============================================================================
