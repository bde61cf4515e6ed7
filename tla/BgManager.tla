------------------------------ MODULE BgManager ------------------------------
(***************************************************************************)
(* The background processes of a pi process                                *)
(* (core/features/bg/manager.ts).                                          *)
(*                                                                         *)
(* Processes are numbered as they are spawned. A process may ignore        *)
(* SIGTERM, never SIGKILL. The promise of stop() is resolved at once:      *)
(* child.killed is true as soon as kill() has sent its signal, so the      *)
(* SIGKILL that stop() schedules is cancelled and stop() is one step.      *)
(*                                                                         *)
(* Left out: notifications, times, a child that pi may not signal, the     *)
(* "error" event of a spawn without pid.                                   *)
(***************************************************************************)
EXTENDS Integers

CONSTANTS
  ProcNames,      \* names of processes
  MaxProcs        \* bound on the processes that are spawned

ASSUME BgAssumption == MaxProcs \in Nat

VARIABLES
  processes,      \* the process each name stands for, or none
  procStatus,     \* status of each ManagedProcess
  os,             \* what has become of each process: alive without a signal,
                  \*   "termed", "killed", "dead"
  spawned,        \* processes spawned
  piLife          \* "up"; "disposed" when _manager is null; "exited"

bgVars == <<processes, procStatus, os, spawned, piLife>>

NoProc == 0
Procs  == 1..MaxProcs
Listed == {processes[n] : n \in ProcNames} \ {NoProc}
Live   == {p \in Procs : os[p] \notin {"none", "dead"}}

-----------------------------------------------------------------------------
(* Signals. kill() of a dead process does nothing, a weaker signal changes nothing. *)

Signalled(ps, sig) ==
  [p \in Procs |-> IF p \notin ps \cap Live \/ os[p] = "killed" THEN os[p] ELSE sig]

\* stop() of some running processes.
Stopped(ps) == [p \in Procs |-> IF p \in ps THEN "stopped" ELSE procStatus[p]]

StopThem(ps) ==
  /\ procStatus' = Stopped(ps)
  /\ os' = Signalled(ps, "termed")

RunningProcs == {p \in Listed : procStatus[p] = "running"}

-----------------------------------------------------------------------------
(* Operations *)

\* run() refuses the name of a process that runs.
NameFree(n) == processes[n] \notin RunningProcs

\* run(): the name of an ended process is used again. Without a pid the
\* name is free and nothing is listed.
Run(n) ==
  /\ piLife = "up"
  /\ NameFree(n)
  /\ \/ /\ spawned < MaxProcs
        /\ spawned' = spawned + 1
        /\ processes' = [processes EXCEPT ![n] = spawned + 1]
        /\ procStatus' = [procStatus EXCEPT ![spawned + 1] = "running"]
        /\ os' = [os EXCEPT ![spawned + 1] = "alive"]
     \/ /\ processes' = [processes EXCEPT ![n] = NoProc]
        /\ UNCHANGED <<procStatus, os, spawned>>
  /\ UNCHANGED piLife

\* The "exit" event.
Exit(p) ==
  /\ p \in Live
  /\ os' = [os EXCEPT ![p] = "dead"]
  /\ IF piLife # "exited" /\ procStatus[p] = "running"
     THEN \E s \in {"stopped", "crashed"} : procStatus' = [procStatus EXCEPT ![p] = s]
     ELSE UNCHANGED procStatus
  /\ UNCHANGED <<processes, spawned, piLife>>

\* stop()
StopProc(n) ==
  /\ piLife = "up"
  /\ processes[n] \in RunningProcs
  /\ StopThem({processes[n]})
  /\ UNCHANGED <<processes, spawned, piLife>>

\* Mutation: the process that is replaced is not stopped.
RestartStops_Never(n) == {}

\* restart() stops the process it replaces, if that runs.
RestartStops(n) == {processes[n]} \cap RunningProcs

\* restart(): stop(), then run() with the name that is free now.
Restart(n) ==
  /\ piLife = "up"
  /\ processes[n] # NoProc
  /\ LET ps == RestartStops(n) IN
     \/ /\ spawned < MaxProcs
        /\ spawned' = spawned + 1
        /\ processes' = [processes EXCEPT ![n] = spawned + 1]
        /\ procStatus' = [Stopped(ps) EXCEPT ![spawned + 1] = "running"]
        /\ os' = [Signalled(ps, "termed") EXCEPT ![spawned + 1] = "alive"]
     \/ /\ processes' = [processes EXCEPT ![n] = NoProc]
        /\ StopThem(ps)
        /\ UNCHANGED spawned
  /\ UNCHANGED piLife

\* remove(): SIGKILL to a running process.
RemoveProc(n) ==
  /\ piLife = "up"
  /\ processes[n] # NoProc
  /\ os' = Signalled({processes[n]} \cap RunningProcs, "killed")
  /\ processes' = [processes EXCEPT ![n] = NoProc]
  /\ UNCHANGED <<procStatus, spawned, piLife>>

\* cleanup() forgets the processes that do not run.
CleanUp ==
  /\ piLife = "up"
  /\ Listed \ RunningProcs # {}
  /\ processes' = [n \in ProcNames |->
                     IF processes[n] \in RunningProcs THEN processes[n] ELSE NoProc]
  /\ UNCHANGED <<procStatus, os, spawned, piLife>>

\* stopAll(), also as a part of disposeProcessManager() (SIGTERM, SIGINT).
StopAll ==
  /\ piLife = "up"
  /\ StopThem(RunningProcs)
  /\ piLife' \in {"up", "disposed"}
  /\ UNCHANGED <<processes, spawned>>

\* The "exit" handler of pi: nothing is left to do without a manager.
PiExits ==
  /\ piLife # "exited"
  /\ os' = IF piLife = "up" THEN Signalled(RunningProcs, "killed") ELSE os
  /\ piLife' = "exited"
  /\ UNCHANGED <<processes, procStatus, spawned>>

-----------------------------------------------------------------------------

BgInit ==
  /\ processes = [n \in ProcNames |-> NoProc]
  /\ procStatus = [p \in Procs |-> "none"]
  /\ os = [p \in Procs |-> "none"]
  /\ spawned = 0
  /\ piLife = "up"

BgNext ==
  \/ \E n \in ProcNames : Run(n) \/ StopProc(n) \/ Restart(n) \/ RemoveProc(n)
  \/ \E p \in Procs : Exit(p)
  \/ CleanUp \/ StopAll \/ PiExits

BgSpec == BgInit /\ [][BgNext]_bgVars

-----------------------------------------------------------------------------

BgTypeOK ==
  /\ processes \in [ProcNames -> {NoProc} \cup Procs]
  /\ procStatus \in [Procs -> {"none", "running", "stopped", "crashed"}]
  /\ os \in [Procs -> {"none", "alive", "termed", "killed", "dead"}]
  /\ spawned \in 0..MaxProcs
  /\ piLife \in {"up", "disposed", "exited"}

\* A process that lives and was never told to end is listed as running, so
\* that list(), stop() and the exit of pi reach it; when pi is gone there is
\* none; and no process is listed twice.
NoOrphans ==
  /\ \A p \in Procs : os[p] = "alive" => piLife # "exited" /\ p \in RunningProcs
  /\ \A m, n \in ProcNames : processes[m] = processes[n] /\ m # n => processes[m] = NoProc

\* A process is listed as running only while it lives.
RunningIsTrue == piLife # "exited" => \A p \in RunningProcs : os[p] = "alive"

\* What the run checks of the processes.
ProcessesTracked == NoOrphans /\ RunningIsTrue

\* What makes ProcessesTracked inductive: a name stands for a process that was
\* spawned, and once the manager is disposed of, every process was told to end.
BgInv ==
  /\ BgTypeOK
  /\ ProcessesTracked
  /\ \A n \in ProcNames : processes[n] <= spawned
  /\ piLife = "disposed" => \A p \in Procs : os[p] # "alive"

=============================================================================
