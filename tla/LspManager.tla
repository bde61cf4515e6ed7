----------------------------- MODULE LspManager ------------------------------
(***************************************************************************)
(* The language servers of a pi process: the manager that keeps a client   *)
(* per language (core/features/lsp/manager.ts), its life over sessions     *)
(* (core/features/lsp/index.ts, commands.ts, and newSession() and reload() *)
(* of core/agent-session.ts), and the life of a client (client.ts).        *)
(*                                                                         *)
(* setupLspFeature() takes its manager once, when the session object is    *)
(* built; the command /lsp-setup takes one at every reload; the tools ask  *)
(* for the current one at every call. Managers and servers are numbered.   *)
(*                                                                         *)
(* Left out: the protocol with a server and its documents, the detection   *)
(* and installation of servers: every language is ready.                   *)
(***************************************************************************)
EXTENDS Integers, FiniteSets

CONSTANTS
  Languages,      \* language keys
  ServerName(_),  \* config.server.name of each
  MaxManagers,    \* bound on the managers that are made
  MaxServers      \* bound on the server processes

ASSUME LspAssumption == MaxManagers \in Nat \ {0} /\ MaxServers \in Nat

VARIABLES
  singleton,      \* _manager, or none
  managersMade,
  commandManager, \* the manager registerLspCommands() has taken
  lspClients,     \* LspManager.clients of each manager: a server per language
  servers,        \* what each server process is doing
  serversMade,
  job,            \* what the session or a command is doing: nothing, or the
                  \*   manager it stops or starts and the languages that are left
  found           \* the last answer of a tool about each language

lspVars == <<singleton, managersMade, commandManager, lspClients, servers,
             serversMade, job, found>>

None     == 0
Managers == 1..MaxManagers
Servers  == 1..MaxServers
SetupManager == 1
NoJob    == [kind |-> "none", manager |-> None, left |-> {}, by |-> "none"]
Job(kind, m, left, by) == [kind |-> kind, manager |-> m, left |-> left, by |-> by]
ServersOf(m) == {lspClients[m][k] : k \in Languages} \ {None}
LiveServers  == {s \in Servers : servers[s] \in {"starting", "ready", "stopping"}}

-----------------------------------------------------------------------------
(* Stopping *)

\* stop() of every client of a manager.
Stopping(m) ==
  servers' = [s \in Servers |-> IF m # None /\ s \in ServersOf(m) \cap LiveServers
                                THEN "stopping" ELSE servers[s]]

\* newSession() and reload() run the shutdown handlers: disposeLspManager().
SessionShutdown ==
  /\ job.kind = "none"
  /\ \E by \in {"newSession", "reload"} : job' = Job("stop", singleton, {}, by)
  /\ singleton' = None
  /\ IF singleton = None THEN UNCHANGED servers ELSE Stopping(singleton)
  /\ UNCHANGED <<managersMade, commandManager, lspClients, serversMade, found>>

\* /lsp-setup stops the servers of its own manager.
LspSetup ==
  /\ job.kind = "none"
  /\ job' = Job("stop", commandManager, {}, "command")
  /\ Stopping(commandManager)
  /\ UNCHANGED <<singleton, managersMade, commandManager, lspClients, serversMade, found>>

\* A server ends after shutdown and exit, or is killed three seconds later.
ServerStops(s) ==
  /\ servers[s] = "stopping"
  /\ servers' = [servers EXCEPT ![s] = "dead"]
  /\ UNCHANGED <<singleton, managersMade, commandManager, lspClients, serversMade, job, found>>

\* stopAll() has waited for all of them. A reload builds the runtime again,
\* and with it the commands, which take the current manager, or a new one.
AllStopped ==
  /\ job.kind = "stop"
  /\ job.manager # None => ServersOf(job.manager) \cap LiveServers = {}
  /\ lspClients' = IF job.manager = None THEN lspClients
                   ELSE [lspClients EXCEPT ![job.manager] = [k \in Languages |-> None]]
  /\ IF job.by = "reload" /\ singleton = None
     THEN /\ managersMade < MaxManagers
          /\ managersMade' = managersMade + 1
          /\ singleton' = managersMade + 1
          /\ commandManager' = managersMade + 1
     ELSE /\ UNCHANGED <<managersMade, singleton>>
          /\ commandManager' = IF job.by = "reload" THEN singleton ELSE commandManager
  /\ job' = Job("start", IF job.by = "command" THEN commandManager ELSE SetupManager,
                Languages, job.by)
  /\ UNCHANGED <<servers, serversMade, found>>

-----------------------------------------------------------------------------
(* Starting *)

\* Mutation: the other languages are not looked at.
SharedClients_None(m, k) == {}

\* The clients of other languages that have the same server.
SharedClients(m, k) ==
  {s \in Servers : \E other \in Languages \ {k} :
     lspClients[m][other] = s /\ ServerName(other) = ServerName(k)}

\* startServer(): a language whose server is there takes that client; else
\* a new client replaces the one that was kept for the language.
StartServer(k) ==
  LET m      == job.manager
      shared == SharedClients(m, k)
  IN
  /\ job.kind = "start"
  /\ k \in job.left
  /\ job.manager # None
  /\ \A s \in Servers : servers[s] = "starting" => s \notin ServersOf(m)
  /\ job' = [job EXCEPT !.left = @ \ {k}]
  /\ IF shared # {}
     THEN /\ \E s \in shared : lspClients' = [lspClients EXCEPT ![m][k] = s]
          /\ UNCHANGED <<servers, serversMade>>
     ELSE /\ serversMade < MaxServers
          /\ serversMade' = serversMade + 1
          /\ servers' = [servers EXCEPT ![serversMade + 1] = "starting"]
          /\ lspClients' = [lspClients EXCEPT ![m][k] = serversMade + 1]
  /\ UNCHANGED <<singleton, managersMade, commandManager, found>>

\* The answer to initialize.
ServerReady(s) ==
  /\ servers[s] = "starting"
  /\ servers' = [servers EXCEPT ![s] = "ready"]
  /\ UNCHANGED <<singleton, managersMade, commandManager, lspClients, serversMade, job, found>>

\* A server that dies while it starts ends the job.
ServerDies(s) ==
  /\ servers[s] \in {"starting", "ready"}
  /\ servers' = [servers EXCEPT ![s] = "dead"]
  /\ job' = IF servers[s] = "starting" THEN NoJob ELSE job
  /\ UNCHANGED <<singleton, managersMade, commandManager, lspClients, serversMade, found>>

AllStarted ==
  /\ job.kind = "start"
  /\ job.left = {}
  /\ \A s \in ServersOf(job.manager) : servers[s] # "starting"
  /\ job' = NoJob
  /\ UNCHANGED <<singleton, managersMade, commandManager, lspClients, servers, serversMade, found>>

\* A tool asks getLspManager() for the client of a file.
ToolAsks(k) ==
  LET m == IF singleton = None THEN managersMade + 1 ELSE singleton
      s == IF singleton = None THEN None ELSE lspClients[m][k]
  IN
  /\ job.kind = "none"
  /\ m <= MaxManagers
  /\ singleton' = m
  /\ managersMade' = IF singleton = None THEN m ELSE managersMade
  /\ found' = [found EXCEPT ![k] = IF s # None /\ servers[s] = "ready" THEN s ELSE None]
  /\ UNCHANGED <<commandManager, lspClients, servers, serversMade, job>>

-----------------------------------------------------------------------------

\* The session object has been built; bindExtensions() starts the servers.
LspInit ==
  /\ singleton = SetupManager
  /\ managersMade = 1
  /\ commandManager = SetupManager
  /\ lspClients = [m \in Managers |-> [k \in Languages |-> None]]
  /\ servers = [s \in Servers |-> "none"]
  /\ serversMade = 0
  /\ job = Job("start", SetupManager, Languages, "bind")
  /\ found = [k \in Languages |-> None]

LspNext ==
  \/ SessionShutdown \/ LspSetup \/ AllStopped \/ AllStarted
  \/ \E s \in Servers : ServerStops(s) \/ ServerReady(s) \/ ServerDies(s)
  \/ \E k \in Languages : StartServer(k) \/ ToolAsks(k)

LspSpec == LspInit /\ [][LspNext]_lspVars

-----------------------------------------------------------------------------

LspTypeOK ==
  /\ singleton \in {None} \cup Managers
  /\ managersMade \in Managers
  /\ commandManager \in Managers
  /\ lspClients \in [Managers -> [Languages -> {None} \cup Servers]]
  /\ servers \in [Servers -> {"none", "starting", "ready", "stopping", "dead"}]
  /\ serversMade \in 0..MaxServers
  /\ job \in [kind : {"none", "stop", "start"}, manager : {None} \cup Managers,
              left : SUBSET Languages, by : {"none", "bind", "newSession", "reload", "command"}]
  /\ found \in [Languages -> {None} \cup Servers]

\* One server program runs once in a manager, however many languages use it.
SharedServer ==
  \A m \in Managers : \A j, k \in Languages :
    ServerName(j) = ServerName(k) /\ lspClients[m][j] # None /\ lspClients[m][k] # None
      => lspClients[m][j] = lspClients[m][k]

\* What index.ts:60 says: when a session has shut down, no server runs.
ShutdownStopsAll ==
  job.kind = "start" /\ job.left = Languages /\ job.by \in {"newSession", "reload"}
    => LiveServers = {}

=============================================================================
