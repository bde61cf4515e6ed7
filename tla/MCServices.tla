----------------------------- MODULE MCServices ------------------------------
(***************************************************************************)
(* The services beside the session: an instance of each for TLC. Each      *)
(* behaviour is one of the component it chose at the start.                *)
(***************************************************************************)
EXTENDS SubagentManager, McpPool, BgManager, RingBuffer, AuthStorage, LspManager,
        TaskStore

VARIABLE component

\* The languages of typescript-language-server share it.
ServerProgram(language) == IF language = "py" THEN "pyright" ELSE "tsserver"

\* Links between tasks; the board; sprints, both kinds of archive, a fault.
MCTaskScopes ==
  {[tasks |-> 3, sprints |-> 0, links |-> TRUE, board |-> FALSE, faults |-> 0],
   [tasks |-> 1, sprints |-> 1, links |-> FALSE, board |-> TRUE, faults |-> 1],
   [tasks |-> 2, sprints |-> 1, links |-> FALSE, board |-> FALSE, faults |-> 1],
   [tasks |-> 1, sprints |-> 2, links |-> FALSE, board |-> FALSE, faults |-> 1]}

serviceVars ==
  <<subVars, poolVars, bgVars, ringVars, authVars, lspVars, taskVars, component>>

Init ==
  /\ component \in {"subagents", "pool", "processes", "ring", "auth", "lsp", "tasks"}
  /\ SubInit /\ PoolInit /\ BgInit /\ RingInit /\ AuthInit /\ LspInit /\ TaskInit
  /\ component # "pool" => transport = "stdio"
  /\ component # "tasks" => taskScope.links
  /\ component # "auth" => loadError = {}

Next ==
  \/ /\ component = "subagents" /\ SubNext
     /\ UNCHANGED <<poolVars, bgVars, ringVars, authVars, lspVars, taskVars, component>>
  \/ /\ component = "pool" /\ PoolNext
     /\ UNCHANGED <<subVars, bgVars, ringVars, authVars, lspVars, taskVars, component>>
  \/ /\ component = "processes" /\ BgNext
     /\ UNCHANGED <<subVars, poolVars, ringVars, authVars, lspVars, taskVars, component>>
  \/ /\ component = "ring" /\ RingNext
     /\ UNCHANGED <<subVars, poolVars, bgVars, authVars, lspVars, taskVars, component>>
  \/ /\ component = "auth" /\ AuthNext
     /\ UNCHANGED <<subVars, poolVars, bgVars, ringVars, lspVars, taskVars, component>>
  \/ /\ component = "lsp" /\ LspNext
     /\ UNCHANGED <<subVars, poolVars, bgVars, ringVars, authVars, taskVars, component>>
  \/ /\ component = "tasks" /\ TaskNext
     /\ UNCHANGED <<subVars, poolVars, bgVars, ringVars, authVars, lspVars, component>>

Spec == Init /\ [][Next]_serviceVars

\* The components that do not run keep their initial state.
ServicesTypeOK ==
  /\ component = "subagents" => SubTypeOK
  /\ component = "pool" => PoolTypeOK
  /\ component = "processes" => BgTypeOK
  /\ component = "ring" => RingTypeOK
  /\ component = "auth" => AuthTypeOK
  /\ component = "lsp" => LspTypeOK
  /\ component = "tasks" => TaskTypeOK

\* What is started in the background: its process and the end of its output.
BackgroundKept == ProcessesTracked /\ KeepsTheLastLines
=============================================================================
