--------------------------- MODULE MCAgentSession ---------------------------
(* Instances of AgentSession for TLC: the inputs each behaviour may have. *)
EXTENDS AgentSession, TLC

Nothing == [k \in Inputs |-> 0]

\* What must end well: clients that prompt at any time, overflows, messages
\* queued while a compaction runs, and the operations that interrupt a prompt.
Clients == "overlap" :> 1 @@ "prompt" :> 2 @@ "retryable" :> 3 @@ "abort" :> 1
             @@ "queued" :> 1 @@ Nothing
Rescues == "prompt" :> 2 @@ "overflow" :> 2 @@ "turn" :> 1 @@ Nothing
Waiting == "prompt" :> 1 @@ "queued" :> 3 @@ "full" :> 2 @@ "turn" :> 1 @@ Nothing
Interrupted == "prompt" :> 1 @@ "retryable" :> 1 @@ "full" :> 1 @@ "compact" :> 1
                 @@ "abortCompaction" :> 1 @@ "bash" :> 1 @@ Nothing
Moved == "overlap" :> 1 @@ "prompt" :> 1 @@ "retryable" :> 1 @@ "new" :> 1 @@ "switch" :> 1
           @@ "clear" :> 1 @@ Nothing
LivelyBudgets == {Clients, Rescues, Waiting, Interrupted, Moved}

\* One budget for each of the counterexamples.
Hangs == {"prompt" :> 1 @@ "retryable" :> 1 @@ "fatal" :> 1 @@ Nothing}
Lost == {"overlap" :> 1 @@ "prompt" :> 2 @@ "full" :> 1 @@ Nothing}
=============================================================================
