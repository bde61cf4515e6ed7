-------------------------- MODULE MCInteractiveMode --------------------------
(* An instance of InteractiveMode for TLC: the inputs each behaviour may have. *)
EXTENDS InteractiveMode, TLC

Nothing == [k \in Inputs |-> 0]
Busy == "overlap" :> 1 @@ Nothing

\* Clients that wait for the session to settle.
Retries == "prompt" :> 2 @@ "retryable" :> 4 @@ "abort" :> 1 @@ "queued" :> 1
             @@ "turn" :> 1 @@ "clear" :> 1 @@ Nothing
Compacts == "prompt" :> 2 @@ "overflow" :> 2 @@ "full" :> 1 @@ "bash" :> 1
                  @@ "abort" :> 1 @@ "abortCompaction" :> 1 @@ "compact" :> 1 @@ Nothing
Mixed == "prompt" :> 2 @@ "overflow" :> 1 @@ "retryable" :> 1 @@ "silent" :> 1
           @@ "full" :> 1 @@ "fatal" :> 1 @@ "turn" :> 1 @@ Nothing
Switches == "prompt" :> 2 @@ "retryable" :> 1 @@ "full" :> 1
              @@ "new" :> 1 @@ "switch" :> 2 @@ Nothing
Renewals == "prompt" :> 2 @@ "fatal" :> 1 @@ "queued" :> 1 @@ "new" :> 1 @@ Nothing
SettledBudgets == {Retries, Compacts, Mixed, Switches, Renewals}

\* A user at the keyboard: texts entered around one or two compactions, with
\* retries, keys and commands in between.
Typing == "text" :> 3 @@ "full" :> 1 @@ Busy
Keys == "text" :> 2 @@ "full" :> 1 @@ "escape" :> 1 @@ "dequeue" :> 1 @@ Busy
Overflows == "text" :> 2 @@ "overflow" :> 2 @@ Busy
Backoffs == "text" :> 2 @@ "retryable" :> 2 @@ "full" :> 1 @@ "escape" :> 1 @@ Busy
Manual == "text" :> 2 @@ "full" :> 1 @@ "compact" :> 1 @@ Busy
Commands == "text" :> 2 @@ "full" :> 1 @@ "new" :> 1 @@ Busy
Resumes == "text" :> 2 @@ "full" :> 1 @@ "switch" :> 1 @@ Busy
UserBudgets == {Typing, Keys, Overflows, Backoffs, Manual, Commands, Resumes}

TerminalBudgets == SettledBudgets \cup UserBudgets
=============================================================================
