--------------------------- MODULE Services_proofs ---------------------------
(***************************************************************************)
(* Proofs about the services beside the session, for every value of their  *)
(* constants: the MCP pool, the background processes and their output, the *)
(* credentials, the language servers and the subagents. Each has an        *)
(* inductive invariant in its module (PoolInv, BgInv, RingInv, AuthInv,    *)
(* SubInv; LspTypeOK together with SharedServer). The last section carries *)
(* the results over to the composition MCServices, whose steps are steps   *)
(* of one component.                                                       *)
(***************************************************************************)
EXTENDS MCServices, FiniteSetTheorems, SequenceTheorems, TLAPS


-----------------------------------------------------------------------------
(* The connections of the MCP pool *)

\* Initially there is neither a client nor a call (pool.ts, constructor).
LEMMA PoolInitInv == PoolInit => PoolInv
<1> SUFFICES ASSUME PoolInit PROVE PoolInv
  OBVIOUS
<1>1. PoolTypeOK
  <2>1. entry \in [state : {"disconnected", "connecting", "connected", "error"},
                  client : {NoClient} \cup Ids, idleTimer : BOOLEAN]
    BY DEF PoolInit
  <2>2. clients \in [{NoClient} \cup Ids -> {"none", "connecting", "open", "closing", "closed"}]
    BY DEF PoolInit
  <2>3. made \in 0..MaxClients
    BY PoolAssumption DEF PoolInit
  <2>4. /\ mcpCalls \in [Calls -> {"none", "waiting", "calling", "done", "failed"}]
        /\ uses \in [Calls -> {NoClient} \cup Ids]
        /\ closing \in [Disconnects -> {"none", "waiting", "done"}]
    BY DEF PoolInit
  <2>5. fallback \in BOOLEAN /\ pending \in {NoClient} \cup Ids /\ transport \in {"stdio", "http"}
    BY DEF PoolInit
  <2> QED
    BY <2>1, <2>2, <2>3, <2>4, <2>5 DEF PoolTypeOK
<1>2. /\ PoolCoherent
      /\ pending # NoClient => entry.client = NoClient
      /\ clients[NoClient] = "none"
  BY DEF PoolInit, PoolCoherent, OneAttempt, NoLostCaller, EntryCoherent, NoClient, Ids
<1> QED
  BY <1>1, <1>2 DEF PoolInv

\* A new client is the only one that connects.
LEMMA BuildStep ==
  ASSUME PoolInv, made < MaxClients, entry.client = NoClient,
         NEW others \in [{NoClient} \cup Ids -> {"none", "open", "closing", "closed"}],
         others[NoClient] = "none",
         NEW state \in {"disconnected", "connecting", "error"},
         Build(others, state)
  PROVE  /\ made' \in 0..MaxClients /\ made' = made + 1
         /\ clients' \in [{NoClient} \cup Ids -> {"none", "connecting", "open", "closing", "closed"}]
         /\ pending' \in Ids
         /\ entry' \in [state : {"disconnected", "connecting", "connected", "error"},
                        client : {NoClient} \cup Ids, idleTimer : BOOLEAN]
         /\ OneAttempt' /\ EntryCoherent' /\ pending' # NoClient /\ entry'.client = NoClient
         /\ clients'[NoClient] = "none"
<1>1. made + 1 \in Ids /\ made + 1 # NoClient
  BY PoolAssumption DEF PoolInv, PoolTypeOK, Ids, NoClient
<1>2. /\ made' = made + 1
      /\ clients' = [others EXCEPT ![made + 1] = "connecting"]
      /\ pending' = made + 1
      /\ entry' = [entry EXCEPT !.state = state]
  BY DEF Build
<1>3. entry'.client = NoClient /\ entry'.state = state
      /\ entry' \in [state : {"disconnected", "connecting", "connected", "error"},
                     client : {NoClient} \cup Ids, idleTimer : BOOLEAN]
  BY <1>2 DEF PoolInv, PoolTypeOK
<1>4. OneAttempt'
  BY <1>1, <1>2 DEF OneAttempt
<1>5. EntryCoherent'
  BY <1>3 DEF EntryCoherent
<1>6. made' \in 0..MaxClients
  BY <1>2, PoolAssumption DEF PoolInv, PoolTypeOK
<1>7. clients'[NoClient] = "none"
  BY <1>1, <1>2
<1> QED
  BY <1>1, <1>2, <1>3, <1>4, <1>5, <1>6, <1>7

\* Every step of a call, of a connection attempt and of disconnect() keeps the
\* invariant, in whatever order they are taken.
LEMMA PoolNextInv == PoolInv /\ [PoolNext]_poolVars => PoolInv'
<1> SUFFICES ASSUME PoolInv, [PoolNext]_poolVars PROVE PoolInv'
  OBVIOUS
<1> DEFINE Entries == [state : {"disconnected", "connecting", "connected", "error"},
                       client : {NoClient} \cup Ids, idleTimer : BOOLEAN]
<1>1. ASSUME NEW c \in Calls, GetClient(c) PROVE PoolInv'
  <2>1. CASE entry.state = "connected" /\ entry.client # NoClient
    BY <1>1, <2>1 DEF GetClient, PoolInv, PoolTypeOK, PoolCoherent, OneAttempt, NoLostCaller, EntryCoherent
  <2>2. CASE ~(entry.state = "connected" /\ entry.client # NoClient) /\ ~MustConnect
    BY <1>1, <2>2 DEF GetClient, MustConnect, PoolInv, PoolTypeOK, PoolCoherent, OneAttempt, NoLostCaller, EntryCoherent
  <2>3. CASE ~(entry.state = "connected" /\ entry.client # NoClient) /\ MustConnect
    <3>1. /\ made < MaxClients
          /\ Build(clients, "connecting")
          /\ fallback' = FALSE
          /\ mcpCalls' = [mcpCalls EXCEPT ![c] = "waiting"]
          /\ UNCHANGED <<uses, transport, closing>>
      BY <1>1, <2>3 DEF GetClient
    <3>2. entry.client = NoClient
      BY <2>3 DEF PoolInv, PoolCoherent, EntryCoherent
    <3>3. clients \in [{NoClient} \cup Ids -> {"none", "open", "closing", "closed"}]
      <4>1. \A k \in Ids : clients[k] # "connecting"
        BY <2>3 DEF MustConnect, PoolInv, PoolCoherent, OneAttempt
      <4>2. clients[NoClient] # "connecting"
        BY DEF PoolInv, PoolTypeOK
      <4> QED
        BY <4>1, <4>2 DEF PoolInv, PoolTypeOK
    <3> QED
      BY <3>1, <3>2, <3>3, BuildStep DEF PoolInv, PoolTypeOK, PoolCoherent, NoLostCaller
  <2> QED
    BY <2>1, <2>2, <2>3
<1>2. ASSUME NEW c \in Calls, CallSucceeds(c) PROVE PoolInv'
  <2>1. entry' \in Entries /\ entry'.state = entry.state /\ entry'.client = entry.client
    BY <1>2 DEF CallSucceeds, PoolInv, PoolTypeOK
  <2> QED
    BY <1>2, <2>1 DEF CallSucceeds, PoolInv, PoolTypeOK, PoolCoherent, OneAttempt, NoLostCaller, EntryCoherent
<1>3. ASSUME NEW c \in Calls, CallFails(c) PROVE PoolInv'
  BY <1>3 DEF CallFails, PoolInv, PoolTypeOK, PoolCoherent, OneAttempt, NoLostCaller, EntryCoherent
<1>4. CASE Connected
  <2>1. entry' \in Entries /\ entry'.state = "connected" /\ entry'.client = pending
    BY <1>4 DEF Connected, PoolInv, PoolTypeOK
  <2>2. clients' = [clients EXCEPT ![pending] = "open"] /\ pending # NoClient /\ pending' = NoClient
    BY <1>4 DEF Connected
  <2>3. OneAttempt'
    BY <2>2 DEF PoolInv, PoolTypeOK, PoolCoherent, OneAttempt
  <2>4. EntryCoherent'
    BY <2>1, <2>2 DEF PoolInv, PoolTypeOK, EntryCoherent
  <2>5. NoLostCaller'
    BY <1>4 DEF Connected, NoLostCaller
  <2>6. PoolTypeOK'
    BY <1>4, <2>1 DEF Connected, PoolInv, PoolTypeOK
  <2>7. clients'[NoClient] = "none"
    BY <2>2 DEF PoolInv, PoolTypeOK
  <2> QED
    BY <2>2, <2>3, <2>4, <2>5, <2>6, <2>7 DEF PoolInv, PoolCoherent
<1>5. CASE FallBack
  <2> DEFINE others == [clients EXCEPT ![pending] = "closed"]
  <2>1. /\ pending # NoClient /\ made < MaxClients /\ fallback' = TRUE
        /\ Build(others, entry.state)
        /\ UNCHANGED <<transport, mcpCalls, uses, closing>>
    BY <1>5 DEF FallBack
  <2>2. entry.client = NoClient /\ entry.state \in {"disconnected", "connecting", "error"}
    BY <2>1 DEF PoolInv, PoolTypeOK, PoolCoherent, EntryCoherent
  <2>3. others \in [{NoClient} \cup Ids -> {"none", "open", "closing", "closed"}]
        /\ others[NoClient] = "none"
    BY <2>1 DEF PoolInv, PoolTypeOK, PoolCoherent, OneAttempt
  <2> HIDE DEF others
  <2>4. /\ made' \in 0..MaxClients
        /\ clients' \in [{NoClient} \cup Ids -> {"none", "connecting", "open", "closing", "closed"}]
        /\ pending' \in Ids
        /\ entry' \in Entries
        /\ OneAttempt' /\ EntryCoherent' /\ pending' # NoClient /\ entry'.client = NoClient
        /\ clients'[NoClient] = "none"
    <3> DEFINE state == entry.state
    <3>1. state \in {"disconnected", "connecting", "error"} /\ Build(others, state)
      BY <2>1, <2>2
    <3> HIDE DEF state
    <3> QED
      BY <2>1, <2>2, <2>3, <3>1, BuildStep
  <2>5. PoolTypeOK' /\ NoLostCaller'
    BY <2>1, <2>4 DEF PoolInv, PoolTypeOK, PoolCoherent, NoLostCaller
  <2> QED
    BY <2>4, <2>5 DEF PoolInv, PoolCoherent
<1>6. CASE ConnectFails
  <2>1. entry' \in Entries /\ entry'.state = "error" /\ entry'.client = NoClient
    BY <1>6 DEF ConnectFails, PoolInv, PoolTypeOK
  <2>2. clients' = [clients EXCEPT ![pending] = "closed"] /\ pending' = NoClient
    BY <1>6 DEF ConnectFails
  <2>3. OneAttempt'
    BY <2>2 DEF PoolInv, PoolTypeOK, PoolCoherent, OneAttempt
  <2>4. EntryCoherent' /\ NoLostCaller'
    BY <1>6, <2>1 DEF ConnectFails, EntryCoherent, NoLostCaller
  <2>5. PoolTypeOK'
    BY <1>6, <2>1 DEF ConnectFails, PoolInv, PoolTypeOK
  <2>6. clients'[NoClient] = "none"
    BY <1>6, <2>2 DEF ConnectFails, PoolInv, PoolTypeOK
  <2> QED
    BY <2>2, <2>3, <2>4, <2>5, <2>6 DEF PoolInv, PoolCoherent
<1>7. ASSUME NEW k \in Ids, ServerCloses(k) PROVE PoolInv'
  <2>1. entry' \in Entries
        /\ \/ entry' = entry /\ entry.state # "connected"
           \/ entry'.state = "error" /\ entry'.client = NoClient
    BY <1>7 DEF ServerCloses, OnClose, PoolInv, PoolTypeOK
  <2>2. clients' = [clients EXCEPT ![k] = "closed"] /\ clients[k] # "connecting"
    BY <1>7 DEF ServerCloses
  <2>3. EntryCoherent'
    BY <2>1, <2>2 DEF PoolInv, PoolTypeOK, PoolCoherent, EntryCoherent
  <2>4. OneAttempt'
    BY <1>7, <2>2 DEF ServerCloses, PoolInv, PoolTypeOK, PoolCoherent, OneAttempt
  <2> QED
    BY <1>7, <2>1, <2>3, <2>4 DEF ServerCloses, PoolInv, PoolTypeOK, PoolCoherent, NoLostCaller
<1>8. ASSUME NEW d \in Disconnects, Disconnect(d) PROVE PoolInv'
  <2>1. CASE entry.client = NoClient
    <3>1. entry' \in Entries /\ entry'.state = "disconnected" /\ entry'.client = NoClient
      BY <1>8, <2>1 DEF Disconnect, Disconnected, PoolInv, PoolTypeOK
    <3> QED
      BY <1>8, <2>1, <3>1 DEF Disconnect, PoolInv, PoolTypeOK, PoolCoherent, NoLostCaller, OneAttempt, EntryCoherent
  <2>2. CASE entry.client # NoClient
    <3> DEFINE k == entry.client
    <3>1. /\ closing' = [closing EXCEPT ![d] = "waiting"]
          /\ UNCHANGED <<transport, pending, fallback, made, mcpCalls, uses>>
      BY <1>8, <2>2 DEF Disconnect
    <3>2. k \in Ids /\ clients[k] \in {"open", "closing", "closed"} /\ entry.state = "connected"
      BY <2>2 DEF PoolInv, PoolTypeOK, PoolCoherent, EntryCoherent
    <3>3. entry' \in Entries
          /\ \/ entry'.state = "error" /\ entry'.client = NoClient
             \/ entry'.state = entry.state /\ entry'.client = k
      BY <1>8, <2>2, SMTT(20), ZenonT(20) DEF Disconnect, OnClose, PoolInv, PoolTypeOK
    <3>4. PICK w \in {"open", "closing", "closed"} : clients' = [clients EXCEPT ![k] = w]
      BY <1>8, <2>2, <3>2 DEF Disconnect, PoolInv, PoolTypeOK
    <3>5. EntryCoherent'
      BY <3>2, <3>3, <3>4 DEF PoolInv, PoolTypeOK, PoolCoherent, EntryCoherent
    <3>6. OneAttempt'
      BY <3>1, <3>2, <3>4 DEF PoolInv, PoolTypeOK, PoolCoherent, OneAttempt
    <3>7. PoolTypeOK'
      BY <3>1, <3>3, <3>4 DEF PoolInv, PoolTypeOK
    <3>8. clients'[NoClient] = "none"
      BY <2>2, <3>4 DEF PoolInv, PoolTypeOK
    <3> QED
      BY <3>1, <3>2, <3>3, <3>5, <3>6, <3>7, <3>8 DEF PoolInv, PoolCoherent, NoLostCaller
  <2> QED
    BY <2>1, <2>2
<1>9. ASSUME NEW d \in Disconnects, DisconnectEnds(d) PROVE PoolInv'
  <2>1. entry' \in Entries /\ entry'.state = "disconnected" /\ entry'.client = NoClient
    BY <1>9 DEF DisconnectEnds, Disconnected, PoolInv, PoolTypeOK
  <2> QED
    BY <1>9, <2>1 DEF DisconnectEnds, PoolInv, PoolTypeOK, PoolCoherent, NoLostCaller, OneAttempt, EntryCoherent
<1>10. CASE UNCHANGED poolVars
  BY <1>10 DEF poolVars, PoolInv, PoolTypeOK, PoolCoherent, NoLostCaller, OneAttempt, EntryCoherent
<1> QED
  BY <1>1, <1>2, <1>3, <1>4, <1>5, <1>6, <1>7, <1>8, <1>9, <1>10 DEF PoolNext

\* Whatever calls, reconnects, time-outs and closed connections come together:
\* concurrent calls share one attempt to connect, none waits for an attempt that
\* is over, and the entry is "connected" exactly while it has a client
\* (getClient, connectEntry, disconnect and onclose of pool.ts).
THEOREM PoolCoherentAlways == PoolSpec => []PoolCoherent
<1>1. PoolInv => PoolCoherent
  BY DEF PoolInv
<1> QED
  BY <1>1, PoolInitInv, PoolNextInv, PTL DEF PoolSpec

-----------------------------------------------------------------------------
(* Background processes *)

\* Initially nothing was spawned.
LEMMA BgInitInv == BgInit => BgInv
<1> SUFFICES ASSUME BgInit PROVE BgInv
  OBVIOUS
<1>1. BgTypeOK
  BY BgAssumption DEF BgInit, BgTypeOK
<1>2. ProcessesTracked
  BY DEF BgInit, ProcessesTracked, NoOrphans, RunningIsTrue, RunningProcs, Listed
<1> QED
  BY <1>1, <1>2 DEF BgInit, BgInv, NoProc

\* A process gets a number of its own.
LEMMA NextProc ==
  ASSUME BgInv, spawned < MaxProcs
  PROVE  /\ spawned + 1 \in Procs /\ spawned + 1 # NoProc /\ spawned + 1 \in 0..MaxProcs
         /\ \A n \in ProcNames : processes[n] # spawned + 1 /\ processes[n] <= spawned + 1
<1>1. spawned \in 0..MaxProcs
  BY DEF BgInv, BgTypeOK
<1>2. \A n \in ProcNames : processes[n] \in Int /\ processes[n] <= spawned
  <2> SUFFICES ASSUME NEW n \in ProcNames PROVE processes[n] \in Int /\ processes[n] <= spawned
    OBVIOUS
  <2>1. processes[n] = 0 \/ processes[n] \in 1..MaxProcs
    BY DEF BgInv, BgTypeOK, Procs, NoProc
  <2> QED
    BY <2>1, BgAssumption DEF BgInv
<1> QED
  BY <1>1, <1>2, BgAssumption DEF Procs, NoProc

\* A signal ends the ones it is sent to, and no other process becomes alive.
LEMMA SignalledType ==
  ASSUME BgTypeOK, NEW ps, NEW sig \in {"termed", "killed"}
  PROVE  /\ Signalled(ps, sig) \in [Procs -> {"none", "alive", "termed", "killed", "dead"}]
         /\ \A p \in Procs : Signalled(ps, sig)[p] = "alive" <=> os[p] = "alive" /\ p \notin ps
  BY DEF BgTypeOK, Signalled, Live

\* stop() takes the status "running" from the ones it is called for only.
LEMMA StoppedType ==
  ASSUME BgTypeOK, NEW ps
  PROVE  /\ Stopped(ps) \in [Procs -> {"none", "running", "stopped", "crashed"}]
         /\ \A p \in Procs : Stopped(ps)[p] = "running" <=> procStatus[p] = "running" /\ p \notin ps
  BY DEF BgTypeOK, Stopped

\* ProcessesTracked, name by name.
AliveIsListed ==
  \A p \in Procs : os[p] = "alive" =>
    piLife # "exited" /\ procStatus[p] = "running" /\ \E n \in ProcNames : processes[n] = p

ListedOnce == \A m, n \in ProcNames : processes[m] = processes[n] /\ m # n => processes[m] = NoProc

RunningIsAlive ==
  piLife # "exited" =>
    \A n \in ProcNames : processes[n] # NoProc /\ procStatus[processes[n]] = "running"
                           => os[processes[n]] = "alive"

\* The invariant, stated with sets, and name by name.
LEMMA ByName == BgTypeOK => (ProcessesTracked <=> AliveIsListed /\ ListedOnce /\ RunningIsAlive)
<1> SUFFICES ASSUME BgTypeOK
             PROVE  ProcessesTracked <=> AliveIsListed /\ ListedOnce /\ RunningIsAlive
  OBVIOUS
<1>1. \A p \in Procs : p # NoProc
  BY DEF Procs, NoProc
<1>2. \A p \in Procs : p \in RunningProcs <=>
        procStatus[p] = "running" /\ \E n \in ProcNames : processes[n] = p
  BY <1>1 DEF RunningProcs, Listed
<1>3. \A p \in RunningProcs : p \in Procs
  BY DEF BgTypeOK, RunningProcs, Listed
<1>4. \A n \in ProcNames : processes[n] # NoProc => processes[n] \in Procs
  BY DEF BgTypeOK
<1> QED
  BY <1>1, <1>2, <1>3, <1>4
     DEF ProcessesTracked, NoOrphans, RunningIsTrue, AliveIsListed, ListedOnce, RunningIsAlive

\* The invariant of the next state from its parts.
LEMMA ByNameNext ==
  ASSUME BgTypeOK', AliveIsListed', ListedOnce', RunningIsAlive',
         (\A n \in ProcNames : processes[n] <= spawned)',
         (piLife = "disposed" => \A p \in Procs : os[p] # "alive")'
  PROVE  BgInv'
<1>1. (BgTypeOK => (ProcessesTracked <=> AliveIsListed /\ ListedOnce /\ RunningIsAlive))'
  BY ByName, PTL
<1> QED
  BY <1>1 DEF BgInv

\* Every operation of the manager, the end of a process and the end of pi keep
\* the invariant.
LEMMA BgNextInv == BgInv /\ [BgNext]_bgVars => BgInv'
<1> SUFFICES ASSUME BgInv, [BgNext]_bgVars PROVE BgInv'
  OBVIOUS
<1> USE DEF BgTypeOK
<1>1. AliveIsListed /\ ListedOnce /\ RunningIsAlive /\ BgTypeOK
  BY ByName DEF BgInv
<1>2. /\ \A n \in ProcNames : processes[n] <= spawned
      /\ piLife = "disposed" => \A p \in Procs : os[p] # "alive"
  BY DEF BgInv
<1>3. \A n \in ProcNames : processes[n] \in RunningProcs <=>
        processes[n] # NoProc /\ procStatus[processes[n]] = "running"
  BY DEF RunningProcs, Listed
<1> DEFINE Inv2 == /\ BgTypeOK /\ AliveIsListed /\ ListedOnce /\ RunningIsAlive
                   /\ \A n \in ProcNames : processes[n] <= spawned
                   /\ piLife = "disposed" => \A p \in Procs : os[p] # "alive"
<1>4. SUFFICES Inv2'
  BY ByNameNext
<1>5. \A n \in ProcNames : processes[n] = NoProc \/ processes[n] \in Procs
  BY <1>1
<1>6. \A ps : \A sig \in {"termed", "killed"} :
         /\ Signalled(ps, sig) \in [Procs -> {"none", "alive", "termed", "killed", "dead"}]
         /\ \A p \in Procs : Signalled(ps, sig)[p] = "alive" <=> os[p] = "alive" /\ p \notin ps
  BY <1>1, SignalledType
<1>7. \A ps :
         /\ Stopped(ps) \in [Procs -> {"none", "running", "stopped", "crashed"}]
         /\ \A p \in Procs : Stopped(ps)[p] = "running" <=> procStatus[p] = "running" /\ p \notin ps
  BY <1>1, StoppedType
<1>8. NoProc \notin Procs
  BY DEF NoProc, Procs
<1>9. spawned \in 0..MaxProcs /\ NoProc <= spawned
  BY <1>1, BgAssumption DEF NoProc
\* a new process under a name, after some were signalled
<1>10. ASSUME NEW n \in ProcNames, NEW ps, piLife = "up", piLife' = piLife,
              ps \subseteq {processes[n]}, processes[n] \in RunningProcs => processes[n] \in ps,
              spawned < MaxProcs, spawned' = spawned + 1,
              processes' = [processes EXCEPT ![n] = spawned + 1],
              procStatus' = [Stopped(ps) EXCEPT ![spawned + 1] = "running"],
              os' = [Signalled(ps, "termed") EXCEPT ![spawned + 1] = "alive"]
       PROVE  Inv2'
  <2> DEFINE q == spawned + 1
  <2>1. /\ q \in Procs /\ q # NoProc /\ q \in 0..MaxProcs
        /\ \A m \in ProcNames : processes[m] # q /\ processes[m] <= q
    BY <1>10, NextProc
  <2>2. /\ processes' = [processes EXCEPT ![n] = q]
        /\ procStatus' = [Stopped(ps) EXCEPT ![q] = "running"]
        /\ os' = [Signalled(ps, "termed") EXCEPT ![q] = "alive"]
        /\ spawned' = q
    BY <1>10
  <2>3. q <= q
    BY <1>9
  <2> HIDE DEF q
  <2>4. BgTypeOK'
    BY <1>1, <1>6, <1>7, <1>10, <2>1, <2>2
  <2>5. (\A m \in ProcNames : processes[m] <= spawned)'
    BY <1>1, <2>1, <2>2, <2>3
  <2>6. ListedOnce'
    BY <1>1, <2>1, <2>2 DEF ListedOnce
  <2>7. \A p \in Procs : p # q => /\ os'[p] = "alive" <=> os[p] = "alive" /\ p \notin ps
                                  /\ procStatus'[p] = "running" <=> procStatus[p] = "running" /\ p \notin ps
    BY <1>1, <1>6, <1>7, <2>2
  <2>8. os'[q] = "alive" /\ procStatus'[q] = "running" /\ processes'[n] = q
    BY <1>1, <1>6, <1>7, <2>1, <2>2
  <2>9. AliveIsListed'
    <3> SUFFICES ASSUME NEW p \in Procs, os'[p] = "alive", p # q
                 PROVE  procStatus'[p] = "running" /\ \E m \in ProcNames : processes'[m] = p
      BY <1>10, <2>8 DEF AliveIsListed
    <3>1. os[p] = "alive" /\ p \notin ps
      BY <2>7
    <3>2. PICK m \in ProcNames : processes[m] = p
      BY <1>1, <3>1 DEF AliveIsListed
    <3>3. procStatus[p] = "running"
      BY <1>1, <3>1 DEF AliveIsListed
    <3>4. m # n
      BY <1>3, <1>8, <1>10, <3>1, <3>2, <3>3
    <3> QED
      BY <1>1, <2>2, <2>7, <3>1, <3>2, <3>3, <3>4
  <2>10. RunningIsAlive'
    <3> SUFFICES ASSUME NEW m \in ProcNames, processes'[m] # NoProc, m # n,
                        procStatus'[processes'[m]] = "running"
                 PROVE  os'[processes'[m]] = "alive"
      BY <2>8 DEF RunningIsAlive
    <3>1. processes'[m] = processes[m] /\ processes[m] # q /\ processes[m] \in Procs
      BY <1>1, <1>5, <2>1, <2>2
    <3> QED
      BY <1>1, <1>10, <2>7, <3>1 DEF RunningIsAlive
  <2> QED
    BY <1>10, <2>4, <2>5, <2>6, <2>9, <2>10
\* processes are stopped, and a name is freed when its process is
<1>11. ASSUME NEW ps, NEW freed \in SUBSET ProcNames, piLife = "up",
              piLife' \in {"up", "disposed"}, spawned' = spawned,
              piLife' = "disposed" => \A p \in Procs : os'[p] # "alive",
              processes' = [n \in ProcNames |-> IF n \in freed THEN NoProc ELSE processes[n]],
              \A n \in freed : processes[n] \in ps \/ processes[n] \notin RunningProcs,
              \E sig \in {"termed", "killed"} : os' = Signalled(ps, sig),
              \/ procStatus' = Stopped(ps)
              \/ procStatus' = procStatus /\ \A n \in ProcNames : processes[n] \in ps \cap Procs => n \in freed
       PROVE  Inv2'
  <2>1. BgTypeOK'
    BY <1>1, <1>6, <1>7, <1>11
  <2>2. (\A m \in ProcNames : processes[m] <= spawned)'
    BY <1>2, <1>9, <1>11
  <2>3. ListedOnce'
    BY <1>1, <1>11 DEF ListedOnce
  <2>4. \A p \in Procs : os'[p] = "alive" <=> os[p] = "alive" /\ p \notin ps
    BY <1>6, <1>11
  <2>5. \A p \in Procs : procStatus'[p] = "running" => procStatus[p] = "running"
    BY <1>7, <1>11
  <2>6. \A p \in Procs : procStatus[p] = "running" /\ p \notin ps => procStatus'[p] = "running"
    BY <1>7, <1>11
  <2>7. AliveIsListed'
    <3> SUFFICES ASSUME NEW p \in Procs, os'[p] = "alive"
                 PROVE  procStatus'[p] = "running" /\ \E m \in ProcNames : processes'[m] = p
      BY <1>11 DEF AliveIsListed
    <3>1. os[p] = "alive" /\ p \notin ps
      BY <2>4
    <3>2. PICK m \in ProcNames : processes[m] = p
      BY <1>1, <3>1 DEF AliveIsListed
    <3>3. procStatus[p] = "running"
      BY <1>1, <3>1 DEF AliveIsListed
    <3>4. m \notin freed
      BY <1>3, <1>8, <1>11, <3>1, <3>2, <3>3
    <3> QED
      BY <1>11, <2>6, <3>1, <3>2, <3>3, <3>4
  <2>8. RunningIsAlive'
    <3> SUFFICES ASSUME NEW m \in ProcNames, processes'[m] # NoProc,
                        procStatus'[processes'[m]] = "running"
                 PROVE  os'[processes'[m]] = "alive"
      BY DEF RunningIsAlive
    <3>1. processes'[m] = processes[m] /\ processes[m] \in Procs /\ m \notin freed
      BY <1>5, <1>11
    <3>2. procStatus[processes[m]] = "running" /\ processes[m] \notin ps
      BY <1>7, <1>11, <2>5, <3>1
    <3> QED
      BY <1>1, <1>11, <2>4, <3>1, <3>2 DEF RunningIsAlive
  <2> QED
    BY <1>11, <2>1, <2>2, <2>3, <2>7, <2>8
<1>12. ASSUME NEW n \in ProcNames, Run(n) PROVE Inv2'
  <2>1. CASE spawned' = spawned
    <3>1. processes' = [processes EXCEPT ![n] = NoProc]
      BY <1>9, <1>12, <2>1 DEF Run
    <3> DEFINE freed == {n}
    <3>2. Signalled({}, "termed") = os /\ Stopped({}) = procStatus
      BY <1>1 DEF Signalled, Stopped
    <3>3. processes' = [m \in ProcNames |-> IF m \in freed THEN NoProc ELSE processes[m]]
      BY <1>1, <3>1
    <3>4. \A m \in freed : processes[m] \notin RunningProcs
      BY <1>12 DEF Run, NameFree
    <3>5. /\ piLife = "up" /\ piLife' = "up" /\ os' = Signalled({}, "termed")
          /\ procStatus' = Stopped({}) /\ freed \in SUBSET ProcNames
      BY <1>9, <1>12, <2>1, <3>2 DEF Run
    <3> HIDE DEF freed
    <3> QED
      BY <1>11, <2>1, <3>3, <3>4, <3>5
  <2>2. CASE spawned' # spawned
    <3> DEFINE ps == {}
    <3>1. Signalled(ps, "termed") = os /\ Stopped(ps) = procStatus
      BY <1>1 DEF Signalled, Stopped
    <3>2. /\ piLife = "up" /\ piLife' = piLife
          /\ ps \subseteq {processes[n]} /\ (processes[n] \in RunningProcs => processes[n] \in ps)
          /\ spawned < MaxProcs /\ spawned' = spawned + 1
          /\ processes' = [processes EXCEPT ![n] = spawned + 1]
          /\ procStatus' = [Stopped(ps) EXCEPT ![spawned + 1] = "running"]
          /\ os' = [Signalled(ps, "termed") EXCEPT ![spawned + 1] = "alive"]
      BY <1>12, <2>2, <3>1 DEF Run, NameFree
    <3> HIDE DEF ps
    <3> QED
      BY <1>10, <3>2
  <2> QED
    BY <2>1, <2>2
<1>13. ASSUME NEW n \in ProcNames, StopProc(n) PROVE Inv2'
  <2>1. processes' = [m \in ProcNames |-> IF m \in {} THEN NoProc ELSE processes[m]]
    BY <1>1, <1>13 DEF StopProc
  <2>2. /\ piLife = "up" /\ piLife' = "up" /\ spawned' = spawned /\ {} \in SUBSET ProcNames
        /\ procStatus' = Stopped({processes[n]})
        /\ os' = Signalled({processes[n]}, "termed")
    BY <1>13 DEF StopProc, StopThem
  <2> QED
    BY <1>11, <2>1, <2>2
<1>14. ASSUME NEW n \in ProcNames, Restart(n) PROVE Inv2'
  <2>1. /\ RestartStops(n) \subseteq {processes[n]} /\ piLife = "up" /\ piLife' = piLife
        /\ processes[n] \in RunningProcs => processes[n] \in RestartStops(n)
    BY <1>14 DEF RestartStops, Restart
  <2>2. CASE spawned' = spawned
    <3>1. /\ processes' = [processes EXCEPT ![n] = NoProc]
          /\ StopThem(RestartStops(n))
      BY <1>9, <1>14, <2>2 DEF Restart
    <3>2. processes' = [m \in ProcNames |-> IF m \in {n} THEN NoProc ELSE processes[m]]
      BY <1>1, <3>1
    <3> QED
      BY <1>11, <2>1, <2>2, <3>1, <3>2, SMTT(20), ZenonT(20) DEF StopThem
  <2>3. CASE spawned' # spawned
    BY <1>10, <1>14, <2>1, <2>3 DEF Restart
  <2> QED
    BY <2>2, <2>3
<1>15. ASSUME NEW n \in ProcNames, RemoveProc(n) PROVE Inv2'
  <2> DEFINE ps == {processes[n]} \cap RunningProcs
  <2>1. /\ piLife = "up" /\ piLife' = "up" /\ spawned' = spawned /\ procStatus' = procStatus
        /\ os' = Signalled(ps, "killed") /\ processes' = [processes EXCEPT ![n] = NoProc]
    BY <1>15 DEF RemoveProc
  <2>2. processes' = [m \in ProcNames |-> IF m \in {n} THEN NoProc ELSE processes[m]]
    BY <1>1, <2>1
  <2>3. \A m \in ProcNames : processes[m] \in ps \cap Procs => m \in {n}
    BY <1>1, <1>8 DEF ListedOnce
  <2>4. \A m \in {n} : processes[m] \in ps \/ processes[m] \notin RunningProcs
    OBVIOUS
  <2>5. {n} \in SUBSET ProcNames
    OBVIOUS
  <2> HIDE DEF ps
  <2> QED
    BY <1>11, <2>1, <2>2, <2>3, <2>4, <2>5
<1>16. CASE CleanUp
  <2> DEFINE freed == {n \in ProcNames : processes[n] \notin RunningProcs}
  <2>1. /\ piLife = "up" /\ piLife' = "up" /\ spawned' = spawned
        /\ os' = os /\ procStatus' = procStatus
        /\ processes' = [n \in ProcNames |-> IF n \in freed THEN NoProc ELSE processes[n]]
    BY <1>16 DEF CleanUp
  <2>2. Signalled({}, "termed") = os /\ Stopped({}) = procStatus
    BY <1>1 DEF Signalled, Stopped
  <2>3. \A n \in freed : processes[n] \notin RunningProcs
    OBVIOUS
  <2>4. freed \in SUBSET ProcNames
    OBVIOUS
  <2> HIDE DEF freed
  <2> QED
    BY <1>11, <2>1, <2>2, <2>3, <2>4
<1>17. CASE StopAll
  <2>1. processes' = [m \in ProcNames |-> IF m \in {} THEN NoProc ELSE processes[m]]
    BY <1>1, <1>17 DEF StopAll
  <2>2. \A p \in Procs : os'[p] # "alive"
    <3> SUFFICES ASSUME NEW p \in Procs, os[p] = "alive" PROVE p \in RunningProcs
      BY <1>6, <1>17 DEF StopAll, StopThem
    <3>1. PICK m \in ProcNames : processes[m] = p /\ procStatus[p] = "running"
      BY <1>1 DEF AliveIsListed
    <3> QED
      BY <1>3, <1>8, <3>1
  <2>3. /\ piLife = "up" /\ piLife' \in {"up", "disposed"} /\ spawned' = spawned
        /\ procStatus' = Stopped(RunningProcs) /\ os' = Signalled(RunningProcs, "termed")
        /\ {} \in SUBSET ProcNames
    BY <1>17 DEF StopAll, StopThem
  <2> QED
    BY <1>11, <2>1, <2>2, <2>3
<1>18. ASSUME NEW p \in Procs, Exit(p) PROVE Inv2'
  <2>1. /\ os' = [os EXCEPT ![p] = "dead"]
        /\ UNCHANGED <<processes, spawned, piLife>>
        /\ \/ procStatus' = procStatus /\ (piLife = "exited" \/ procStatus[p] # "running")
           \/ \E s \in {"stopped", "crashed"} : procStatus' = [procStatus EXCEPT ![p] = s]
    BY <1>18 DEF Exit
  <2>2. BgTypeOK'
    BY <1>1, <2>1
  <2>3. AliveIsListed'
    BY <1>1, <2>1 DEF AliveIsListed
  <2>4. ListedOnce' /\ RunningIsAlive'
    BY <1>1, <1>5, <2>1 DEF ListedOnce, RunningIsAlive
  <2> QED
    BY <1>1, <1>2, <2>1, <2>2, <2>3, <2>4
<1>19. CASE PiExits
  <2>1. /\ piLife # "exited" /\ piLife' = "exited" /\ UNCHANGED <<processes, procStatus, spawned>>
        /\ os' = IF piLife = "up" THEN Signalled(RunningProcs, "killed") ELSE os
    BY <1>19 DEF PiExits
  <2>2. BgTypeOK'
    BY <1>1, <1>6, <2>1
  <2>3. \A p \in Procs : os'[p] # "alive"
    <3> SUFFICES ASSUME NEW p \in Procs, os'[p] = "alive" PROVE FALSE
      OBVIOUS
    <3>1. piLife = "up"
      BY <1>1, <1>2, <2>1
    <3>2. os[p] = "alive" /\ p \notin RunningProcs
      BY <1>6, <2>1, <3>1
    <3>3. PICK m \in ProcNames : processes[m] = p /\ procStatus[p] = "running"
      BY <1>1, <3>2 DEF AliveIsListed
    <3> QED
      BY <1>3, <1>8, <3>2, <3>3
  <2> QED
    BY <1>1, <1>2, <2>1, <2>2, <2>3 DEF AliveIsListed, ListedOnce, RunningIsAlive
<1>20. CASE UNCHANGED bgVars
  BY <1>1, <1>2, <1>20 DEF bgVars, AliveIsListed, ListedOnce, RunningIsAlive
<1> QED
  BY <1>12, <1>13, <1>14, <1>15, <1>16, <1>17, <1>18, <1>19, <1>20 DEF BgNext

\* A process that lives and was never told to end is listed as running, none is
\* listed twice, a listed one that is "running" lives, and pi leaves none behind
\* (run, stop, restart, remove, cleanup, stopAll and dispose of bg/manager.ts).
THEOREM ProcessesTrackedAlways == BgSpec => []ProcessesTracked
<1>1. BgInv => ProcessesTracked
  BY DEF BgInv
<1> QED
  BY <1>1, BgInitInv, BgNextInv, PTL DEF BgSpec

-----------------------------------------------------------------------------
(* The output of a background process *)

\* The remainder of a number that is below the capacity.
LEMMA ModSmall == \A x \in Nat : x < Capacity => x % Capacity = x
  BY RingAssumption

\* The remainder of a number that wrapped once.
LEMMA ModWrap == \A x \in Nat : Capacity <= x /\ x < 2 * Capacity => x % Capacity = x - Capacity
<1> SUFFICES ASSUME NEW x \in Nat, Capacity <= x, x < 2 * Capacity
             PROVE  x % Capacity = x - Capacity
  OBVIOUS
<1>1. /\ x % Capacity \in 0..(Capacity - 1) /\ x \div Capacity \in Int
      /\ x = Capacity * (x \div Capacity) + (x % Capacity)
  BY RingAssumption
<1>2. x \div Capacity = 1
  BY RingAssumption, <1>1
<1> QED
  BY RingAssumption, <1>1, <1>2

\* Initially the buffer is empty.
LEMMA RingInitInv == RingInit => RingInv
<1> SUFFICES ASSUME RingInit PROVE RingInv
  OBVIOUS
<1>1. RingTypeOK
  BY RingAssumption DEF RingInit, RingTypeOK
<1>2. Len(pushed) = 0 /\ count = 0
  BY DEF RingInit
<1> QED
  BY <1>1, <1>2, RingAssumption DEF RingInv, Least

\* push() and clear() keep the invariant.
LEMMA RingNextInv == RingInv /\ [RingNext]_ringVars => RingInv'
<1> SUFFICES ASSUME RingInv, [RingNext]_ringVars PROVE RingInv'
  OBVIOUS
<1>a. /\ buffer \in [0..(Capacity - 1) -> 0..MaxLines]
      /\ head \in 0..(Capacity - 1) /\ count \in 0..Capacity
      /\ pushed \in Seq(1..MaxLines)
      /\ Len(pushed) \in Nat
      /\ Capacity \in Nat /\ Capacity > 0 /\ MaxLines \in Nat
  BY RingAssumption DEF RingInv, RingTypeOK
<1>b. /\ count = Least(Len(pushed), Capacity)
      /\ \A j \in 1..count : buffer[Behind(j)] = pushed[Len(pushed) + 1 - j]
  BY DEF RingInv
<1>1. CASE Push
  <2> DEFINE line == Len(pushed) + 1
  <2>1. /\ line \in 1..MaxLines
        /\ buffer' = [buffer EXCEPT ![head] = line]
        /\ pushed' = Append(pushed, line)
        /\ head' = NextCell(head)
        /\ count' = IF count < Capacity THEN count + 1 ELSE count
    BY <1>1, <1>a DEF Push
  <2>2. /\ pushed' \in Seq(1..MaxLines) /\ Len(pushed') = line
        /\ pushed'[line] = line
        /\ \A i \in 1..Len(pushed) : pushed'[i] = pushed[i]
    BY <2>1, <1>a
  <2>3. head' = IF head + 1 = Capacity THEN 0 ELSE head + 1
    <3>1. head + 1 \in Nat /\ head + 1 <= Capacity
      BY <1>a
    <3> QED
      BY <1>a, <2>1, <3>1, ModSmall, ModWrap DEF NextCell
  <2>4. RingTypeOK'
    BY <1>a, <2>1, <2>2, <2>3 DEF RingTypeOK
  <2>5. count' = Least(Len(pushed'), Capacity)
    BY <1>a, <1>b, <2>1, <2>2 DEF Least
  <2>6. ASSUME NEW j \in 1..count'
        PROVE  buffer'[Behind(j)'] = pushed'[line + 1 - j]
    <3>1. CASE j = 1
      <4>1. Behind(j)' = head
        BY <1>a, <2>3, <3>1 DEF Behind
      <4> QED
        BY <1>a, <2>1, <2>2, <3>1, <4>1
    <3>2. CASE j # 1
      <4>1. j - 1 \in 1..count /\ j - 1 < Capacity
        BY <1>a, <2>1, <3>2
      <4>2. Behind(j)' = Behind(j - 1) /\ Behind(j - 1) # head /\ Behind(j - 1) \in 0..(Capacity - 1)
        BY <1>a, <2>3, <4>1 DEF Behind
      <4>3. buffer'[Behind(j)'] = pushed[Len(pushed) + 1 - (j - 1)]
        BY <1>a, <1>b, <2>1, <4>1, <4>2
      <4>4. Len(pushed) + 1 - (j - 1) = line + 1 - j /\ line + 1 - j \in 1..Len(pushed)
        BY <1>a, <1>b, <4>1 DEF Least
      <4> QED
        BY <2>2, <4>3, <4>4
    <3> QED
      BY <3>1, <3>2
  <2> QED
    BY <2>2, <2>4, <2>5, <2>6 DEF RingInv
<1>2. CASE ClearRing
  <2>1. /\ head' = 0 /\ count' = 0 /\ pushed' = <<>> /\ buffer' = buffer
    BY <1>2 DEF ClearRing
  <2>2. RingTypeOK'
    BY <1>a, <2>1 DEF RingTypeOK
  <2>3. Len(pushed') = 0
    BY <2>1
  <2> QED
    BY <1>a, <2>1, <2>2, <2>3 DEF RingInv, Least
<1>3. CASE UNCHANGED ringVars
  BY <1>3 DEF ringVars, RingInv, RingTypeOK, Behind
<1> QED
  BY <1>1, <1>2, <1>3 DEF RingNext

\* What the cells hold is what getLines(n) returns, whether it wraps or not.
LEMMA LastLines == RingInv => KeepsTheLastLines
<1> SUFFICES ASSUME RingInv, NEW n \in 0..(Capacity + 1)
             PROVE  LET m == Least(n, Least(Len(pushed), Capacity))
                    IN GetLines(n) = SubSeq(pushed, Len(pushed) - m + 1, Len(pushed))
  BY DEF KeepsTheLastLines
<1> DEFINE total == Least(n, count)
           start == (head - count + Capacity) % Capacity
           last == SubSeq(pushed, Len(pushed) - total + 1, Len(pushed))
<1>a. /\ head \in 0..(Capacity - 1) /\ count \in 0..Capacity
      /\ pushed \in Seq(1..MaxLines)
      /\ Len(pushed) \in Nat
      /\ Capacity \in Nat /\ Capacity > 0 /\ n \in Nat
      /\ count = Least(Len(pushed), Capacity)
      /\ \A j \in 1..count : buffer[Behind(j)] = pushed[Len(pushed) + 1 - j]
  BY RingAssumption DEF RingInv, RingTypeOK
<1>1. total \in Nat /\ total <= count /\ total <= Len(pushed)
  BY <1>a DEF Least
<1>2. start = IF count <= head THEN head - count ELSE head - count + Capacity
  <2> DEFINE x == head - count + Capacity
  <2>1. x \in Nat /\ x < 2 * Capacity
    BY <1>a
  <2>2. x < Capacity <=> ~(count <= head)
    BY <1>a
  <2>3. start = IF x < Capacity THEN x ELSE x - Capacity
    <3> HIDE DEF x
    <3>1. x % Capacity = IF x < Capacity THEN x ELSE x - Capacity
      BY <1>a, <2>1, ModSmall, ModWrap
    <3> QED
      BY <3>1 DEF x
  <2> QED
    BY <1>a, <2>2, <2>3
<1>3. last = [i \in 1..total |-> pushed[Len(pushed) - total + i]]
  <2> DEFINE low == Len(pushed) - total + 1
  <2>1. low \in Int /\ low >= 1 /\ Len(pushed) - low + 1 = total /\ low + 0 = Len(pushed) - total + 1
    BY <1>a, <1>1
  <2>2. \A i \in low..Len(pushed) : pushed[i] \in 1..MaxLines
    <3>1. \A i \in 1..Len(pushed) : pushed[i] \in 1..MaxLines
      BY <1>a, ElementOfSeq
    <3> HIDE DEF low, total
    <3> QED
      BY <1>a, <2>1, <3>1
  <2>3. /\ last \in Seq(1..MaxLines)
        /\ Len(last) = IF low <= Len(pushed) THEN Len(pushed) - low + 1 ELSE 0
        /\ \A i \in 1..(Len(pushed) - low + 1) : last[i] = pushed[low + i - 1]
    <3> HIDE DEF low
    <3>1. last = SubSeq(pushed, low, Len(pushed))
      BY DEF low
    <3> HIDE DEF last, total
    <3> QED
      BY <1>a, <2>1, <2>2, <3>1, SubSeqProperties
  <2> HIDE DEF last, total
  <2>4. Len(last) = total /\ \A i \in 1..total : last[i] = pushed[Len(pushed) - total + i]
    BY <1>a, <1>1, <2>1, <2>3
  <2>5. last = [i \in 1..Len(last) |-> last[i]]
    BY <2>3
  <2> QED
    BY <2>4, <2>5
<1>4. GetLines(n) = [i \in 1..total |-> buffer[(start + (count - total) + i - 1) % Capacity]]
  BY DEF GetLines
<1> HIDE DEF start, total, last
<1>5. ASSUME NEW i \in 1..total
      PROVE  buffer[(start + (count - total) + i - 1) % Capacity] = pushed[Len(pushed) - total + i]
  <2> DEFINE x == start + (count - total) + i - 1
             j == total - i + 1
  <2>1. x \in Nat /\ x < 2 * Capacity /\ j \in 1..count
    <3>1. i \in Nat /\ 1 <= i /\ i <= total
      BY <1>1
    <3>2. start \in Nat /\ start < Capacity
      BY <1>a, <1>2
    <3> QED
      BY <1>a, <1>1, <3>1, <3>2
  <2>2. Behind(j) = IF x < Capacity THEN x ELSE x - Capacity
    <3>1. i \in Nat /\ 1 <= i /\ i <= total
      BY <1>1
    <3>2. CASE count <= head
      <4>1. start = head - count
        BY <1>2, <3>2
      <4> QED
        BY <1>a, <1>1, <3>1, <3>2, <4>1 DEF Behind
    <3>3. CASE ~(count <= head)
      <4>1. start = head - count + Capacity
        BY <1>2, <3>3
      <4>2. x = head - j + Capacity /\ j \in Int
        BY <1>a, <1>1, <3>1, <4>1
      <4> HIDE DEF x, j
      <4> QED
        BY <1>a, <4>2 DEF Behind
    <3> QED
      BY <3>2, <3>3
  <2>3. x % Capacity = Behind(j)
    <3> HIDE DEF x, j
    <3> QED
      BY <1>a, <2>1, <2>2, ModSmall, ModWrap
  <2>4. Len(pushed) + 1 - j = Len(pushed) - total + i
    BY <1>a, <1>1
  <2> QED
    BY <1>a, <2>1, <2>3, <2>4
<1>6. GetLines(n) = last
  BY <1>3, <1>4, <1>5
<1> QED
  BY <1>6, <1>a DEF last, total

\* getLines(n) returns the last n lines that were pushed, at most as many as the
\* capacity, in their order (ring-buffer.ts), for every capacity.
THEOREM KeepsTheLastLinesAlways == RingSpec => []KeepsTheLastLines
<1> QED
  BY LastLines, RingInitInv, RingNextInv, PTL DEF RingSpec

-----------------------------------------------------------------------------
(* Credentials and the lock of their file *)

\* Initially nobody holds the lock and a process has the token of the file or none.
LEMMA AuthInitInv == AuthInit => AuthInv
<1> SUFFICES ASSUME AuthInit PROVE AuthInv
  OBVIOUS
<1> USE AuthAssumption DEF AuthInit, AuthTokens
<1>1. AuthTypeOK
  <2>1. authFile \in {NoToken} \cup AuthTokens /\ expired \subseteq AuthTokens /\ minted \in AuthTokens
    OBVIOUS
  <2>2. authData \in [PiProcs -> {NoToken} \cup AuthTokens] /\ refreshing \in [PiProcs -> {NoToken} \cup AuthTokens]
    OBVIOUS
  <2>3. refreshedTokens \in [AuthTokens -> Nat]
    OBVIOUS
  <2>4. clobbered \in BOOLEAN /\ stolen \in BOOLEAN
    OBVIOUS
  <2> QED
    BY <2>1, <2>2, <2>3, <2>4 DEF AuthTypeOK
<1>2. LockInv
  BY DEF LockInv, Nobody, NoToken, Up
<1> QED
  BY <1>1, <1>2 DEF AuthInv

\* A new token is one more than the last, and newer than the one in the file.
LEMMA NextToken ==
  ASSUME AuthInv, minted < MaxTokens
  PROVE  /\ minted + 1 \in AuthTokens
         /\ authFile < minted + 1
         /\ minted + 1 # NoToken
         /\ minted <= minted + 1
BY AuthAssumption DEF AuthInv, AuthTypeOK, LockInv, AuthTokens, NoToken

\* A free lock is held by nobody who is up, unless it was stolen.
LEMMA FreeLock ==
  ASSUME NEW steal \in BOOLEAN, LockFree(steal)
  PROVE  /\ stolen \in BOOLEAN => stolen' \in BOOLEAN
         /\ ~stolen' => ~stolen /\ lockHolder \notin Up
<1>1. \/ lockHolder \notin Up /\ stolen' = stolen
      \/ stolen' = TRUE
  BY DEF LockFree
<1>2. CASE lockHolder \notin Up /\ stolen' = stolen
  BY <1>2
<1>3. CASE stolen' = TRUE
  BY <1>3
<1> QED
  BY <1>1, <1>2, <1>3

\* Reading the file under lockSync() leaves the lock as it was or free.
LEMMA ReloadsStep ==
  ASSUME AuthInv, NEW p \in PiProcs, NEW known \in {NoToken} \cup AuthTokens, Reloads(p, known)
  PROVE  /\ authData' \in [PiProcs -> {NoToken} \cup AuthTokens]
         /\ loadError' \subseteq PiProcs
         /\ lockHolder' \in PiProcs \cup {Nobody}
         /\ stolen' \in BOOLEAN
         /\ ~stolen' => ~stolen /\ (lockHolder' = lockHolder \/ lockHolder \notin Up)
<1>1. CASE \E steal \in BOOLEAN : 
            /\ LockFree(steal)
            /\ lockHolder' = Nobody
            /\ authData' = [authData EXCEPT ![p] = authFile]
            /\ loadError' = loadError \ {p}
  BY <1>1, FreeLock DEF AuthInv, AuthTypeOK
<1>2. CASE /\ lockHolder \in Up
           /\ authData' = [authData EXCEPT ![p] = known]
           /\ loadError' = loadError \cup {p}
           /\ UNCHANGED <<lockHolder, stolen>>
  BY <1>2 DEF AuthInv, AuthTypeOK
<1> QED
  BY <1>1, <1>2 DEF Reloads

\* set() and remove() under lockSync(): a token that is new, or none.
LEMMA PersistsStep ==
  ASSUME AuthInv, NEW p \in PiProcs, NEW token \in {NoToken} \cup AuthTokens, Persists(p, token),
         minted' \in AuthTokens, minted <= minted', token <= minted',
         \A t \in AuthTokens : t <= minted => t # token
  PROVE  AuthInv'
<1>1. /\ authData' = [authData EXCEPT ![p] = token]
      /\ UNCHANGED <<expired, loadError, refreshing, waitingLock, compromised, gone,
                     refreshedTokens, clobbered>>
  BY DEF Persists
<1>3. minted \in Int /\ authFile \in Int /\ minted' \in Int
  BY AuthAssumption DEF AuthInv, AuthTypeOK, AuthTokens, NoToken
<1>4. CASE /\ lockHolder' = Nobody /\ authFile' = token
           /\ stolen' \in BOOLEAN
           /\ ~stolen' => ~stolen /\ lockHolder \notin Up
  <2>1. AuthTypeOK'
    BY <1>1, <1>4 DEF AuthInv, AuthTypeOK
  <2>2. ~stolen' => \A q \in PiProcs : refreshing[q] = NoToken
    BY <1>4 DEF AuthInv, LockInv
  <2>3. ~stolen' => (\A t \in AuthTokens :
          refreshedTokens[t] <= 1 /\ (refreshedTokens[t] = 1 => t <= minted /\ t # authFile))'
    BY <1>1, <1>3, <1>4, AuthAssumption DEF AuthInv, LockInv, AuthTokens
  <2> QED
    BY <1>1, <1>4, <2>1, <2>2, <2>3 DEF AuthInv, LockInv, Up
<1>5. CASE UNCHANGED <<authFile, lockHolder, stolen>>
  <2>1. AuthTypeOK'
    BY <1>1, <1>5 DEF AuthInv, AuthTypeOK
  <2>2. authFile' <= minted'
    BY <1>3, <1>5 DEF AuthInv, LockInv
  <2>3. (\A t \in AuthTokens : t <= minted => t <= minted')
    BY <1>3, AuthAssumption DEF AuthTokens
  <2> QED
    BY <1>1, <1>5, <2>1, <2>2, <2>3 DEF AuthInv, LockInv, Up
<1> QED
  BY <1>4, <1>5, FreeLock DEF Persists, AuthInv, AuthTypeOK

LEMMA LoginStep ==
  ASSUME AuthInv, NEW p \in PiProcs, Login(p) \/ Logout(p)
  PROVE  AuthInv'
<1>1. minted \in AuthTokens /\ minted \in Int /\ \A t \in AuthTokens : t # NoToken
  BY AuthAssumption DEF AuthInv, AuthTypeOK, AuthTokens, NoToken
<1>2. CASE Login(p)
  <2>1. /\ minted + 1 \in AuthTokens /\ minted' = minted + 1 /\ Persists(p, minted + 1)
    BY <1>2, NextToken DEF Login
  <2>2. \A t \in AuthTokens : t <= minted => t # minted + 1
    BY <1>1, AuthAssumption DEF AuthTokens
  <2> QED
    BY <1>1, <2>1, <2>2, PersistsStep
<1>3. CASE Logout(p)
  <2>1. minted' = minted /\ Persists(p, NoToken) /\ NoToken <= minted
    BY <1>1, <1>3, AuthAssumption DEF Logout, NoToken, AuthTokens
  <2> QED
    BY <1>1, <2>1, PersistsStep
<1> QED
  BY <1>2, <1>3

\* refreshOAuthTokenWithLock() has the lock and reads the file again.
LEMMA LockTakenStep ==
  ASSUME AuthInv, NEW p \in PiProcs, LockTaken(p)
  PROVE  AuthInv'
<1>1. PICK steal \in BOOLEAN : LockFree(steal)
  BY DEF LockTaken
<1>2. stolen' \in BOOLEAN /\ (~stolen' => ~stolen /\ lockHolder \notin Up)
  BY <1>1, FreeLock DEF AuthInv, AuthTypeOK
<1>3. /\ p \in Up
      /\ waitingLock' = waitingLock \ {p}
      /\ authData' = [authData EXCEPT ![p] = authFile]
      /\ loadError' = loadError \ {p}
      /\ compromised' = compromised \ {p}
      /\ UNCHANGED <<authFile, expired, minted, gone, refreshedTokens, clobbered>>
  BY DEF LockTaken, TokenUnderLock
<1>4. ~stolen' => \A q \in PiProcs : refreshing[q] = NoToken
  BY <1>2 DEF AuthInv, LockInv
<1>5. \/ lockHolder' = p /\ refreshing' = [refreshing EXCEPT ![p] = authFile]
      \/ lockHolder' = Nobody /\ refreshing' = refreshing
  BY DEF LockTaken, TokenUnderLock
<1>6. AuthTypeOK'
  BY <1>2, <1>3, <1>5 DEF AuthInv, AuthTypeOK
<1>7. (\A q \in PiProcs : refreshing[q] # NoToken => q \in Up)'
  BY <1>3, <1>5 DEF AuthInv, AuthTypeOK, LockInv, Up
<1>8. ~stolen' => (\A q \in PiProcs : 
                     refreshing[q] # NoToken => lockHolder = q /\ refreshing[q] = authFile)'
  BY <1>3, <1>4, <1>5 DEF AuthInv, AuthTypeOK
<1> QED
  BY <1>2, <1>3, <1>6, <1>7, <1>8 DEF AuthInv, LockInv

\* The provider has answered and the new token is written.
LEMMA RefreshedStep ==
  ASSUME AuthInv, NEW p \in PiProcs, Refreshed(p)
  PROVE  AuthInv'
<1> DEFINE t0 == refreshing[p]
<1>1. /\ p \in Up /\ t0 # NoToken
      /\ minted < MaxTokens /\ minted' = minted + 1
      /\ refreshedTokens' = [refreshedTokens EXCEPT ![t0] = @ + 1]
      /\ refreshing' = [refreshing EXCEPT ![p] = NoToken]
      /\ compromised' = compromised \ {p}
      /\ UNCHANGED <<expired, waitingLock, gone>>
  BY DEF Refreshed
<1>2. /\ minted + 1 \in AuthTokens /\ authFile < minted + 1
      /\ minted + 1 # NoToken /\ minted <= minted + 1
  BY <1>1, NextToken
<1>3. minted \in Int /\ authFile \in Int /\ t0 \in AuthTokens
  <2>1. t0 \in AuthTokens
    BY <1>1 DEF AuthInv, AuthTypeOK
  <2>2. minted \in Int /\ authFile \in Int
    BY AuthAssumption DEF AuthInv, AuthTypeOK, AuthTokens, NoToken
  <2> QED
    BY <2>1, <2>2
<1>4. refreshedTokens' \in [AuthTokens -> Nat]
  <2>1. refreshedTokens \in [AuthTokens -> Nat]
    BY DEF AuthInv, AuthTypeOK
  <2>2. refreshedTokens[t0] + 1 \in Nat
    BY <1>3, <2>1
  <2> QED
    BY <1>1, <2>1, <2>2
<1>5. (\A q \in PiProcs : refreshing[q] # NoToken => q \in Up)'
  BY <1>1 DEF AuthInv, AuthTypeOK, LockInv, Up
<1>6. refreshing' \in [PiProcs -> {NoToken} \cup AuthTokens]
  BY <1>1 DEF AuthInv, AuthTypeOK
<1>7. CASE p \notin compromised
  <2>1. /\ authFile' = minted + 1
        /\ authData' = [authData EXCEPT ![p] = minted + 1]
        /\ lockHolder' = Nobody
        /\ UNCHANGED <<loadError, stolen>>
    BY <1>7 DEF Refreshed
  <2>2. clobbered' = (clobbered \/ authFile # t0)
    BY <1>7 DEF Refreshed
  <2>3. AuthTypeOK'
    <3>1. clobbered' \in BOOLEAN
      BY <2>2
    <3> QED
      BY <1>1, <1>2, <1>4, <1>6, <2>1, <3>1 DEF AuthInv, AuthTypeOK
  <2>4. CASE stolen
    BY <1>1, <1>5, <2>1, <2>3, <2>4, <1>3 DEF AuthInv, LockInv
  <2>5. CASE ~stolen
    <3>1. lockHolder = p /\ t0 = authFile /\ compromised = {} /\ ~clobbered
      BY <1>1, <2>5 DEF AuthInv, LockInv
    <3>2. ~clobbered'
      BY <2>2, <3>1
    <3>3. \A q \in PiProcs : refreshing'[q] = NoToken
      BY <1>1, <2>5, <3>1 DEF AuthInv, AuthTypeOK, LockInv
    <3>4. ASSUME NEW t \in AuthTokens
          PROVE  refreshedTokens'[t] <= 1 /\ (refreshedTokens'[t] = 1 => t <= minted' /\ t # authFile')
      <4>1. refreshedTokens[t] \in Nat /\ t \in Int /\ refreshedTokens[t] <= 1
            /\ (refreshedTokens[t] = 1 => t <= minted /\ t # authFile)
        BY <2>5 DEF AuthInv, AuthTypeOK, LockInv, AuthTokens
      <4>2. CASE t = t0
        BY <1>1, <1>2, <1>3, <2>1, <3>1, <4>1, <4>2 DEF AuthInv, AuthTypeOK
      <4>3. CASE t # t0
        BY <1>1, <1>2, <1>3, <2>1, <4>1, <4>3 DEF AuthInv, AuthTypeOK
      <4> QED
        BY <4>2, <4>3
    <3>5. authFile' <= minted'
      BY <1>1, <1>3, <2>1
    <3> QED
      BY <1>1, <1>5, <2>3, <3>1, <3>2, <3>3, <3>4, <3>5 DEF AuthInv, LockInv
  <2> QED
    BY <2>4, <2>5
<1>8. CASE p \in compromised
  <2>1. Reloads(p, minted + 1) /\ UNCHANGED <<authFile, clobbered>>
    BY <1>8 DEF Refreshed
  <2>2. /\ authData' \in [PiProcs -> {NoToken} \cup AuthTokens]
        /\ loadError' \subseteq PiProcs
        /\ lockHolder' \in PiProcs \cup {Nobody}
        /\ stolen' \in BOOLEAN
        /\ ~stolen' => ~stolen
    BY <1>2, <2>1, ReloadsStep
  <2>3. stolen'
    BY <1>8, <2>2 DEF AuthInv, LockInv
  <2>4. authFile' <= minted'
    BY <1>1, <1>3, <2>1 DEF AuthInv, LockInv
  <2>5. AuthTypeOK'
    BY <1>1, <1>2, <1>4, <1>6, <2>1, <2>2 DEF AuthInv, AuthTypeOK
  <2> QED
    BY <1>5, <2>3, <2>4, <2>5 DEF AuthInv, LockInv
<1> QED
  BY <1>7, <1>8

\* The provider has refused, or the lock was compromised.
LEMMA RefreshFailsStep ==
  ASSUME AuthInv, NEW p \in PiProcs, RefreshFails(p)
  PROVE  AuthInv'
BY DEF RefreshFails, Released, AuthInv, AuthTypeOK, LockInv, NoToken, Nobody, Up

\* Every step of every process keeps the invariant.
LEMMA AuthNextInv == AuthInv /\ [AuthNext]_authVars => AuthInv'
<1> SUFFICES ASSUME AuthInv, [AuthNext]_authVars PROVE AuthInv'
  OBVIOUS
<1>1. ASSUME NEW p \in PiProcs, Reload(p) PROVE AuthInv'
  <2>1. Reloads(p, authData[p])
        /\ UNCHANGED <<authFile, expired, minted, refreshing, waitingLock, compromised, gone,
                       refreshedTokens, clobbered>>
    BY <1>1 DEF Reload
  <2>2. authData[p] \in {NoToken} \cup AuthTokens
    BY DEF AuthInv, AuthTypeOK
  <2> QED
    BY <2>1, <2>2, ReloadsStep DEF AuthInv, AuthTypeOK, LockInv, Up
<1>2. ASSUME NEW p \in PiProcs, GetApiKey(p) PROVE AuthInv'
  BY <1>2 DEF GetApiKey, AuthInv, AuthTypeOK, LockInv, Up
<1>3. ASSUME NEW p \in PiProcs, LockTimesOut(p) PROVE AuthInv'
  <2>1. /\ Reloads(p, authData[p])
        /\ waitingLock' = waitingLock \ {p}
        /\ UNCHANGED <<authFile, expired, minted, refreshing, compromised, gone,
                       refreshedTokens, clobbered>>
    BY <1>3 DEF LockTimesOut
  <2>2. authData[p] \in {NoToken} \cup AuthTokens
    BY DEF AuthInv, AuthTypeOK
  <2> QED
    BY <2>1, <2>2, ReloadsStep DEF AuthInv, AuthTypeOK, LockInv, Up
<1>4. ASSUME NEW p \in PiProcs, NoticeLoss(p) PROVE AuthInv'
  BY <1>4 DEF NoticeLoss, AuthInv, AuthTypeOK, LockInv, Up
<1>5. ASSUME NEW p \in PiProcs, CrashPi(p) PROVE AuthInv'
  BY <1>5 DEF CrashPi, AuthInv, AuthTypeOK, LockInv, Up
<1>6. CASE Expire
  <2>1. expired' \subseteq AuthTokens
    BY <1>6, AuthAssumption DEF Expire, AuthInv, AuthTypeOK, AuthTokens
  <2> QED
    BY <1>6, <2>1 DEF Expire, AuthInv, AuthTypeOK, LockInv, Up
<1>7. CASE UNCHANGED authVars
  BY <1>7 DEF authVars, AuthInv, AuthTypeOK, LockInv, Up
<1> QED
  BY <1>1, <1>2, <1>3, <1>4, <1>5, <1>6, <1>7, LoginStep, LockTakenStep, RefreshedStep,
     RefreshFailsStep DEF AuthNext

\* As long as no lock is taken from a process that lives, at most one process
\* asks for a refresh, a token is refreshed once, and no refresh replaces a
\* login that came in between (refreshOAuthTokenWithLock of auth-storage.ts),
\* for every set of processes.
THEOREM LockProtectsAlways == AuthSpec => []LockProtects
<1>1. AuthInv => LockProtects
  <2> SUFFICES ASSUME AuthInv, ~stolen PROVE
         /\ Cardinality({p \in PiProcs : refreshing[p] # NoToken}) <= 1
         /\ gone = {} => \A t \in AuthTokens : refreshedTokens[t] <= 1
         /\ ~clobbered
    BY DEF LockProtects
  <2> DEFINE asking == {p \in PiProcs : refreshing[p] # NoToken}
  <2>1. asking \subseteq {lockHolder}
    BY DEF AuthInv, LockInv
  <2>2. Cardinality(asking) <= Cardinality({lockHolder})
    BY <2>1, FS_Singleton, FS_Subset
  <2>3. Cardinality({lockHolder}) = 1
    BY FS_Singleton
  <2>4. Cardinality(asking) \in Nat
    BY <2>1, FS_Singleton, FS_Subset, FS_CardinalityType
  <2> QED
    BY <2>2, <2>3, <2>4 DEF AuthInv, LockInv
<1> QED
  BY <1>1, AuthInitInv, AuthNextInv, PTL DEF AuthSpec

-----------------------------------------------------------------------------
(* Language servers *)

\* A job is what the type invariant says it is.
LEMMA JobType ==
  ASSUME NEW kind \in {"none", "stop", "start"}, NEW m \in {None} \cup Managers,
         NEW left \in SUBSET Languages, NEW by \in {"none", "bind", "newSession", "reload", "command"}
  PROVE  Job(kind, m, left, by) \in
           [kind : {"none", "stop", "start"}, manager : {None} \cup Managers,
            left : SUBSET Languages, by : {"none", "bind", "newSession", "reload", "command"}]
  BY DEF Job

\* Initially there is one manager without clients.
LEMMA LspInitType == LspInit => LspTypeOK /\ SharedServer
<1> SUFFICES ASSUME LspInit PROVE LspTypeOK /\ SharedServer
  OBVIOUS
<1>1. SetupManager \in Managers
  BY LspAssumption DEF SetupManager, Managers
<1>2. singleton \in {None} \cup Managers /\ managersMade \in Managers /\ commandManager \in Managers
  BY <1>1 DEF LspInit, SetupManager
<1>3. lspClients \in [Managers -> [Languages -> {None} \cup Servers]]
  BY DEF LspInit
<1>4. servers \in [Servers -> {"none", "starting", "ready", "stopping", "dead"}]
  BY DEF LspInit
<1>5. serversMade \in 0..MaxServers
  BY LspAssumption DEF LspInit
<1>6. found \in [Languages -> {None} \cup Servers]
  BY DEF LspInit
<1>7. job \in [kind : {"none", "stop", "start"}, manager : {None} \cup Managers,
               left : SUBSET Languages, by : {"none", "bind", "newSession", "reload", "command"}]
  BY <1>1, JobType DEF LspInit
<1>8. SharedServer
  BY DEF LspInit, SharedServer
<1> QED
  BY <1>2, <1>3, <1>4, <1>5, <1>6, <1>7, <1>8 DEF LspTypeOK

\* Every step keeps the type invariant.
LEMMA LspNextType == LspTypeOK /\ [LspNext]_lspVars => LspTypeOK'
<1> SUFFICES ASSUME LspTypeOK, [LspNext]_lspVars PROVE LspTypeOK'
  OBVIOUS
<1> DEFINE Jobs == [kind : {"none", "stop", "start"}, manager : {None} \cup Managers,
                    left : SUBSET Languages, by : {"none", "bind", "newSession", "reload", "command"}]
           ServerStatuses == {"none", "starting", "ready", "stopping", "dead"}
<1>a. /\ singleton \in {None} \cup Managers
      /\ managersMade \in Managers
      /\ commandManager \in Managers
      /\ lspClients \in [Managers -> [Languages -> {None} \cup Servers]]
      /\ servers \in [Servers -> ServerStatuses]
      /\ serversMade \in 0..MaxServers
      /\ job \in Jobs
      /\ found \in [Languages -> {None} \cup Servers]
  BY DEF LspTypeOK
<1>b. \A m \in {None} \cup Managers : \A by \in {"newSession", "reload", "command"} :
        Job("stop", m, {}, by) \in Jobs
  BY JobType
<1>c. \A m : Stopping(m) => servers' \in [Servers -> ServerStatuses]
  BY <1>a DEF Stopping
<1>1. CASE SessionShutdown
  <2>1. job' \in Jobs
    BY <1>1, <1>a, <1>b DEF SessionShutdown
  <2>2. servers' \in [Servers -> ServerStatuses]
    BY <1>1, <1>a, <1>c DEF SessionShutdown
  <2> QED
    BY <1>1, <1>a, <2>1, <2>2 DEF SessionShutdown, LspTypeOK
<1>2. CASE LspSetup
  <2>1. job' \in Jobs
    BY <1>2, <1>a, <1>b DEF LspSetup
  <2>2. servers' \in [Servers -> ServerStatuses]
    BY <1>2, <1>a, <1>c DEF LspSetup
  <2> QED
    BY <1>2, <1>a, <2>1, <2>2 DEF LspSetup, LspTypeOK
<1>3. CASE AllStopped
  <2>1. /\ managersMade' \in Managers /\ singleton' \in {None} \cup Managers
        /\ commandManager' \in Managers
    <3>1. CASE job.by = "reload" /\ singleton = None
      <4>1. managersMade < MaxManagers /\ managersMade' = managersMade + 1
            /\ singleton' = managersMade + 1 /\ commandManager' = managersMade + 1
        BY <1>3, <3>1 DEF AllStopped
      <4>2. managersMade + 1 \in Managers
        BY <1>a, <4>1, LspAssumption DEF Managers
      <4> QED
        BY <4>1, <4>2
    <3>2. CASE ~(job.by = "reload" /\ singleton = None)
      BY <1>3, <1>a, <3>2 DEF AllStopped
    <3> QED
      BY <3>1, <3>2
  <2>2. lspClients' \in [Managers -> [Languages -> {None} \cup Servers]]
    BY <1>3, <1>a DEF AllStopped
  <2>3. job' \in Jobs
    <3>1. SetupManager \in Managers
      BY LspAssumption DEF SetupManager, Managers
    <3>2. job.by \in {"none", "bind", "newSession", "reload", "command"}
      BY <1>a
    <3> DEFINE m == IF job.by = "command" THEN commandManager ELSE SetupManager
    <3>3. m \in {None} \cup Managers /\ job' = Job("start", m, Languages, job.by)
      BY <1>3, <1>a, <3>1 DEF AllStopped
    <3> HIDE DEF m
    <3> QED
      BY <3>2, <3>3, JobType
  <2> QED
    BY <1>3, <1>a, <2>1, <2>2, <2>3 DEF AllStopped, LspTypeOK
<1>4. CASE AllStarted
  <2>1. NoJob \in Jobs
    BY DEF NoJob
  <2> QED
    BY <1>4, <1>a, <2>1 DEF AllStarted, LspTypeOK
<1>5. ASSUME NEW s \in Servers, ServerStops(s) PROVE LspTypeOK'
  BY <1>5, <1>a DEF ServerStops, LspTypeOK
<1>6. ASSUME NEW s \in Servers, ServerReady(s) PROVE LspTypeOK'
  BY <1>6, <1>a DEF ServerReady, LspTypeOK
<1>7. ASSUME NEW s \in Servers, ServerDies(s) PROVE LspTypeOK'
  <2>1. NoJob \in Jobs
    BY DEF NoJob
  <2> QED
    BY <1>7, <1>a, <2>1 DEF ServerDies, LspTypeOK
<1>8. ASSUME NEW k \in Languages, StartServer(k) PROVE LspTypeOK'
  <2> DEFINE m == job.manager
  <2>1. m \in Managers
    BY <1>8, <1>a DEF StartServer
  <2>2. job' \in Jobs
    <3>1. job' = [job EXCEPT !.left = @ \ {k}]
      BY <1>8 DEF StartServer
    <3> QED
      BY <1>a, <3>1
  <2>3. UNCHANGED <<singleton, managersMade, commandManager, found>>
    BY <1>8 DEF StartServer
  <2>4. CASE \E s \in SharedClients(m, k) : lspClients' = [lspClients EXCEPT ![m][k] = s]
                                            /\ UNCHANGED <<servers, serversMade>>
    BY <1>a, <2>1, <2>2, <2>3, <2>4 DEF SharedClients, LspTypeOK
  <2>5. CASE /\ serversMade < MaxServers
             /\ serversMade' = serversMade + 1
             /\ servers' = [servers EXCEPT ![serversMade + 1] = "starting"]
             /\ lspClients' = [lspClients EXCEPT ![m][k] = serversMade + 1]
    <3>1. serversMade + 1 \in Servers /\ serversMade + 1 \in 0..MaxServers
      BY <1>a, <2>5, LspAssumption DEF Servers
    <3> QED
      BY <1>a, <2>1, <2>2, <2>3, <2>5, <3>1 DEF LspTypeOK
  <2> QED
    BY <1>8, <2>4, <2>5 DEF StartServer
<1>9. ASSUME NEW k \in Languages, ToolAsks(k) PROVE LspTypeOK'
  <2> DEFINE m == IF singleton = None THEN managersMade + 1 ELSE singleton
             s == IF singleton = None THEN None ELSE lspClients[m][k]
  <2>1. m \in Managers
    BY <1>9, <1>a, LspAssumption DEF ToolAsks, Managers
  <2>2. s \in {None} \cup Servers
    BY <1>a
  <2>3. found' \in [Languages -> {None} \cup Servers]
    BY <1>9, <1>a, <2>2 DEF ToolAsks
  <2>4. singleton' = m /\ managersMade' = (IF singleton = None THEN m ELSE managersMade)
        /\ UNCHANGED <<commandManager, lspClients, servers, serversMade, job>>
    BY <1>9 DEF ToolAsks
  <2> QED
    BY <1>a, <2>1, <2>3, <2>4 DEF LspTypeOK
<1>10. CASE UNCHANGED lspVars
  BY <1>10, <1>a DEF lspVars, LspTypeOK
<1> QED
  BY <1>1, <1>2, <1>3, <1>4, <1>5, <1>6, <1>7, <1>8, <1>9, <1>10 DEF LspNext

\* startServer() looks at the clients of the other languages before it starts a
\* server, and stopAll() forgets all of them: both keep SharedServer.
LEMMA LspNextShared == LspTypeOK /\ SharedServer /\ [LspNext]_lspVars => SharedServer'
<1> SUFFICES ASSUME LspTypeOK, SharedServer, [LspNext]_lspVars PROVE SharedServer'
  OBVIOUS
<1>1. CASE lspClients' = lspClients
  BY <1>1 DEF SharedServer
<1>2. CASE AllStopped
  BY <1>2 DEF AllStopped, LspTypeOK, SharedServer
<1>3. ASSUME NEW k \in Languages, StartServer(k) PROVE SharedServer'
  <2> DEFINE m == job.manager
  <2>1. m \in Managers /\ lspClients \in [Managers -> [Languages -> {None} \cup Servers]]
    BY <1>3 DEF StartServer, LspTypeOK
  <2>2. PICK s : /\ lspClients' = [lspClients EXCEPT ![m][k] = s]
                 /\ s \in SharedClients(m, k) \/ SharedClients(m, k) = {}
    BY <1>3 DEF StartServer
  <2>3. \A j \in Languages \ {k} :
          ServerName(j) = ServerName(k) /\ lspClients[m][j] # None => lspClients[m][j] = s
    <3> SUFFICES ASSUME NEW j \in Languages \ {k}, ServerName(j) = ServerName(k),
                        lspClients[m][j] # None
                 PROVE  lspClients[m][j] = s
      OBVIOUS
    <3>1. lspClients[m][j] \in SharedClients(m, k)
      BY <2>1 DEF SharedClients
    <3>2. PICK other \in Languages \ {k} : lspClients[m][other] = s /\ ServerName(other) = ServerName(k)
      BY <2>2, <3>1 DEF SharedClients
    <3>3. s \in Servers
      BY <2>2, <3>1 DEF SharedClients
    <3>4. s # None
      BY <3>3, LspAssumption DEF Servers, None
    <3> QED
      BY <2>1, <3>2, <3>4 DEF SharedServer
  <2> HIDE DEF m
  <2>4. \A n \in Managers : \A j \in Languages :
          lspClients'[n][j] = IF n = m /\ j = k THEN s ELSE lspClients[n][j]
    BY <2>1, <2>2
  <2> SUFFICES ASSUME NEW n \in Managers, NEW i \in Languages, NEW j \in Languages,
                      ServerName(i) = ServerName(j),
                      lspClients'[n][i] # None, lspClients'[n][j] # None
               PROVE  lspClients'[n][i] = lspClients'[n][j]
    BY DEF SharedServer
  <2>5. CASE n # m \/ (i # k /\ j # k)
    BY <2>4, <2>5 DEF SharedServer
  <2>6. CASE n = m /\ (i = k \/ j = k)
    BY <2>3, <2>4, <2>6
  <2> QED
    BY <2>5, <2>6
<1> QED
  BY <1>1, <1>2, <1>3
     DEF LspNext, lspVars, SessionShutdown, LspSetup, AllStarted, ServerStops, ServerReady,
         ServerDies, ToolAsks

\* The type invariant of the language servers.
THEOREM LspTypeCorrect == LspSpec => []LspTypeOK
<1>1. LspInit => LspTypeOK
  BY LspInitType
<1> QED
  BY <1>1, LspNextType, PTL DEF LspSpec

\* In every manager, the languages that have the same server program share one
\* client (startServer of lsp/manager.ts), for every set of languages.
THEOREM SharedServerAlways == LspSpec => []SharedServer
<1>1. LspInit => SharedServer
  BY LspInitType
<1> QED
  BY <1>1, LspTypeCorrect, LspNextShared, PTL DEF LspSpec

-----------------------------------------------------------------------------
(* Subagents: slots *)

Holders == {a \in Agents : call[a] \in {"granted", "foreground"}}

SlotInv == SlotsRespected /\ QueueOfWaiters

\* What SlotsRespected says of the calls that hold a slot.
LEMMA SlotsByHolders ==
  SlotsRespected <=>
    (shutdowns = 0 =>
       /\ Cardinality(Holders) <= activeSlots
       /\ activeSlots <= MaxConcurrent
       /\ slotQueue # <<>> => activeSlots = MaxConcurrent)
  BY DEF SlotsRespected, Holders

\* A set of calls is finite, and one call more or less is counted as one.
LEMMA HoldersCount ==
  ASSUME NEW S \in SUBSET Agents
  PROVE  /\ IsFiniteSet(S) /\ Cardinality(S) \in Nat
         /\ \A T \in SUBSET S : Cardinality(T) \in Nat /\ Cardinality(T) <= Cardinality(S)
         /\ \A a \in S : Cardinality(S \ {a}) = Cardinality(S) - 1
         /\ \A a \in Agents \ S : Cardinality(S \cup {a}) = Cardinality(S) + 1
<1>1. IsFiniteSet(S)
  BY SubAssumption, FS_Subset
<1>2. Cardinality(S) \in Nat
  BY <1>1, FS_CardinalityType
<1>3. ASSUME NEW T \in SUBSET S
      PROVE  Cardinality(T) \in Nat /\ Cardinality(T) <= Cardinality(S)
  <2>1. IsFiniteSet(T) /\ Cardinality(T) <= Cardinality(S)
    BY <1>1, FS_Subset
  <2> QED
    BY <2>1, FS_CardinalityType
<1>4. \A a \in S : Cardinality(S \ {a}) = Cardinality(S) - 1
  BY <1>1, FS_RemoveElement
<1>5. \A a \in Agents \ S : Cardinality(S \cup {a}) = Cardinality(S) + 1
  BY <1>1, FS_AddElement
<1> QED
  BY <1>1, <1>2, <1>3, <1>4, <1>5

\* Calls give up their slots without waking anyone, or nothing happens; the
\* queue may lose a call.
LEMMA SlotsKept ==
  ASSUME SlotsRespected, SubShape, activeSlots' = activeSlots, shutdowns' = shutdowns,
         Holders' \subseteq Holders, slotQueue = <<>> => slotQueue' = <<>>
  PROVE  SlotsRespected'
<1>1. Holders \in SUBSET Agents /\ Holders' \in SUBSET Agents
  BY DEF Holders
<1>2. Cardinality(Holders') <= Cardinality(Holders) /\ Cardinality(Holders') \in Nat
      /\ Cardinality(Holders) \in Nat
  BY <1>1, HoldersCount
<1>3. Cardinality(Holders') = Cardinality(Holders)'
  OBVIOUS
<1>4. (shutdowns = 0 =>
         /\ Cardinality(Holders) <= activeSlots
         /\ activeSlots <= MaxConcurrent
         /\ slotQueue # <<>> => activeSlots = MaxConcurrent)'
  BY <1>2, SlotsByHolders DEF SubShape
<1> QED
  BY <1>4 DEF SlotsRespected, Holders

\* The queue stays, and the calls in it still wait.
LEMMA QueueKept ==
  ASSUME QueueOfWaiters, slotQueue' = slotQueue,
         \A i \in 1..Len(slotQueue) : call'[slotQueue[i]] = "waiting"
  PROVE  QueueOfWaiters'
  BY DEF QueueOfWaiters

\* acquireSlot(): a free slot, or a place at the end of the queue.
LEMMA AcquireStep ==
  ASSUME SlotInv, SubShape, NEW a \in Agents, call[a] = "none", shutdowns' = shutdowns,
         IF activeSlots < MaxConcurrent
         THEN /\ activeSlots' = activeSlots + 1
              /\ call' = [call EXCEPT ![a] = "granted"]
              /\ slotQueue' = slotQueue
         ELSE /\ slotQueue' = Append(slotQueue, a)
              /\ call' = [call EXCEPT ![a] = "waiting"]
              /\ activeSlots' = activeSlots
  PROVE  SlotInv' /\ slotQueue' \in Seq(Agents) /\ activeSlots' \in Int
<1>1. \A i \in 1..Len(slotQueue) : slotQueue[i] \in Agents /\ slotQueue[i] # a
  BY ElementOfSeq DEF SubShape, SlotInv, QueueOfWaiters
<1>2. a \notin Holders /\ Holders \in SUBSET Agents
  BY DEF Holders
<1>3. CASE activeSlots < MaxConcurrent
  <2>1. /\ activeSlots' = activeSlots + 1
        /\ call' = [call EXCEPT ![a] = "granted"]
        /\ slotQueue' = slotQueue
    BY <1>3
  <2>2. Holders' = Holders \cup {a}
    BY <2>1 DEF Holders, SubShape
  <2>3. Cardinality(Holders') = Cardinality(Holders) + 1 /\ Cardinality(Holders) \in Nat
    BY <1>2, <2>2, HoldersCount
  <2>4. shutdowns = 0 => slotQueue = <<>>
    BY <1>3, SubAssumption, SlotsByHolders DEF SlotInv, SubShape
  <2>5. (shutdowns = 0 =>
           /\ Cardinality(Holders) <= activeSlots
           /\ activeSlots <= MaxConcurrent
           /\ slotQueue # <<>> => activeSlots = MaxConcurrent)'
    <3>1. shutdowns = 0 => Cardinality(Holders) <= activeSlots
      BY SlotsByHolders DEF SlotInv
    <3>2. activeSlots \in Int /\ MaxConcurrent \in Int
      BY SubAssumption DEF SubShape
    <3> QED
      BY <1>3, <2>1, <2>3, <2>4, <3>1, <3>2
  <2>6. SlotsRespected'
    BY <2>5 DEF SlotsRespected, Holders
  <2>7. QueueOfWaiters'
    BY <1>1, <2>1, QueueKept DEF SlotInv, QueueOfWaiters, SubShape
  <2> QED
    BY <2>1, <2>6, <2>7 DEF SlotInv, SubShape
<1>4. CASE ~(activeSlots < MaxConcurrent)
  <2>1. /\ activeSlots' = activeSlots
        /\ call' = [call EXCEPT ![a] = "waiting"]
        /\ slotQueue' = Append(slotQueue, a)
    BY <1>4
  <2>2. Holders' = Holders
    BY <1>2, <2>1 DEF Holders, SubShape
  <2>3. SlotsRespected'
    <3>1. (shutdowns = 0 =>
             /\ Cardinality(Holders) <= activeSlots
             /\ activeSlots <= MaxConcurrent)
      BY SlotsByHolders DEF SlotInv
    <3>2. (shutdowns = 0 =>
             /\ Cardinality(Holders) <= activeSlots
             /\ activeSlots <= MaxConcurrent
             /\ slotQueue # <<>> => activeSlots = MaxConcurrent)'
      BY <1>4, <2>1, <2>2, <3>1, SubAssumption DEF SubShape
    <3> QED
      BY <3>2 DEF SlotsRespected, Holders
  <2>4. /\ slotQueue' \in Seq(Agents) /\ Len(slotQueue') = Len(slotQueue) + 1
        /\ Len(slotQueue) \in Nat
        /\ \A i \in 1..Len(slotQueue) : slotQueue'[i] = slotQueue[i]
        /\ slotQueue'[Len(slotQueue) + 1] = a
    BY <2>1, AppendProperties DEF SubShape
  <2>5. \A i \in 1..Len(slotQueue') :
          \/ i \in 1..Len(slotQueue) /\ slotQueue'[i] = slotQueue[i] /\ slotQueue'[i] # a
          \/ i = Len(slotQueue) + 1 /\ slotQueue'[i] = a
    BY <1>1, <2>4
  <2>6. \A b \in Agents : call'[b] = IF b = a THEN "waiting" ELSE call[b]
    BY <2>1 DEF SubShape
  <2>7. \A i \in 1..Len(slotQueue') : call'[slotQueue'[i]] = "waiting"
    BY <1>1, <2>5, <2>6 DEF SlotInv, QueueOfWaiters
  <2>8. \A i, j \in 1..Len(slotQueue') : slotQueue'[i] = slotQueue'[j] => i = j
    BY <2>5 DEF SlotInv, QueueOfWaiters
  <2>9. QueueOfWaiters'
    BY <2>7, <2>8 DEF QueueOfWaiters
  <2> QED
    BY <2>1, <2>3, <2>4, <2>9 DEF SlotInv, SubShape
<1> QED
  BY <1>3, <1>4

\* releaseSlot(): the slot is free or the first waiter's.
LEMMA ReleaseStep ==
  ASSUME SlotInv, SubShape, NEW a \in Agents, call[a] \in {"granted", "foreground"},
         NEW res \in {"spawned", "done", "failed", "moved"},
         ReleaseSlot(a, res), shutdowns' = shutdowns
  PROVE  /\ SlotInv' /\ slotQueue' \in Seq(Agents) /\ activeSlots' \in Int
         /\ result' = [result EXCEPT ![a] = res]
         /\ call' \in [Agents -> {"none", "waiting", "granted", "foreground", "returned"}]
         /\ call'[a] = "returned"
         /\ \A b \in Agents \ {a} : \/ call'[b] = call[b]
                                    \/ call[b] = "waiting" /\ call'[b] = "granted"
<1>1. a \in Holders /\ Holders \in SUBSET Agents
  BY DEF Holders
<1>2. result' = [result EXCEPT ![a] = res]
  BY DEF ReleaseSlot
<1>3. CASE slotQueue = <<>>
  <2>1. /\ activeSlots' = activeSlots - 1
        /\ call' = [call EXCEPT ![a] = "returned"]
        /\ slotQueue' = slotQueue
    BY <1>3 DEF ReleaseSlot
  <2>2. Holders' = Holders \ {a}
    BY <2>1 DEF Holders, SubShape
  <2>3. Cardinality(Holders') = Cardinality(Holders) - 1 /\ Cardinality(Holders) \in Nat
    BY <1>1, <2>2, HoldersCount
  <2>4. SlotsRespected'
    <3>1. shutdowns = 0 => Cardinality(Holders) <= activeSlots /\ activeSlots <= MaxConcurrent
      BY SlotsByHolders DEF SlotInv
    <3>2. (shutdowns = 0 =>
             /\ Cardinality(Holders) <= activeSlots
             /\ activeSlots <= MaxConcurrent
             /\ slotQueue # <<>> => activeSlots = MaxConcurrent)'
      BY <1>3, <2>1, <2>3, <3>1, SubAssumption DEF SubShape
    <3> QED
      BY <3>2 DEF SlotsRespected, Holders
  <2>5. QueueOfWaiters'
    BY <1>3, <2>1 DEF QueueOfWaiters
  <2>6. \A b \in Agents \ {a} : call'[b] = call[b]
    BY <2>1 DEF SubShape
  <2>7. /\ call' \in [Agents -> {"none", "waiting", "granted", "foreground", "returned"}]
        /\ call'[a] = "returned"
    BY <2>1 DEF SubShape
  <2>8. slotQueue' \in Seq(Agents) /\ activeSlots' \in Int
    BY <2>1 DEF SubShape
  <2> QED
    BY <1>2, <2>4, <2>5, <2>6, <2>7, <2>8 DEF SlotInv
<1>4. CASE slotQueue # <<>>
  <2> DEFINE h == Head(slotQueue)
  <2>1. /\ slotQueue' = Tail(slotQueue) /\ activeSlots' = activeSlots
        /\ call' = [call EXCEPT ![a] = "returned", ![h] = "granted"]
    BY <1>4 DEF ReleaseSlot
  <2>2. /\ h = slotQueue[1] /\ h \in Agents
        /\ slotQueue' \in Seq(Agents) /\ Len(slotQueue') = Len(slotQueue) - 1
        /\ Len(slotQueue) \in Nat \ {0}
        /\ \A i \in 1..Len(slotQueue') : slotQueue'[i] = slotQueue[i + 1]
    BY <1>4, <2>1, HeadTailProperties, ElementOfSeq DEF SubShape
  <2>3. 1 \in 1..Len(slotQueue) /\ \A i \in 1..Len(slotQueue') : i + 1 \in 1..Len(slotQueue) /\ i + 1 # 1
    BY <2>2
  <2>4. call[h] = "waiting" /\ h # a
    BY <2>2, <2>3 DEF SlotInv, QueueOfWaiters
  <2>5. \A b \in Agents : call'[b] = IF b = h THEN "granted" ELSE IF b = a THEN "returned" ELSE call[b]
    BY <2>1, <2>2, <2>4 DEF SubShape
  <2>6. Holders' = (Holders \ {a}) \cup {h} /\ h \notin Holders
    BY <2>2, <2>4, <2>5 DEF Holders
  <2>7. Cardinality(Holders') = Cardinality(Holders) /\ Cardinality(Holders) \in Nat
    <3>1. Cardinality(Holders \ {a}) = Cardinality(Holders) - 1 /\ Cardinality(Holders) \in Nat
      BY <1>1, HoldersCount
    <3>2. Holders \ {a} \in SUBSET Agents /\ h \in Agents \ (Holders \ {a})
      BY <1>1, <2>2, <2>6
    <3>3. Cardinality((Holders \ {a}) \cup {h}) = Cardinality(Holders \ {a}) + 1
      BY <3>2, HoldersCount
    <3> QED
      BY <2>6, <3>1, <3>3
  <2>8. SlotsRespected'
    <3>1. shutdowns = 0 => /\ Cardinality(Holders) <= activeSlots
                           /\ activeSlots = MaxConcurrent
      BY <1>4, SlotsByHolders DEF SlotInv
    <3>2. (shutdowns = 0 =>
             /\ Cardinality(Holders) <= activeSlots
             /\ activeSlots <= MaxConcurrent
             /\ slotQueue # <<>> => activeSlots = MaxConcurrent)'
      BY <2>1, <2>7, <3>1, SubAssumption DEF SubShape
    <3> QED
      BY <3>2 DEF SlotsRespected, Holders
  <2>9. QueueOfWaiters'
    <3>1. \A i \in 1..Len(slotQueue') : slotQueue'[i] # h /\ slotQueue'[i] # a
                                        /\ call[slotQueue'[i]] = "waiting"
                                        /\ slotQueue'[i] \in Agents
      <4>1. \A i \in 1..Len(slotQueue) : slotQueue[i] \in Agents
        BY ElementOfSeq DEF SubShape
      <4> QED
        BY <2>2, <2>3, <4>1, SMTT(20), ZenonT(20) DEF SlotInv, QueueOfWaiters
    <3>2. \A i \in 1..Len(slotQueue') : call'[slotQueue'[i]] = "waiting"
      BY <2>5, <3>1
    <3>3. \A i, j \in 1..Len(slotQueue') : slotQueue'[i] = slotQueue'[j] => i = j
      <4>1. \A i, j \in 1..Len(slotQueue') : i + 1 = j + 1 => i = j
        BY <2>2
      <4> QED
        BY <2>2, <2>3, <4>1 DEF SlotInv, QueueOfWaiters
    <3> QED
      BY <3>2, <3>3 DEF QueueOfWaiters
  <2>10. /\ call' \in [Agents -> {"none", "waiting", "granted", "foreground", "returned"}]
         /\ call'[a] = "returned"
    BY <2>1, <2>4, <2>5 DEF SubShape
  <2>11. \A b \in Agents \ {a} : \/ call'[b] = call[b]
                                 \/ call[b] = "waiting" /\ call'[b] = "granted"
    BY <2>4, <2>5
  <2>12. slotQueue' \in Seq(Agents) /\ activeSlots' \in Int
    BY <2>1, <2>2 DEF SubShape
  <2> QED
    BY <1>2, <2>8, <2>9, <2>10, <2>11, <2>12 DEF SlotInv
<1> QED
  BY <1>3, <1>4

-----------------------------------------------------------------------------
(* Subagents: agents *)

\* The outcome of an agent that no longer works is told.
OutcomeTold(a) ==
  runtime[a] # "none" /\ a \notin agents =>
    \/ messages[a] # <<>> \/ result[a] \in {"done", "failed"} \/ a \in graceful
    \/ Stranded(a)

AgentInv(a) == AgentFollowed(a) /\ (a \notin destroyed => OutcomeTold(a))
AgentsInv == \A a \in Agents : AgentInv(a)

\* The invariant in two parts: what the manager and the calls know of an
\* agent, and where its start() is.
CoreInv   == SubShape /\ SlotInv /\ AgentsInv
StartsInv == StartShape /\ \A a \in Agents : AgentStarts(a)

LEMMA SubInvByParts == SubInv <=> CoreInv /\ StartsInv
<1>1. SubInv => CoreInv /\ StartsInv
  BY DEF SubInv, CoreInv, StartsInv, SlotInv, AgentsInv, AgentInv, OutcomeTold, OutcomeDelivered
<1>2. ASSUME CoreInv, StartsInv, NEW a \in Agents \ destroyed
      PROVE  /\ OutcomeTold(a)
             /\ call[a] = "foreground" => a \in agents \/ Stranded(a)
             /\ a \in agents => status[a] \notin Final
             /\ Stranded(a) =>
                  status[a] = "error" /\ messages[a] = <<>> /\ result[a] \in {"none", "moved"}
  BY <1>2 DEF CoreInv, StartsInv, AgentsInv, AgentInv, AgentFollowed, AgentStarts
<1>3. CoreInv /\ StartsInv => OutcomeDelivered
  BY <1>2 DEF OutcomeDelivered, OutcomeTold
<1>4. CoreInv /\ StartsInv => SubInv
  BY <1>3 DEF SubInv, CoreInv, StartsInv, SlotInv, AgentsInv, AgentInv
<1> QED
  BY <1>1, <1>4

\* Nobody's start() is stranded by a step, nor freed.
StrandedKept == \A b \in Agents : Stranded(b)' <=> Stranded(b)

\* An agent that a step does not concern; its call may wait or be given a slot.
LEMMA AgentKept ==
  ASSUME NEW a, AgentInv(a), runtime'[a] = runtime[a], result'[a] = result[a],
         messages'[a] = messages[a],
         \/ call'[a] = call[a]
         \/ call[a] \in {"none", "waiting"} /\ call'[a] \in {"waiting", "granted"},
         a \in agents' <=> a \in agents, a \in completedAgents' <=> a \in completedAgents,
         a \in foregroundAgents' <=> a \in foregroundAgents,
         a \in completionNotified' <=> a \in completionNotified,
         a \in destroyed' <=> a \in destroyed, a \in graceful => a \in graceful',
         Stranded(a)' <=> Stranded(a)
  PROVE  AgentInv(a)'
<1>1. Completions(a)' = Completions(a)
  BY DEF Completions
<1>2. a \in Managed' <=> a \in Managed
  BY DEF Managed
<1>3. OutcomeTold(a) => OutcomeTold(a)'
  BY DEF OutcomeTold
<1>4. AgentFollowed(a)'
  BY <1>1, <1>2 DEF AgentInv, AgentFollowed
<1> QED
  BY <1>3, <1>4 DEF AgentInv

\* A message more: whether it is a completion.
LEMMA CompletionsOfMore ==
  ASSUME NEW a \in Agents, SubShape, NEW kind \in {"completed", "failed", "aborted"},
         messages' = [messages EXCEPT ![a] = Append(@, kind)]
  PROVE  /\ messages' \in [Agents -> Seq({"completed", "failed", "aborted"})]
         /\ messages'[a] # <<>>
         /\ \A b \in Agents \ {a} : messages'[b] = messages[b]
         /\ kind # "completed" => Completions(a)' = Completions(a)
         /\ Completions(a) = {} => \A i, j \in Completions(a)' : i = j
<1> DEFINE old == messages[a]
           new == messages'[a]
<1>1. old \in Seq({"completed", "failed", "aborted"})
  BY DEF SubShape
<1>2. /\ new = Append(old, kind)
      /\ new \in Seq({"completed", "failed", "aborted"}) /\ new # <<>>
      /\ Len(new) = Len(old) + 1 /\ Len(old) \in Nat
      /\ \A i \in 1..Len(old) : new[i] = old[i]
      /\ new[Len(old) + 1] = kind
  <2>1. new = Append(old, kind)
    BY DEF SubShape
  <2> HIDE DEF new, old
  <2> QED
    BY <1>1, <2>1, AppendProperties
<1>3. DOMAIN old = 1..Len(old) /\ DOMAIN new = 1..(Len(old) + 1)
  <2> HIDE DEF new, old
  <2> QED
    BY <1>1, <1>2, LenProperties
<1>4. /\ messages' \in [Agents -> Seq({"completed", "failed", "aborted"})]
      /\ \A b \in Agents \ {a} : messages'[b] = messages[b]
  BY <1>2 DEF SubShape
<1>5. /\ Completions(a) = {i \in 1..Len(old) : old[i] = "completed"}
      /\ Completions(a)' = {i \in 1..(Len(old) + 1) : new[i] = "completed"}
  BY <1>3 DEF Completions
<1>6. \A i : i \in 1..(Len(old) + 1) <=> i \in 1..Len(old) \/ i = Len(old) + 1
  BY <1>2
<1> HIDE DEF new, old
<1>7. kind # "completed" => Completions(a)' = Completions(a)
  BY <1>2, <1>5, <1>6
<1>8. Completions(a) = {} => \A i, j \in Completions(a)' : i = j
  BY <1>2, <1>5, <1>6
<1> QED
  BY <1>2, <1>4, <1>7, <1>8 DEF new

\* A final event: the manager's handler, then the listener of the tool call.
LEMMA ReportStep ==
  ASSUME CoreInv, NEW a \in Agents, NEW kind \in {"completed", "failed", "aborted", "graceful"},
         NEW newStatus, Report(a, kind, newStatus), UNCHANGED <<runtime, destroyed, shutdowns>>,
         ~Stranded(a), StrandedKept,
         graceful' = IF kind = "graceful" THEN graceful \cup {a} ELSE graceful
  PROVE  CoreInv'
<1>1. SubShape /\ SlotInv /\ \A b \in Agents : AgentInv(b)
  BY DEF CoreInv, AgentsInv
<1>2. (CoreInv <=> SubShape /\ SlotInv /\ AgentsInv)'
  BY DEF CoreInv
<1>3. /\ agents' = IF Handles(a, kind) THEN agents \ {a} ELSE agents
      /\ completedAgents' = IF Handles(a, kind) THEN completedAgents \cup {a} ELSE completedAgents
      /\ completionNotified' = IF kind = "completed" /\ Handles(a, kind)
                               THEN completionNotified \cup {a} ELSE completionNotified
      /\ foregroundAgents' = IF Handles(a, kind) /\ kind # "graceful"
                             THEN foregroundAgents \ {a} ELSE foregroundAgents
      /\ messages' = IF Announces(a, kind) THEN [messages EXCEPT ![a] = Append(@, kind)]
                     ELSE messages
      /\ Settle(a, kind)
  BY DEF Report, HandleAgentEvent
<1>0. ~Stranded(a)' /\ \A b \in Agents : Stranded(b)' <=> Stranded(b)
  BY DEF StrandedKept
<1>4. /\ messages' \in [Agents -> Seq({"completed", "failed", "aborted"})]
      /\ \A b \in Agents \ {a} : messages'[b] = messages[b]
      /\ Announces(a, kind) /\ kind # "completed" => Completions(a)' = Completions(a)
      /\ Announces(a, kind) /\ Completions(a) = {} => \A i, j \in Completions(a)' : i = j
      /\ Announces(a, kind) => messages'[a] # <<>>
      /\ ~Announces(a, kind) => messages' = messages /\ Completions(a)' = Completions(a)
  <2>1. CASE Announces(a, kind)
    <3>1. kind \in {"completed", "failed", "aborted"}
      BY <2>1 DEF Announces
    <3> QED
      BY <1>1, <1>3, <2>1, <3>1, CompletionsOfMore
  <2>2. CASE ~Announces(a, kind)
    BY <1>1, <1>3, <2>2 DEF SubShape, Completions
  <2> QED
    BY <2>1, <2>2
<1>5. CASE call[a] = "foreground"
  <2>1. PICK res \in {"done", "failed"} : ReleaseSlot(a, res) /\ (res = "done" => kind \in {"completed", "graceful"})
    BY <1>3, <1>5 DEF Settle
  <2>2. /\ SlotInv' /\ slotQueue' \in Seq(Agents) /\ activeSlots' \in Int
        /\ result' = [result EXCEPT ![a] = res]
        /\ call' \in [Agents -> {"none", "waiting", "granted", "foreground", "returned"}]
        /\ call'[a] = "returned"
        /\ \A b \in Agents \ {a} : \/ call'[b] = call[b]
                                   \/ call[b] = "waiting" /\ call'[b] = "granted"
    BY <1>1, <1>5, <2>1, ReleaseStep
  <2>3. SubShape'
    BY <1>1, <1>3, <1>4, <2>1, <2>2 DEF SubShape
  <2>4. ASSUME NEW b \in Agents \ {a} PROVE AgentInv(b)'
    <3>1. result'[b] = result[b]
      BY <1>1, <2>2 DEF SubShape
    <3> QED
      BY <1>0, <1>1, <1>3, <1>4, <2>2, <3>1, AgentKept
  <2>5. result'[a] = res
    BY <1>1, <2>2 DEF SubShape
  <2>6. AgentInv(a) /\ Completions(a) = {}
    BY <1>1, <1>5 DEF AgentInv, AgentFollowed
  <2>7. CASE a \notin destroyed
    <3>1. a \in agents /\ a \in foregroundAgents /\ a \notin completionNotified
      BY <1>5, <2>6, <2>7 DEF AgentInv, AgentFollowed
    <3>2. Handles(a, kind) /\ ~Announces(a, kind)
      BY <3>1 DEF Handles, Announces, Managed
    <3>3. Completions(a)' = {}
      BY <1>4, <2>6, <3>2
    <3>4. AgentFollowed(a)'
      BY <1>0, <1>3, <2>1, <2>2, <2>5, <2>7, <3>2, <3>3 DEF AgentFollowed, Managed
    <3>5. OutcomeTold(a)'
      BY <2>5 DEF OutcomeTold
    <3> QED
      BY <1>2, <2>2, <2>3, <2>4, <3>4, <3>5 DEF AgentInv, AgentsInv
  <2>8. CASE a \in destroyed
    <3>1. a \notin Managed /\ a \notin foregroundAgents
      BY <2>6, <2>8 DEF AgentInv, AgentFollowed
    <3>2. ~Handles(a, kind) /\ ~Announces(a, kind)
      BY <3>1 DEF Handles, Announces
    <3>3. Completions(a)' = {} /\ a \notin Managed'
      BY <1>3, <1>4, <2>6, <3>1, <3>2 DEF Managed
    <3>4. AgentFollowed(a)'
      BY <1>0, <1>3, <2>1, <2>2, <2>5, <2>8, <3>1, <3>2, <3>3 DEF AgentFollowed, Managed
    <3> QED
      BY <1>2, <2>2, <2>3, <2>4, <2>8, <3>4 DEF AgentInv, AgentsInv
  <2> QED
    BY <2>7, <2>8
<1>6. CASE call[a] # "foreground"
  <2>1. UNCHANGED <<call, result, activeSlots, slotQueue>>
    BY <1>3, <1>6 DEF Settle, slotVars
  <2>2. SlotInv'
    BY <1>1, <2>1 DEF SlotInv, SlotsRespected, QueueOfWaiters
  <2>3. SubShape'
    BY <1>1, <1>3, <1>4, <2>1 DEF SubShape
  <2>4. ASSUME NEW b \in Agents \ {a} PROVE AgentInv(b)'
    BY <1>0, <1>1, <1>3, <1>4, <2>1, AgentKept
  <2>5. CASE ~Handles(a, kind)
    <3>1. ~Announces(a, kind)
      BY <2>5 DEF Announces
    <3> QED
      BY <1>0, <1>1, <1>3, <1>4, <2>1, <2>2, <2>3, <2>4, <2>5, <3>1, AgentKept, <1>2 DEF AgentsInv
  <2>6. CASE Handles(a, kind)
    <3>1. a \in Managed /\ AgentInv(a)
      BY <1>1, <2>6 DEF Handles
    <3>2. call[a] = "returned" /\ a \notin destroyed
      BY <1>1, <1>6, <3>1 DEF AgentInv, AgentFollowed, SubShape
    <3>3. a \notin agents' /\ a \in completedAgents'
      BY <1>3, <2>6
    <3>4. CASE Announces(a, kind)
      <4>1. kind = "completed" => a \notin completionNotified /\ a \in completionNotified'
        BY <1>3, <2>6 DEF Handles
      <4>2. kind # "graceful" /\ a \notin foregroundAgents'
        BY <1>3, <3>4 DEF Announces
      <4>3. a \notin graceful /\ kind = "completed" => Completions(a) = {} /\ result[a] # "done"
        BY <3>1, <4>1 DEF AgentInv, AgentFollowed
      <4>4. AgentFollowed(a)'
        BY <1>0, <1>3, <1>4, <2>1, <3>1, <3>2, <3>3, <3>4, <4>1, <4>2, <4>3 DEF AgentFollowed, AgentInv, Managed
      <4>5. OutcomeTold(a)'
        BY <1>4, <3>4 DEF OutcomeTold
      <4> QED
        BY <1>2, <2>2, <2>3, <2>4, <4>4, <4>5 DEF AgentInv, AgentsInv
    <3>5. CASE ~Announces(a, kind)
      <4>1. a \in graceful'
        <5>1. kind = "graceful" \/ a \in foregroundAgents
          BY <2>6, <3>5 DEF Announces
        <5> QED
          BY <1>6, <3>1, <5>1 DEF AgentInv, AgentFollowed
      <4>2. AgentFollowed(a)'
        BY <1>0, <2>1, <3>2, <3>3, <4>1 DEF AgentFollowed, Managed
      <4>3. OutcomeTold(a)'
        BY <4>1 DEF OutcomeTold
      <4> QED
        BY <1>2, <2>2, <2>3, <2>4, <4>2, <4>3 DEF AgentInv, AgentsInv
    <3> QED
      BY <3>4, <3>5
  <2> QED
    BY <2>5, <2>6
<1> QED
  BY <1>5, <1>6

-----------------------------------------------------------------------------
(* Subagents: the steps *)

relevantVars ==
  <<call, result, runtime, activeSlots, slotQueue, agents, completedAgents, foregroundAgents,
    completionNotified, messages, graceful, destroyed, shutdowns>>

\* A step of the child or of a timer that nobody hears of.
LEMMA Unheard ==
  ASSUME CoreInv, UNCHANGED relevantVars, StrandedKept
  PROVE  CoreInv'
<1>1. SubShape' /\ SlotInv'
  BY DEF CoreInv, relevantVars, SubShape, SlotInv, SlotsRespected, QueueOfWaiters
<1>2. \A a \in Agents : AgentInv(a)'
  BY AgentKept DEF CoreInv, AgentsInv, relevantVars, StrandedKept
<1> QED
  BY <1>1, <1>2 DEF CoreInv, AgentsInv

\* execute() up to acquireSlot().
LEMMA SpawnAgentStep ==
  ASSUME CoreInv, NEW a \in Agents, SpawnAgent(a)
  PROVE  CoreInv'
<1>1. SubShape /\ SlotInv /\ AgentsInv
  BY DEF CoreInv
<1>2. (CoreInv <=> SubShape /\ SlotInv /\ AgentsInv)'
  BY DEF CoreInv
<1>3. /\ call[a] = "none"
      /\ UNCHANGED <<result, runtime, agents, completedAgents, foregroundAgents,
                     completionNotified, messages, graceful, destroyed, shutdowns>>
  BY DEF SpawnAgent, managerVars, ghostVars
<1>4. IF activeSlots < MaxConcurrent
      THEN /\ activeSlots' = activeSlots + 1
           /\ call' = [call EXCEPT ![a] = "granted"]
           /\ slotQueue' = slotQueue
      ELSE /\ slotQueue' = Append(slotQueue, a)
           /\ call' = [call EXCEPT ![a] = "waiting"]
           /\ activeSlots' = activeSlots
  BY DEF SpawnAgent
<1>5. SlotInv' /\ slotQueue' \in Seq(Agents) /\ activeSlots' \in Int
  BY <1>1, <1>3, <1>4, AcquireStep
<1>6. SubShape'
  BY <1>1, <1>3, <1>4, <1>5 DEF SubShape
<1>7. /\ \A b \in Agents \ {a} : call'[b] = call[b]
      /\ call'[a] \in {"waiting", "granted"}
  BY <1>1, <1>4 DEF SubShape
<1>8. AgentsInv'
  BY <1>1, <1>3, <1>7, AgentKept DEF AgentsInv, Stranded, SpawnAgent
<1> QED
  BY <1>2, <1>5, <1>6, <1>8

\* A call that holds a slot or waits for one returns, and its slot is nobody's.
LEMMA ReturnStep ==
  ASSUME SubShape, SlotInv, NEW S \in SUBSET Agents,
         call' = [a \in Agents |-> IF a \in S THEN "returned" ELSE call[a]],
         UNCHANGED <<activeSlots, shutdowns>>,
         \/ slotQueue' = slotQueue /\ \A a \in S : call[a] # "waiting"
         \/ slotQueue # <<>> /\ slotQueue' \in Seq(Agents) /\ QueueOfWaiters'
  PROVE  SlotInv' /\ slotQueue' \in Seq(Agents)
<1>1. Holders' \subseteq Holders
  BY DEF Holders
<1>2. SlotsRespected'
  BY <1>1, SlotsKept DEF SlotInv
<1>3. ASSUME slotQueue' = slotQueue, \A a \in S : call[a] # "waiting"
      PROVE  QueueOfWaiters'
  <2>1. \A i \in 1..Len(slotQueue) : slotQueue[i] \in Agents
    BY ElementOfSeq DEF SubShape
  <2>2. \A i \in 1..Len(slotQueue) : call'[slotQueue[i]] = "waiting"
    BY <1>3, <2>1 DEF SlotInv, QueueOfWaiters
  <2> QED
    BY <1>3, <2>2, QueueKept DEF SlotInv
<1> QED
  BY <1>2, <1>3 DEF SlotInv, SubShape

\* spawn() throws.
LEMMA SpawnThrowsStep ==
  ASSUME CoreInv, NEW a \in Agents, SpawnThrows(a)
  PROVE  CoreInv'
<1>1. SubShape /\ SlotInv /\ AgentsInv
  BY DEF CoreInv
<1>2. (CoreInv <=> SubShape /\ SlotInv /\ AgentsInv)'
  BY DEF CoreInv
<1>3. /\ call[a] = "granted"
      /\ call' = [call EXCEPT ![a] = "returned"]
      /\ result' = [result EXCEPT ![a] = "failed"]
      /\ UNCHANGED <<runtime, activeSlots, slotQueue, agents, completedAgents, foregroundAgents,
                     completionNotified, messages, graceful, destroyed, shutdowns>>
  BY DEF SpawnThrows, slotVars, managerVars, ghostVars
<1>4. call' = [b \in Agents |-> IF b \in {a} THEN "returned" ELSE call[b]]
  BY <1>1, <1>3 DEF SubShape
<1>5. SlotInv'
  <2>1. {a} \in SUBSET Agents /\ \A b \in {a} : call[b] # "waiting"
    BY <1>3
  <2> QED
    BY <1>1, <1>3, <1>4, <2>1, ReturnStep
<1>6. SubShape'
  BY <1>1, <1>3 DEF SubShape
<1>7. \A b \in Agents \ {a} : call'[b] = call[b] /\ result'[b] = result[b]
  BY <1>1, <1>3 DEF SubShape
<1>8. \A b \in Agents \ {a} : AgentInv(b)'
  BY <1>1, <1>3, <1>7, AgentKept DEF AgentsInv, Stranded, SpawnThrows
<1>9. AgentInv(a)'
  <2>1. AgentInv(a)
    BY <1>1 DEF AgentsInv
  <2>2. /\ runtime[a] = "none" /\ messages[a] = <<>>
        /\ a \notin Managed \cup foregroundAgents \cup completionNotified \cup destroyed
    BY <1>3, <2>1 DEF AgentInv, AgentFollowed
  <2>3. call'[a] = "returned" /\ a \notin Managed' /\ Completions(a)' = {}
    BY <1>1, <1>3, <2>2 DEF SubShape, Managed, Completions
  <2>4. ~Stranded(a)'
    BY <1>3, <2>1, <2>2 DEF AgentInv, AgentFollowed, Stranded, SpawnThrows
  <2> QED
    BY <1>3, <2>2, <2>3, <2>4 DEF AgentInv, AgentFollowed, OutcomeTold, Managed
<1> QED
  BY <1>2, <1>5, <1>6, <1>8, <1>9 DEF AgentsInv

\* spawn(): the manager has the agent; a call in the background returns.
LEMMA SpawnStep ==
  ASSUME CoreInv, StartsInv, NEW a \in Agents, Spawn(a)
  PROVE  CoreInv'
<1>1. SubShape /\ SlotInv /\ AgentsInv
  BY DEF CoreInv
<1>2. (CoreInv <=> SubShape /\ SlotInv /\ AgentsInv)'
  BY DEF CoreInv
<1>3. PICK r \in {"subprocess", "inprocess"} : runtime' = [runtime EXCEPT ![a] = r]
  BY DEF Spawn
<1>4. /\ call[a] = "granted" /\ agents' = agents \cup {a}
      /\ UNCHANGED <<completedAgents, completionNotified, messages, graceful, destroyed, shutdowns>>
  BY DEF Spawn, ghostVars
<1>5. \/ ReleaseSlot(a, "spawned") /\ foregroundAgents' = foregroundAgents
      \/ /\ call' = [call EXCEPT ![a] = "foreground"]
         /\ foregroundAgents' = foregroundAgents \cup {a}
         /\ UNCHANGED <<result, activeSlots, slotQueue>>
  BY DEF Spawn, slotVars
<1>6. /\ SlotInv' /\ slotQueue' \in Seq(Agents) /\ activeSlots' \in Int
      /\ call' \in [Agents -> {"none", "waiting", "granted", "foreground", "returned"}]
      /\ result' \in [Agents -> {"none", "spawned", "done", "failed", "moved"}]
      /\ \A b \in Agents \ {a} :
           /\ call'[b] = call[b] \/ (call[b] = "waiting" /\ call'[b] = "granted")
           /\ result'[b] = result[b]
      /\ \/ call'[a] = "returned" /\ result'[a] = "spawned" /\ foregroundAgents' = foregroundAgents
         \/ /\ call'[a] = "foreground" /\ result'[a] = result[a]
            /\ foregroundAgents' = foregroundAgents \cup {a}
  <2>1. CASE ReleaseSlot(a, "spawned") /\ foregroundAgents' = foregroundAgents
    <3>1. /\ SlotInv' /\ slotQueue' \in Seq(Agents) /\ activeSlots' \in Int
          /\ result' = [result EXCEPT ![a] = "spawned"]
          /\ call' \in [Agents -> {"none", "waiting", "granted", "foreground", "returned"}]
          /\ call'[a] = "returned"
          /\ \A b \in Agents \ {a} : \/ call'[b] = call[b]
                                     \/ call[b] = "waiting" /\ call'[b] = "granted"
      BY <1>1, <1>4, <2>1, ReleaseStep
    <3> QED
      BY <1>1, <2>1, <3>1 DEF SubShape
  <2>2. CASE /\ call' = [call EXCEPT ![a] = "foreground"]
             /\ foregroundAgents' = foregroundAgents \cup {a}
             /\ UNCHANGED <<result, activeSlots, slotQueue>>
    <3>1. Holders' = Holders
      BY <1>1, <1>4, <2>2 DEF Holders, SubShape
    <3>2. SlotsRespected'
      BY <1>1, <1>4, <2>2, <3>1, SlotsKept DEF SlotInv
    <3>3. QueueOfWaiters'
      <4>1. \A i \in 1..Len(slotQueue) : slotQueue[i] \in Agents
        BY <1>1, ElementOfSeq DEF SubShape
      <4>2. \A i \in 1..Len(slotQueue) : call'[slotQueue[i]] = "waiting"
        BY <1>1, <1>4, <2>2, <4>1 DEF SlotInv, QueueOfWaiters, SubShape
      <4> QED
        BY <1>1, <2>2, <4>2, QueueKept DEF SlotInv
    <3> QED
      BY <1>1, <2>2, <3>2, <3>3 DEF SubShape, SlotInv
  <2> QED
    BY <1>5, <2>1, <2>2
<1>7. SubShape'
  BY <1>1, <1>3, <1>4, <1>6 DEF SubShape
<1>8. ASSUME NEW b \in Agents \ {a}
      PROVE  AgentInv(b)'
  <2>0. Stranded(b)' <=> Stranded(b)
    BY DEF Stranded, StartsInv, StartShape, Spawn
  <2>1. /\ AgentInv(b) /\ runtime'[b] = runtime[b] /\ (b \in agents' <=> b \in agents)
        /\ (b \in foregroundAgents' <=> b \in foregroundAgents)
    BY <1>1, <1>3, <1>4, <1>6 DEF AgentsInv, SubShape
  <2> QED
    BY <1>4, <1>6, <2>0, <2>1, AgentKept
<1>9. AgentInv(a)'
  <2>1. AgentInv(a)
    BY <1>1 DEF AgentsInv
  <2>2. /\ messages[a] = <<>> /\ result[a] = "none"
        /\ a \notin Managed \cup foregroundAgents \cup completionNotified \cup destroyed
    BY <1>4, <2>1 DEF AgentInv, AgentFollowed
  <2>3. a \in agents' /\ Completions(a)' = {}
    BY <1>4, <2>2 DEF Completions
  <2>4. ~Stranded(a)'
    BY DEF Stranded, StartsInv, StartShape, Spawn
  <2> QED
    BY <1>4, <1>6, <2>2, <2>3, <2>4 DEF AgentInv, AgentFollowed, OutcomeTold, Managed
<1> QED
  BY <1>2, <1>6, <1>7, <1>8, <1>9 DEF AgentsInv

\* A sequence without its i-th element.
LEMMA RemoveAtFacts ==
  ASSUME NEW V, NEW q \in Seq(V), NEW i \in 1..Len(q)
  PROVE  /\ RemoveAt(q, i) \in Seq(V)
         /\ Len(RemoveAt(q, i)) = Len(q) - 1
         /\ \A j \in 1..(Len(q) - 1) : RemoveAt(q, i)[j] = IF j < i THEN q[j] ELSE q[j + 1]
<1> DEFINE before == SubSeq(q, 1, i - 1)
           after == SubSeq(q, i + 1, Len(q))
<1>1. Len(q) \in Nat /\ i \in Int
  BY LenProperties
<1>2. /\ before \in Seq(V) /\ Len(before) = i - 1
      /\ \A j \in 1..(i - 1) : before[j] = q[j]
  <2>1. 1 \in 1..(Len(q) + 1) /\ i - 1 \in 0..Len(q)
    BY <1>1
  <2> QED
    BY <1>1, <2>1, SubSeqProperties
<1>3. /\ after \in Seq(V) /\ Len(after) = Len(q) - i
      /\ \A j \in 1..(Len(q) - i) : after[j] = q[i + j]
  <2>1. i + 1 \in 1..(Len(q) + 1) /\ Len(q) \in i..Len(q)
    BY <1>1
  <2> QED
    BY <1>1, <2>1, SubSeqProperties
<1>4. /\ before \o after \in Seq(V)
      /\ Len(before \o after) = Len(before) + Len(after)
      /\ \A j \in 1..(Len(before) + Len(after)) :
           (before \o after)[j] = IF j <= Len(before) THEN before[j] ELSE after[j - Len(before)]
  <2> HIDE DEF before, after
  <2> QED
    BY <1>2, <1>3, ConcatProperties
<1>5. RemoveAt(q, i) = before \o after
  BY DEF RemoveAt
<1> HIDE DEF before, after
<1>6. \A j \in 1..(Len(q) - 1) : (before \o after)[j] = IF j < i THEN q[j] ELSE q[j + 1]
  <2> SUFFICES ASSUME NEW j \in 1..(Len(q) - 1)
               PROVE  (before \o after)[j] = IF j < i THEN q[j] ELSE q[j + 1]
    OBVIOUS
  <2>1. j \in 1..(Len(before) + Len(after))
    BY <1>1, <1>2, <1>3
  <2>2. CASE j < i
    BY <1>1, <1>2, <1>4, <2>1, <2>2
  <2>3. CASE ~(j < i)
    <3>1. j - (i - 1) \in 1..(Len(q) - i) /\ i + (j - (i - 1)) = j + 1
      BY <1>1, <2>3
    <3>2. (before \o after)[j] = after[j - (i - 1)]
      BY <1>1, <1>2, <1>4, <2>1, <2>3
    <3> QED
      BY <1>3, <2>3, <3>1, <3>2
  <2> QED
    BY <2>2, <2>3
<1> QED
  BY <1>1, <1>2, <1>3, <1>4, <1>5, <1>6

\* The signal of the tool call.
LEMMA AbortCallStep ==
  ASSUME CoreInv, NEW a \in Agents, AbortCall(a)
  PROVE  CoreInv'
<1>1. SubShape /\ SlotInv /\ AgentsInv
  BY DEF CoreInv
<1>2. (CoreInv <=> SubShape /\ SlotInv /\ AgentsInv)'
  BY DEF CoreInv
<1>3. /\ call' = [call EXCEPT ![a] = "returned"]
      /\ UNCHANGED <<runtime, activeSlots, agents, completedAgents, completionNotified, messages,
                     graceful, destroyed, shutdowns>>
  BY DEF AbortCall, ghostVars
<1>4. call' = [b \in Agents |-> IF b \in {a} THEN "returned" ELSE call[b]]
  BY <1>1, <1>3 DEF SubShape
<1>5. /\ call[a] \in {"waiting", "foreground"}
      /\ result' = [result EXCEPT ![a] = IF call[a] = "waiting" THEN "failed" ELSE "moved"]
      /\ foregroundAgents' = IF call[a] = "waiting" THEN foregroundAgents
                             ELSE foregroundAgents \ {a}
  BY DEF AbortCall
<1>6. SlotInv' /\ slotQueue' \in Seq(Agents)
  <2>1. CASE call[a] = "foreground"
    <3>1. slotQueue' = slotQueue
      BY <2>1 DEF AbortCall
    <3>2. {a} \in SUBSET Agents /\ \A b \in {a} : call[b] # "waiting"
      BY <2>1
    <3> QED
      BY <1>1, <1>3, <1>4, <3>1, <3>2, ReturnStep
  <2>2. CASE call[a] = "waiting"
    <3>1. PICK i \in 1..Len(slotQueue) : slotQueue[i] = a /\ slotQueue' = RemoveAt(slotQueue, i)
      BY <2>2 DEF AbortCall
    <3>2. /\ slotQueue' \in Seq(Agents) /\ Len(slotQueue') = Len(slotQueue) - 1
          /\ \A j \in 1..(Len(slotQueue) - 1) :
               slotQueue'[j] = IF j < i THEN slotQueue[j] ELSE slotQueue[j + 1]
      BY <1>1, <3>1, RemoveAtFacts DEF SubShape
    <3>3. Len(slotQueue) \in Nat /\ slotQueue # <<>>
      BY <1>1, <3>1, LenProperties DEF SubShape
    <3>4. \A j \in 1..Len(slotQueue') :
            \/ j < i /\ j \in 1..Len(slotQueue) /\ slotQueue'[j] = slotQueue[j] /\ j # i
            \/ ~(j < i) /\ j + 1 \in 1..Len(slotQueue) /\ slotQueue'[j] = slotQueue[j + 1] /\ j + 1 # i
      BY <3>2, <3>3
    <3>5. \A j \in 1..Len(slotQueue) : slotQueue[j] \in Agents /\ (j # i => slotQueue[j] # a)
      BY <1>1, <3>1, ElementOfSeq DEF SubShape, SlotInv, QueueOfWaiters
    <3>6. \A j \in 1..Len(slotQueue') : call'[slotQueue'[j]] = "waiting"
      BY <1>1, <1>4, <3>4, <3>5 DEF SlotInv, QueueOfWaiters
    <3>7. ASSUME NEW j \in 1..Len(slotQueue'), NEW k \in 1..Len(slotQueue'),
                 slotQueue'[j] = slotQueue'[k]
          PROVE  j = k
      <4>1. \A l, m \in 1..Len(slotQueue) : slotQueue[l] = slotQueue[m] => l = m
        BY <1>1 DEF SlotInv, QueueOfWaiters
      <4>2. j \in Int /\ k \in Int
        BY <3>2, <3>3
      <4>3. CASE j < i /\ k < i
        BY <3>4, <3>7, <4>1, <4>3
      <4>4. CASE ~(j < i) /\ ~(k < i)
        <5>1. j + 1 = k + 1
          BY <3>4, <3>7, <4>1, <4>4
        <5> QED
          BY <4>2, <5>1
      <4>5. CASE j < i /\ ~(k < i)
        <5>1. j = k + 1
          BY <3>4, <3>7, <4>1, <4>5
        <5> QED
          BY <4>2, <4>5, <5>1
      <4>6. CASE ~(j < i) /\ k < i
        <5>1. k = j + 1
          BY <3>4, <3>7, <4>1, <4>6
        <5> QED
          BY <4>2, <4>6, <5>1
      <4> QED
        BY <4>3, <4>4, <4>5, <4>6
    <3>8. QueueOfWaiters'
      BY <3>6, <3>7 DEF QueueOfWaiters
    <3>9. {a} \in SUBSET Agents
      OBVIOUS
    <3> QED
      BY <1>1, <1>3, <1>4, <3>2, <3>3, <3>8, <3>9, ReturnStep
  <2> QED
    BY <1>5, <2>1, <2>2
<1>11. StrandedKept
  BY DEF StrandedKept, Stranded, AbortCall
<1>7. SubShape'
  BY <1>1, <1>3, <1>5, <1>6 DEF SubShape
<1>8. \A b \in Agents \ {a} : call'[b] = call[b] /\ result'[b] = result[b]
                              /\ (b \in foregroundAgents' <=> b \in foregroundAgents)
  BY <1>1, <1>3, <1>5 DEF SubShape
<1>9. \A b \in Agents \ {a} : AgentInv(b)'
  BY <1>1, <1>3, <1>8, <1>11, AgentKept DEF AgentsInv, StrandedKept
<1>10. AgentInv(a)'
  <2>1. AgentInv(a)
    BY <1>1 DEF AgentsInv
  <2>2. /\ call'[a] = "returned" /\ result'[a] \in {"failed", "moved"}
        /\ call[a] = "waiting" => result'[a] = "failed" /\ runtime[a] = "none"
        /\ a \notin foregroundAgents'
    BY <1>1, <1>3, <1>5, <2>1 DEF SubShape, AgentInv, AgentFollowed
  <2>3. Completions(a)' = {}
    BY <1>3, <1>5, <2>1 DEF Completions, AgentInv, AgentFollowed
  <2>4. OutcomeTold(a)' \/ a \in destroyed'
    BY <1>3, <1>5, <1>11, <2>1, <2>2 DEF OutcomeTold, AgentInv, AgentFollowed, StrandedKept
  <2>5. AgentFollowed(a)'
    BY <1>3, <1>5, <1>11, <2>1, <2>2, <2>3 DEF AgentInv, AgentFollowed, Managed, StrandedKept
  <2> QED
    BY <2>4, <2>5 DEF AgentInv
<1> QED
  BY <1>2, <1>6, <1>7, <1>9, <1>10 DEF AgentsInv

\* The shortcut that moves the foreground agents.
LEMMA MoveToBgStep ==
  ASSUME CoreInv, MoveToBg
  PROVE  CoreInv'
<1> DEFINE moved == {a \in agents \cap foregroundAgents : status[a] \notin Final}
           S == {a \in Agents : a \in moved /\ call[a] = "foreground"}
<1>1. SubShape /\ SlotInv /\ AgentsInv
  BY DEF CoreInv
<1>2. (CoreInv <=> SubShape /\ SlotInv /\ AgentsInv)'
  BY DEF CoreInv
<1>3. /\ foregroundAgents' = foregroundAgents \ moved
      /\ call' = [a \in Agents |-> IF a \in moved /\ call[a] = "foreground"
                                   THEN "returned" ELSE call[a]]
      /\ result' = [a \in Agents |-> IF a \in moved /\ call[a] = "foreground"
                                     THEN "moved" ELSE result[a]]
      /\ UNCHANGED <<runtime, activeSlots, slotQueue, agents, completedAgents, completionNotified,
                     messages, graceful, destroyed, shutdowns>>
  BY DEF MoveToBg, slotVars, ghostVars
<1>4. moved \subseteq agents \cap foregroundAgents
  OBVIOUS
<1> HIDE DEF moved
<1>5. call' = [a \in Agents |-> IF a \in S THEN "returned" ELSE call[a]]
  BY <1>3
<1>6. SlotInv'
  <2>1. S \in SUBSET Agents /\ \A a \in S : call[a] # "waiting"
    OBVIOUS
  <2> HIDE DEF S
  <2> QED
    BY <1>1, <1>3, <1>5, <2>1, ReturnStep
<1>9. StrandedKept
  BY DEF StrandedKept, Stranded, MoveToBg
<1>7. SubShape'
  BY <1>1, <1>3 DEF SubShape
<1>8. ASSUME NEW a \in Agents PROVE AgentInv(a)'
  <2>1. AgentInv(a)
    BY <1>1 DEF AgentsInv
  <2>2. Completions(a)' = Completions(a) /\ Managed' = Managed
    BY <1>3 DEF Completions, Managed
  <2>3. CASE a \in moved
    <3>1. a \in agents /\ a \in foregroundAgents /\ a \notin foregroundAgents'
      BY <1>3, <1>4, <2>3
    <3>2. AgentFollowed(a)'
      BY <1>3, <1>9, <2>1, <2>2, <2>3, <3>1 DEF AgentInv, AgentFollowed, Managed, StrandedKept
    <3> QED
      BY <1>3, <3>1, <3>2 DEF AgentInv, OutcomeTold
  <2>4. CASE a \notin moved
    BY <1>3, <1>9, <2>1, <2>4, AgentKept DEF StrandedKept
  <2> QED
    BY <2>3, <2>4
<1> QED
  BY <1>2, <1>6, <1>7, <1>8 DEF AgentsInv

\* The timer of scheduleRemoval(): what is shown as completed goes.
LEMMA RemovalStep ==
  ASSUME CoreInv, NEW a \in Agents, RemovalFires(a)
  PROVE  CoreInv'
<1>1. SubShape /\ SlotInv /\ AgentsInv
  BY DEF CoreInv
<1>2. (CoreInv <=> SubShape /\ SlotInv /\ AgentsInv)'
  BY DEF CoreInv
<1>3. /\ completedAgents' = completedAgents \ {a}
      /\ completionNotified' = completionNotified \ {a}
      /\ UNCHANGED <<call, result, runtime, activeSlots, slotQueue, agents, foregroundAgents,
                     messages, graceful, destroyed, shutdowns>>
  BY DEF RemovalFires, slotVars, ghostVars
<1>4. SlotInv' /\ SubShape'
  BY <1>1, <1>3 DEF SlotInv, SlotsRespected, QueueOfWaiters, SubShape
<1>6. StrandedKept
  BY DEF StrandedKept, Stranded, RemovalFires
<1>5. ASSUME NEW b \in Agents PROVE AgentInv(b)'
  <2>1. AgentInv(b)
    BY <1>1 DEF AgentsInv
  <2>2. Completions(b)' = Completions(b)
    BY <1>3 DEF Completions
  <2>3. CASE b # a
    BY <1>3, <1>6, <2>1, <2>3, AgentKept DEF StrandedKept
  <2>4. CASE b = a
    <3>1. AgentFollowed(b)'
      BY <1>3, <1>6, <2>1, <2>2, <2>4 DEF AgentInv, AgentFollowed, Managed, StrandedKept
    <3>2. OutcomeTold(b) => OutcomeTold(b)'
      BY <1>3, <1>6 DEF OutcomeTold, StrandedKept
    <3> QED
      BY <1>3, <2>1, <3>1, <3>2 DEF AgentInv
  <2> QED
    BY <2>3, <2>4
<1> QED
  BY <1>2, <1>4, <1>5 DEF AgentsInv

\* destroyAll(): the manager drops every agent and resets the pool.
LEMMA DestroyAllStep ==
  ASSUME CoreInv, DestroyAll
  PROVE  CoreInv'
<1> DEFINE settled == {a \in Agents : /\ a \in Managed /\ runtime[a] = "inprocess"
                                      /\ status[a] \notin Final /\ call[a] = "foreground"}
<1>1. SubShape /\ SlotInv /\ AgentsInv
  BY DEF CoreInv
<1>2. (CoreInv <=> SubShape /\ SlotInv /\ AgentsInv)'
  BY DEF CoreInv
<1>3. /\ shutdowns' = shutdowns + 1
      /\ agents' = {} /\ completedAgents' = {}
      /\ completionNotified' = {} /\ foregroundAgents' = {}
      /\ slotQueue' = <<>>
      /\ activeSlots' = 0 - Cardinality(settled)
      /\ call' = [a \in Agents |-> IF a \in settled THEN "returned" ELSE call[a]]
      /\ result' = [a \in Agents |->
           IF a \notin settled THEN result[a]
           ELSE IF status[a] = "idle" THEN "done" ELSE "failed"]
      /\ destroyed' = destroyed \cup Managed
      /\ UNCHANGED <<runtime, messages, graceful>>
  <2>1. settled = {a \in Agents :
                     /\ a \in Managed /\ runtime[a] = "inprocess" /\ status[a] \notin Final
                     /\ call[a] = "foreground"}
    OBVIOUS
  <2> HIDE DEF settled
  <2> QED
    BY <2>1 DEF DestroyAll
<1>4. settled \in SUBSET Agents /\ \A a \in settled : call[a] = "foreground" /\ a \in Managed
  OBVIOUS
<1> HIDE DEF settled
<1>5. Cardinality(settled) \in Nat
  BY <1>4, HoldersCount
<1>6. SubShape'
  BY <1>1, <1>3, <1>5 DEF SubShape
<1>7. SlotInv'
  <2>1. shutdowns' # 0
    BY <1>1, <1>3 DEF SubShape
  <2>2. Len(slotQueue') = 0
    BY <1>3
  <2> QED
    BY <2>1, <2>2 DEF SlotInv, SlotsRespected, QueueOfWaiters
<1>9. StrandedKept
  BY DEF StrandedKept, Stranded, DestroyAll
<1>8. ASSUME NEW a \in Agents PROVE AgentInv(a)'
  <2>1. AgentInv(a)
    BY <1>1 DEF AgentsInv
  <2>2. Completions(a)' = Completions(a) /\ Managed' = {}
    BY <1>3 DEF Completions, Managed
  <2>3. CASE a \in settled
    <3>1. call[a] = "foreground" /\ a \in Managed /\ call'[a] = "returned"
      BY <1>3, <1>4, <2>3
    <3> QED
      BY <1>3, <1>9, <2>1, <2>2, <3>1 DEF AgentInv, AgentFollowed, StrandedKept
  <2>4. CASE a \notin settled
    <3>1. call'[a] = call[a] /\ result'[a] = result[a]
      BY <1>3, <2>4
    <3>2. AgentFollowed(a)'
      BY <1>3, <1>9, <2>1, <2>2, <3>1 DEF AgentInv, AgentFollowed, Managed, StrandedKept
    <3>3. a \notin destroyed' => OutcomeTold(a)'
      BY <1>3, <1>9, <2>1, <3>1 DEF AgentInv, OutcomeTold, Managed, StrandedKept
    <3> QED
      BY <3>2, <3>3 DEF AgentInv
  <2> QED
    BY <2>3, <2>4
<1> QED
  BY <1>2, <1>6, <1>7, <1>8 DEF AgentsInv

\* stop() of a managed agent.
LEMMA StopStep ==
  ASSUME CoreInv, StartsInv, NEW a \in Agents, Stop(a)
  PROVE  CoreInv'
<1>1. UNCHANGED <<runtime, destroyed, shutdowns>> /\ StrandedKept
  BY DEF Stop, StrandedKept, Stranded
<1>2. \/ Silently(a, status[a]) /\ UNCHANGED graceful
      \/ /\ status[a] \notin Final
         /\ \/ Report(a, "graceful", "completed") /\ graceful' = graceful \cup {a}
            \/ Report(a, "aborted", "aborted") /\ UNCHANGED graceful
  BY DEF Stop, Final
<1>3. CASE Silently(a, status[a]) /\ UNCHANGED graceful
  <2>1. UNCHANGED relevantVars
    BY <1>1, <1>3 DEF relevantVars, Silently, slotVars, managerVars
  <2> QED
    BY <1>1, <2>1, Unheard
<1>4. CASE status[a] \notin Final
  <2>1. ~Stranded(a)
    BY <1>4 DEF StartsInv, AgentStarts, Final
  <2>2. CASE Report(a, "graceful", "completed") /\ graceful' = graceful \cup {a}
    BY <1>1, <2>1, <2>2, ReportStep
  <2>3. CASE Report(a, "aborted", "aborted") /\ UNCHANGED graceful
    BY <1>1, <2>1, <2>3, ReportStep
  <2> QED
    BY <1>2, <1>3, <2>2, <2>3
<1> QED
  BY <1>2, <1>3, <1>4

\* What the child, the timers and start() do.
ChildActs(a) ==
  \/ SpawnProcess(a) \/ SpawnProcessFails(a) \/ SendTask(a) \/ AcceptTask(a)
  \/ StartFails(a) \/ PromptSettles(a) \/ TurnStart(a) \/ TurnEnd(a) \/ AgentEnd(a)
  \/ RescueStart(a) \/ RescueEnd(a) \/ CompletionTimeout(a) \/ PromptRejected(a)
  \/ ActivityTimeout(a) \/ Close(a) \/ KillFires(a) \/ SendMessage(a)

\* The manager hears of the end of an agent whose start() did not reject, or
\* nothing that matters to it changes.
LEMMA ChildStep ==
  ASSUME CoreInv, StartsInv, NEW a \in Agents, ChildActs(a)
  PROVE  CoreInv'
<1>1. UNCHANGED <<runtime, graceful, destroyed, shutdowns>>
  BY DEF ChildActs, SpawnProcess, SpawnProcessFails, SendTask, AcceptTask, StartFails,
         PromptSettles, TurnStart, TurnEnd, AgentEnd, RescueStart, RescueEnd, CompletionTimeout,
         PromptRejected, ActivityTimeout, Close, KillFires, SendMessage, ghostVars
<1>2. StrandedKept
  <2>1. phase \in [Agents -> Phases]
    BY DEF StartsInv, StartShape
  <2>2. \/ phase' = phase
        \/ \E s \in Phases \ {"stranded"} :
             phase[a] # "stranded" /\ phase' = [phase EXCEPT ![a] = s]
    BY <2>1 DEF ChildActs, SpawnProcess, SpawnProcessFails, SendTask, AcceptTask, StartFails,
           PromptSettles, TurnStart, TurnEnd, AgentEnd, RescueStart, RescueEnd,
           CompletionTimeout, PromptRejected, ActivityTimeout, Close, KillFires, SendMessage,
           Phases
  <2> QED
    BY <2>1, <2>2 DEF StrandedKept, Stranded
<1>3. Stranded(a) => status[a] = "error" /\ session[a] = "none" /\ phase[a] = "stranded"
  BY DEF StartsInv, AgentStarts, Stranded
<1>4. \/ UNCHANGED <<call, result, slotVars, managerVars>>
      \/ \E s : Silently(a, s)
      \/ ~Stranded(a) /\ \E kind \in {"completed", "failed"} : \E s : Report(a, kind, s)
  <2>1. CASE \/ SpawnProcess(a) \/ SendTask(a) \/ AcceptTask(a) \/ RescueEnd(a) \/ KillFires(a)
             \/ SendMessage(a)
    BY <2>1 DEF SpawnProcess, SendTask, AcceptTask, RescueEnd, KillFires, SendMessage
  <2>2. CASE TurnStart(a) \/ TurnEnd(a) \/ AgentEnd(a) \/ RescueStart(a)
    BY <2>2 DEF TurnStart, TurnEnd, AgentEnd, RescueStart
  <2>3. CASE SpawnProcessFails(a) \/ StartFails(a)
    BY <1>3, <2>3 DEF SpawnProcessFails, StartFails
  <2>4. CASE PromptSettles(a)
    BY <1>3, <2>4 DEF PromptSettles
  <2>5. CASE CompletionTimeout(a) \/ PromptRejected(a) \/ ActivityTimeout(a)
    BY <1>3, <2>5 DEF CompletionTimeout, PromptRejected, ActivityTimeout, Final
  <2>6. CASE Close(a)
    BY <1>3, <2>6 DEF Close
  <2> QED
    BY <2>1, <2>2, <2>3, <2>4, <2>5, <2>6 DEF ChildActs
<1>5. CASE UNCHANGED <<call, result, slotVars, managerVars>>
  <2>1. UNCHANGED relevantVars
    BY <1>1, <1>5 DEF relevantVars, slotVars, managerVars
  <2> QED
    BY <1>2, <2>1, Unheard
<1>6. CASE \E s : Silently(a, s)
  <2>1. UNCHANGED relevantVars
    BY <1>1, <1>6 DEF relevantVars, Silently, slotVars, managerVars
  <2> QED
    BY <1>2, <2>1, Unheard
<1>7. CASE ~Stranded(a) /\ \E kind \in {"completed", "failed"} : \E s : Report(a, kind, s)
  BY <1>1, <1>2, <1>7, ReportStep
<1> QED
  BY <1>4, <1>5, <1>6, <1>7

\* A start() that rejects: the manager hears of it, a foreground call does not.
LEMMA StartRejectsStep ==
  ASSUME CoreInv, StartsInv, NEW a \in Agents, StartRejects(a)
  PROVE  CoreInv'
<1>1. SubShape /\ SlotInv /\ AgentsInv
  BY DEF CoreInv
<1>2. /\ phase[a] = "resolving" /\ ~Stranded(a)
      /\ UNCHANGED <<runtime, graceful, destroyed, shutdowns>>
      /\ phase' = [phase EXCEPT ![a] = IF status[a] \notin Final /\ call[a] = "foreground"
                                       THEN "stranded" ELSE "started"]
      /\ phase \in [Agents -> Phases]
  BY DEF StartRejects, ghostVars, Stranded, StartsInv, StartShape
<1>3. CASE status[a] \in Final
  <2>1. StrandedKept
    BY <1>2, <1>3 DEF StrandedKept, Stranded
  <2>2. UNCHANGED relevantVars
    BY <1>2, <1>3 DEF relevantVars, Silently, slotVars, managerVars, StartRejects
  <2> QED
    BY <2>1, <2>2, Unheard
<1>4. CASE status[a] \notin Final /\ call[a] # "foreground"
  <2>1. StrandedKept
    BY <1>2, <1>4 DEF StrandedKept, Stranded
  <2>2. Report(a, "failed", "error")
    BY <1>4 DEF StartRejects, Report, Settle
  <2>3. graceful' = IF "failed" = "graceful" THEN graceful \cup {a} ELSE graceful
    BY <1>2
  <2> QED
    BY <1>2, <2>1, <2>2, <2>3, ReportStep
<1>5. CASE status[a] \notin Final /\ call[a] = "foreground"
  <2>1. /\ HandleAgentEvent(a, "failed", "error")
        /\ UNCHANGED <<call, result, activeSlots, slotQueue>>
        /\ Stranded(a)' /\ \A b \in Agents \ {a} : Stranded(b)' <=> Stranded(b)
    BY <1>2, <1>5 DEF StartRejects, slotVars, Stranded
  <2>2. AgentInv(a)
    BY <1>1 DEF AgentsInv
  <2>3. ~Announces(a, "failed") /\ messages' = messages
    <3>1. ~Announces(a, "failed")
      BY <1>2, <1>5, <2>2 DEF Announces, Handles, AgentInv, AgentFollowed
    <3> QED
      BY <2>1, <3>1 DEF HandleAgentEvent
  <2>4. /\ agents' = IF Handles(a, "failed") THEN agents \ {a} ELSE agents
        /\ completedAgents' = IF Handles(a, "failed") THEN completedAgents \cup {a}
                              ELSE completedAgents
        /\ completionNotified' = completionNotified
        /\ foregroundAgents' = IF Handles(a, "failed") THEN foregroundAgents \ {a}
                               ELSE foregroundAgents
    BY <2>1 DEF HandleAgentEvent
  <2>5. SubShape' /\ SlotInv'
    BY <1>1, <1>2, <2>1, <2>3, <2>4
       DEF SubShape, SlotInv, SlotsRespected, QueueOfWaiters
  <2>6. ASSUME NEW b \in Agents \ {a} PROVE AgentInv(b)'
    <3>1. AgentInv(b)
      BY <1>1 DEF AgentsInv
    <3> QED
      BY <1>2, <2>1, <2>3, <2>4, <3>1, AgentKept
  <2>7. AgentInv(a)'
    <3>1. /\ result[a] = "none" /\ Completions(a) = {}
          /\ a \notin destroyed => messages[a] = <<>> /\ a \in agents /\ a \in foregroundAgents
          /\ a \in destroyed => a \notin agents \cup completedAgents \cup foregroundAgents
      BY <1>2, <1>5, <2>2 DEF AgentInv, AgentFollowed, Managed
    <3>2. Completions(a)' = {}
      BY <2>3, <3>1 DEF Completions
    <3>3. a \notin destroyed => Handles(a, "failed")
      BY <3>1 DEF Handles, Managed
    <3>4. a \in destroyed => ~Handles(a, "failed")
      BY <3>1 DEF Handles, Managed
    <3>5. a \notin agents' \cup foregroundAgents'
      BY <2>4, <3>1, <3>3, <3>4
    <3>6. AgentFollowed(a)'
      BY <1>2, <1>5, <2>1, <2>2, <2>3, <2>4, <3>1, <3>2, <3>3, <3>4, <3>5
         DEF AgentInv, AgentFollowed, Managed
    <3>7. OutcomeTold(a)'
      BY <2>1 DEF OutcomeTold
    <3> QED
      BY <3>6, <3>7 DEF AgentInv
  <2> QED
    BY <2>5, <2>6, <2>7 DEF CoreInv, AgentsInv
<1> QED
  BY <1>3, <1>4, <1>5

-----------------------------------------------------------------------------
(* Subagents: where start() is *)

Early == {"none", "waiting", "granted"}

\* A step that changes the start of one agent.
LEMMA OwnStart ==
  ASSUME StartsInv, NEW a \in Agents, NEW p \in Phases, NEW t \in Statuses, NEW n \in Sessions,
         phase' = [phase EXCEPT ![a] = p], status' = [status EXCEPT ![a] = t],
         session' = [session EXCEPT ![a] = n],
         \A b \in Agents \ {a} : b \in activityTimer' => b \in activityTimer,
         \A b \in Agents \ {a} : b \in agents' => b \in agents,
         \A b \in Agents \ {a} : call'[b] \in Early => call[b] \in Early,
         AgentStarts(a)'
  PROVE  StartsInv'
<1>1. StartShape'
  BY DEF StartsInv, StartShape
<1>2. ASSUME NEW b \in Agents \ {a} PROVE AgentStarts(b)'
  <2>1. phase'[b] = phase[b] /\ status'[b] = status[b] /\ session'[b] = session[b]
    BY DEF StartsInv, StartShape
  <2>2. AgentStarts(b)
    BY DEF StartsInv
  <2> QED
    BY <2>1, <2>2 DEF AgentStarts, Stranded, Early
<1> QED
  BY <1>1, <1>2 DEF StartsInv

\* A call that is granted a slot was waiting for it; one that ends has begun.
LEMMA CallsOfSettle ==
  ASSUME CoreInv, NEW a \in Agents, NEW kind, Settle(a, kind), UNCHANGED shutdowns
  PROVE  /\ \A b \in Agents : call'[b] \in Early => call[b] \in Early
<1>1. CASE call[a] = "foreground"
  <2>1. PICK res \in {"done", "failed"} : ReleaseSlot(a, res)
    BY <1>1 DEF Settle
  <2> QED
    BY <1>1, <2>1, ReleaseStep DEF CoreInv, Early
<1>2. CASE call[a] # "foreground"
  BY <1>2 DEF Settle
<1> QED
  BY <1>1, <1>2

\* What an event leaves of its agent among the working ones.
LEMMA AgentsOfEvent ==
  ASSUME CoreInv, NEW a \in Agents, NEW kind, NEW s, HandleAgentEvent(a, kind, s)
  PROVE  /\ agents' \subseteq agents /\ a \notin agents'
         /\ \E t \in {"completed", s} : status' = [status EXCEPT ![a] = t]
<1>1. a \in agents => a \notin completionNotified
  BY DEF CoreInv, AgentsInv, AgentInv, AgentFollowed
<1> QED
  BY <1>1 DEF HandleAgentEvent, Handles, Managed

\* The events of an agent: its status, and who else is concerned.
LEMMA Heard ==
  ASSUME CoreInv, StartsInv, NEW a \in Agents, NEW kind, NEW s \in Statuses, UNCHANGED shutdowns,
         \/ Report(a, kind, s)
         \/ Silently(a, s) /\ (s \in Final => status[a] \in Final)
         \/ HandleAgentEvent(a, kind, s) /\ UNCHANGED call
  PROVE  /\ \E t \in {"completed", s} : status' = [status EXCEPT ![a] = t] /\ status'[a] = t
         /\ agents' \subseteq agents
         /\ a \in agents' => status'[a] \notin Final
         /\ \A b \in Agents : call'[b] \in Early => call[b] \in Early
<1>1. status \in [Agents -> Statuses] /\ AgentStarts(a)
  BY DEF StartsInv, StartShape
<1>2. CASE Report(a, kind, s)
  BY <1>1, <1>2, CallsOfSettle, AgentsOfEvent DEF Report
<1>3. CASE Silently(a, s) /\ (s \in Final => status[a] \in Final)
  BY <1>1, <1>3 DEF Silently, managerVars, AgentStarts
<1>4. CASE HandleAgentEvent(a, kind, s) /\ UNCHANGED call
  BY <1>1, <1>4, AgentsOfEvent
<1> QED
  BY <1>2, <1>3, <1>4

\* There is no child in these phases.
NoChild == {"none", "resolving", "stranded"}

\* A step of start(), of the child or of a timer, as far as the child goes.
ChildMoves(a) ==
  /\ phase' = [phase EXCEPT ![a] = phase'[a]] /\ phase'[a] \in Phases
  /\ session' = [session EXCEPT ![a] = session'[a]] /\ session'[a] \in Sessions
  /\ phase'[a] # phase[a] => phase[a] # "none" /\ phase'[a] \notin NoChild
  /\ session'[a] # session[a] => phase'[a] \notin NoChild
  /\ \A b \in Agents \ {a} : b \in activityTimer' => b \in activityTimer
  /\ a \in activityTimer' => a \in activityTimer \/ phase'[a] \notin NoChild

\* Such a step, as far as the outcome of the agent goes.
OutcomeMoves(a) ==
  \/ UNCHANGED <<call, agents, status>>
  \/ \E kind : \E s \in Statuses :
       \/ Report(a, kind, s) /\ ~Stranded(a)
       \/ Silently(a, s) /\ (s \in Final => s = status[a]) /\ (Stranded(a) => s = status[a])

LEMMA ChildKeepsStart ==
  ASSUME CoreInv, StartsInv, NEW a \in Agents, UNCHANGED shutdowns,
         ChildMoves(a), OutcomeMoves(a)
  PROVE  StartsInv'
<1>1. AgentStarts(a) /\ StartShape
  BY DEF StartsInv
<1>2. /\ status' = [status EXCEPT ![a] = status'[a]] /\ status'[a] \in Statuses
      /\ agents' \subseteq agents
      /\ a \in agents' => status'[a] \notin Final
      /\ \A b \in Agents : call'[b] \in Early => call[b] \in Early
      /\ Stranded(a) => status'[a] = status[a]
  <2>1. CASE UNCHANGED <<call, agents, status>>
    BY <1>1, <2>1 DEF StartShape, AgentStarts
  <2>2. ASSUME NEW kind, NEW s \in Statuses,
               \/ Report(a, kind, s) /\ ~Stranded(a)
               \/ Silently(a, s) /\ (s \in Final => s = status[a])
                  /\ (Stranded(a) => s = status[a])
        PROVE  /\ status' = [status EXCEPT ![a] = status'[a]] /\ status'[a] \in Statuses
               /\ agents' \subseteq agents
               /\ a \in agents' => status'[a] \notin Final
               /\ \A b \in Agents : call'[b] \in Early => call[b] \in Early
               /\ Stranded(a) => status'[a] = status[a]
    <3>1. /\ \E t \in {"completed", s} : status' = [status EXCEPT ![a] = t] /\ status'[a] = t
          /\ agents' \subseteq agents
          /\ a \in agents' => status'[a] \notin Final
          /\ \A b \in Agents : call'[b] \in Early => call[b] \in Early
      BY <2>2, Heard
    <3>2. Stranded(a) => status'[a] = status[a]
      BY <1>1, <2>2 DEF Silently, StartShape
    <3>3. "completed" \in Statuses
      BY DEF Statuses, Final
    <3> QED
      BY <3>1, <3>2, <3>3
  <2> QED
    BY <2>1, <2>2 DEF OutcomeMoves
<1>3. AgentStarts(a)'
  <2>1. phase'[a] \in NoChild => session'[a] = "none" /\ a \notin activityTimer'
    BY <1>1 DEF ChildMoves, AgentStarts, NoChild
  <2>2. call'[a] \in Early => phase'[a] = "none"
    BY <1>1, <1>2 DEF ChildMoves, AgentStarts, Early
  <2>3. Stranded(a)' => status'[a] = "error"
    BY <1>1, <1>2 DEF ChildMoves, AgentStarts, Stranded, NoChild
  <2> QED
    BY <1>2, <2>1, <2>2, <2>3 DEF AgentStarts, Early, NoChild
<1> QED
  BY <1>2, <1>3, OwnStart DEF ChildMoves

LEMMA ChildStarts ==
  ASSUME CoreInv, StartsInv, NEW a \in Agents, ChildActs(a)
  PROVE  StartsInv'
<1>1. /\ phase \in [Agents -> Phases] /\ status \in [Agents -> Statuses]
      /\ session \in [Agents -> Sessions]
      /\ phase[a] \in NoChild => session[a] = "none" /\ a \notin activityTimer
      /\ Stranded(a) => status[a] = "error" /\ phase[a] = "stranded" /\ session[a] = "none"
  BY DEF StartsInv, StartShape, AgentStarts, NoChild, Stranded
<1>2. UNCHANGED shutdowns
  BY DEF ChildActs, SpawnProcess, SpawnProcessFails, SendTask, AcceptTask, StartFails,
         PromptSettles, TurnStart, TurnEnd, AgentEnd, RescueStart, RescueEnd, CompletionTimeout,
         PromptRejected, ActivityTimeout, Close, KillFires, SendMessage, ghostVars
<1>3. CASE SpawnProcess(a) \/ SpawnProcessFails(a)
  <2>1. ChildMoves(a)
    BY <1>1, <1>3 DEF SpawnProcess, SpawnProcessFails, ChildMoves, NoChild, Phases, Sessions,
       timerVars
  <2>2. OutcomeMoves(a)
    BY <1>1, <1>3 DEF SpawnProcess, SpawnProcessFails, OutcomeMoves, managerVars, Statuses, Final
  <2> QED
    BY <1>2, <2>1, <2>2, ChildKeepsStart
<1>4. CASE SendTask(a) \/ AcceptTask(a)
  <2>1. ChildMoves(a)
    BY <1>1, <1>4 DEF SendTask, AcceptTask, ChildMoves, NoChild, Phases, Sessions,
       timerVars, childVars
  <2>2. OutcomeMoves(a)
    BY <1>1, <1>4 DEF SendTask, AcceptTask, OutcomeMoves, managerVars
  <2> QED
    BY <1>2, <2>1, <2>2, ChildKeepsStart
<1>5. CASE StartFails(a)
  <2>1. ChildMoves(a)
    BY <1>1, <1>5 DEF StartFails, ChildMoves, NoChild, Phases, Sessions, timerVars, childVars
  <2>2. OutcomeMoves(a)
    BY <1>1, <1>5 DEF StartFails, OutcomeMoves, Statuses, Final
  <2> QED
    BY <1>2, <2>1, <2>2, ChildKeepsStart
<1>6. CASE PromptSettles(a)
  <2>1. ChildMoves(a)
    BY <1>1, <1>6 DEF PromptSettles, ChildMoves, NoChild, Phases, Sessions
  <2>2. OutcomeMoves(a)
    BY <1>1, <1>6 DEF PromptSettles, OutcomeMoves, Statuses, Final
  <2> QED
    BY <1>2, <2>1, <2>2, ChildKeepsStart
<1>7. CASE TurnStart(a) \/ TurnEnd(a) \/ AgentEnd(a) \/ RescueStart(a)
  <2>1. ChildMoves(a)
    BY <1>1, <1>7 DEF TurnStart, TurnEnd, AgentEnd, RescueStart, ChildMoves, NoChild, Sessions,
       timerVars
  <2>2. OutcomeMoves(a)
    BY <1>1, <1>7 DEF TurnStart, TurnEnd, AgentEnd, RescueStart, OutcomeMoves, Statuses, Final
  <2> QED
    BY <1>2, <2>1, <2>2, ChildKeepsStart
<1>8. CASE RescueEnd(a) \/ KillFires(a) \/ SendMessage(a)
  <2>1. ChildMoves(a)
    BY <1>1, <1>8 DEF RescueEnd, KillFires, SendMessage, ChildMoves, NoChild, Sessions, timerVars
  <2>2. OutcomeMoves(a)
    BY <1>8 DEF RescueEnd, KillFires, SendMessage, OutcomeMoves, managerVars
  <2> QED
    BY <1>2, <2>1, <2>2, ChildKeepsStart
<1>9. CASE CompletionTimeout(a) \/ PromptRejected(a) \/ ActivityTimeout(a)
  <2>1. ChildMoves(a)
    BY <1>1, <1>9 DEF CompletionTimeout, PromptRejected, ActivityTimeout, ChildMoves, NoChild,
       Sessions, childVars
  <2>2. status[a] \in Statuses /\ "error" \in Statuses
    BY <1>1 DEF Statuses, Final
  <2>3. OutcomeMoves(a)
    BY <1>1, <1>9, <2>2 DEF CompletionTimeout, PromptRejected, ActivityTimeout, OutcomeMoves, Final
  <2> QED
    BY <1>2, <2>1, <2>3, ChildKeepsStart
<1>10. CASE Close(a)
  <2>1. ChildMoves(a)
    BY <1>1, <1>10 DEF Close, ChildMoves, NoChild, Phases, Sessions
  <2>2. ~Stranded(a) /\ {"aborted", "error", "completed"} \subseteq Statuses
    BY <1>1, <1>10 DEF Close, Statuses, Final
  <2>3. \/ Silently(a, status[a])
        \/ Report(a, "failed", "error") \/ Report(a, "completed", "completed")
    BY <1>10 DEF Close
  <2>4. OutcomeMoves(a)
    BY <1>1, <2>2, <2>3 DEF OutcomeMoves
  <2> QED
    BY <1>2, <2>1, <2>4, ChildKeepsStart
<1> QED
  BY <1>3, <1>4, <1>5, <1>6, <1>7, <1>8, <1>9, <1>10 DEF ChildActs

\* The calls, the user and a shutdown.
LEMMA OtherStarts ==
  ASSUME CoreInv, StartsInv,
         \/ MoveToBg \/ DestroyAll
         \/ \E a \in Agents : \/ SpawnAgent(a) \/ SpawnThrows(a) \/ Spawn(a) \/ AbortCall(a)
                              \/ Stop(a) \/ RemovalFires(a) \/ StartRejects(a)
  PROVE  StartsInv'
<1>1. /\ phase \in [Agents -> Phases] /\ status \in [Agents -> Statuses]
      /\ session \in [Agents -> Sessions] /\ call \in [Agents -> Early \cup {"foreground", "returned"}]
      /\ StartShape
  BY DEF CoreInv, StartsInv, StartShape, SubShape, Early
<1>2. CASE MoveToBg
  <2>1. /\ StartShape' /\ UNCHANGED <<phase, session, status, activityTimer, agents>>
    BY <1>1, <1>2 DEF MoveToBg, StartShape, childVars, timerVars
  <2>2. \A b \in Agents : call'[b] \in Early => call[b] \in Early
    BY <1>2 DEF MoveToBg, Early
  <2> QED
    BY <2>1, <2>2 DEF StartsInv, AgentStarts, Stranded, Early
<1>3. CASE DestroyAll
  <2>1. /\ agents' = {} /\ activityTimer' \subseteq activityTimer
        /\ \A b \in Agents :
             /\ call'[b] \in Early => call[b] \in Early
             /\ session'[b] \in {session[b], "gone"} /\ (session[b] = "none" => session'[b] = "none")
             /\ phase'[b] = IF b \in Managed /\ runtime[b] = "subprocess" /\ phase[b] = "prompting"
                            THEN "rejected" ELSE phase[b]
             /\ status'[b] \in {status[b], "aborted", "completed"}
             /\ status[b] = "error" => status'[b] = "error"
    BY <1>1, <1>3 DEF DestroyAll, Early, Final
  <2>2. StartShape'
    <3>1. /\ phase' = [b \in Agents |-> phase'[b]] /\ session' = [b \in Agents |-> session'[b]]
          /\ status' = [b \in Agents |-> status'[b]]
      BY <1>3 DEF DestroyAll
    <3> QED
      BY <1>1, <2>1, <3>1 DEF StartShape, Phases, Sessions, Statuses, Final
  <2>3. ASSUME NEW b \in Agents PROVE AgentStarts(b)'
    <3>1. AgentStarts(b)
      BY DEF StartsInv
    <3> QED
      BY <2>1, <3>1 DEF AgentStarts, Stranded, Early
  <2> QED
    BY <2>2, <2>3 DEF StartsInv
<1>4. ASSUME NEW a \in Agents, SpawnAgent(a) \/ SpawnThrows(a) \/ AbortCall(a) \/ RemovalFires(a)
      PROVE  StartsInv'
  <2>1. UNCHANGED <<phase, session, status, activityTimer, agents>>
    BY <1>4 DEF SpawnAgent, SpawnThrows, AbortCall, RemovalFires, childVars, timerVars, managerVars
  <2>2. \A b \in Agents : call'[b] \in Early => call[b] \in Early
    BY <1>1, <1>4 DEF SpawnAgent, SpawnThrows, AbortCall, RemovalFires, Early
  <2> QED
    BY <2>1, <2>2 DEF StartsInv, StartShape, AgentStarts, Stranded, Early
<1>5. ASSUME NEW a \in Agents, Spawn(a) PROVE StartsInv'
  <2>1. AgentStarts(a) /\ phase[a] = "none"
    BY <1>5 DEF StartsInv, AgentStarts, Spawn
  <2>2. /\ phase' = [phase EXCEPT ![a] = "resolving"]
        /\ status' = [status EXCEPT ![a] = "working"]
        /\ session' = [session EXCEPT ![a] = "none"]
        /\ activityTimer' = activityTimer /\ agents' = agents \cup {a}
        /\ "resolving" \in Phases /\ "working" \in Statuses /\ "none" \in Sessions
    BY <1>1, <1>5, <2>1 DEF Spawn, childVars, timerVars, AgentStarts, Phases, Statuses, Sessions
  <2>3. call'[a] \notin Early /\ \A b \in Agents : call'[b] \in Early => call[b] \in Early
    <3>1. CASE ReleaseSlot(a, "spawned")
      BY <1>5, <3>1, ReleaseStep DEF CoreInv, Early, Spawn, ghostVars
    <3>2. CASE call' = [call EXCEPT ![a] = "foreground"]
      BY <1>1, <3>2 DEF Early
    <3> QED
      BY <1>5, <3>1, <3>2 DEF Spawn
  <2>4. AgentStarts(a)'
    BY <1>1, <2>1, <2>2, <2>3 DEF AgentStarts, Stranded, Early, Final
  <2> QED
    BY <2>2, <2>3, <2>4, OwnStart
<1>6. ASSUME NEW a \in Agents, Stop(a) PROVE StartsInv'
  <2>1. AgentStarts(a)
    BY DEF StartsInv
  <2>2. /\ phase' = phase /\ activityTimer' \subseteq activityTimer /\ UNCHANGED shutdowns
        /\ session' = [session EXCEPT ![a] = session'[a]] /\ session'[a] \in Sessions
        /\ session[a] = "none" => session'[a] = "none"
    BY <1>1, <1>6 DEF Stop, Sessions
  <2>3. \/ Silently(a, status[a])
        \/ status[a] \notin Final /\ (Report(a, "graceful", "completed") \/ Report(a, "aborted", "aborted"))
    BY <1>6 DEF Stop, Final
  <2>4. /\ status' = [status EXCEPT ![a] = status'[a]] /\ status'[a] \in Statuses
        /\ agents' \subseteq agents
        /\ a \in agents' => status'[a] \notin Final
        /\ \A b \in Agents : call'[b] \in Early => call[b] \in Early
        /\ Stranded(a) => status'[a] = status[a]
    <3>1. {"completed", "aborted", status[a]} \subseteq Statuses /\ (Stranded(a) => status[a] \in Final)
      BY <1>1, <2>1 DEF Statuses, Final, AgentStarts
    <3>2. CASE Silently(a, status[a])
      BY <1>1, <2>1, <3>2 DEF Silently, managerVars, AgentStarts
    <3>3. CASE status[a] \notin Final /\ Report(a, "graceful", "completed")
      BY <2>2, <3>1, <3>3, Heard
    <3>4. CASE status[a] \notin Final /\ Report(a, "aborted", "aborted")
      BY <2>2, <3>1, <3>4, Heard
    <3> QED
      BY <2>3, <3>2, <3>3, <3>4
  <2>5. AgentStarts(a)'
    BY <2>1, <2>2, <2>4 DEF AgentStarts, Stranded, Early
  <2>6. phase' = [phase EXCEPT ![a] = phase[a]] /\ phase[a] \in Phases
    BY <1>1, <2>2
  <2> QED
    BY <2>2, <2>4, <2>5, <2>6, OwnStart
<1>7. ASSUME NEW a \in Agents, StartRejects(a) PROVE StartsInv'
  <2>1. AgentStarts(a) /\ phase[a] = "resolving"
    BY <1>7 DEF StartsInv, StartRejects
  <2>2. /\ phase' = [phase EXCEPT ![a] = phase'[a]]
        /\ phase'[a] = IF status[a] \notin Final /\ call[a] = "foreground" THEN "stranded" ELSE "started"
        /\ phase'[a] \in Phases
        /\ session' = [session EXCEPT ![a] = "none"] /\ "none" \in Sessions
        /\ activityTimer' = activityTimer /\ UNCHANGED shutdowns
    BY <1>1, <1>7, <2>1 DEF StartRejects, Phases, Sessions, AgentStarts, timerVars, childVars, ghostVars
  <2>3. /\ status' = [status EXCEPT ![a] = status'[a]] /\ status'[a] \in Statuses
        /\ agents' \subseteq agents
        /\ a \in agents' => status'[a] \notin Final
        /\ call' = call
        /\ status[a] \notin Final => status'[a] = "error"
    <3>1. CASE status[a] \in Final
      BY <1>1, <1>7, <2>1, <3>1 DEF StartRejects, Silently, managerVars, AgentStarts
    <3>2. CASE status[a] \notin Final
      <4>1. HandleAgentEvent(a, "failed", "error") /\ call' = call
        BY <1>7, <3>2 DEF StartRejects
      <4>2. status' = [status EXCEPT ![a] = "error"]
        BY <4>1 DEF HandleAgentEvent
      <4>3. agents' \subseteq agents /\ a \notin agents'
        BY <4>1, AgentsOfEvent
      <4> QED
        BY <1>1, <4>1, <4>2, <4>3 DEF Statuses, Final
    <3> QED
      BY <3>1, <3>2
  <2>4. AgentStarts(a)'
    BY <1>1, <2>1, <2>2, <2>3 DEF AgentStarts, Stranded, Early
  <2> QED
    BY <2>2, <2>3, <2>4, OwnStart
<1> QED
  BY <1>2, <1>3, <1>4, <1>5, <1>6, <1>7

-----------------------------------------------------------------------------
(* Subagents: the theorem *)

\* Before the first call nothing is taken and nobody waits.
LEMMA SubInitInv == SubInit => SubInv
<1> SUFFICES ASSUME SubInit PROVE SubShape /\ SlotInv /\ AgentsInv /\ StartsInv
  BY SubInvByParts DEF CoreInv
<1>1. SubShape
  BY DEF SubInit, SubShape
<1>2. SlotInv
  <2>1. Holders = {}
    BY DEF SubInit, Holders
  <2>2. Cardinality(Holders) = 0
    BY <2>1, FS_EmptySet
  <2>3. Len(slotQueue) = 0
    BY DEF SubInit
  <2> QED
    BY <2>2, <2>3, SubAssumption, SlotsByHolders DEF SubInit, SlotInv, QueueOfWaiters
<1>3. ASSUME NEW a \in Agents PROVE AgentInv(a)
  <2>1. Completions(a) = {} /\ Managed = {}
    BY DEF SubInit, Completions, Managed
  <2> QED
    BY <2>1 DEF SubInit, AgentInv, AgentFollowed, OutcomeTold, Stranded
<1>4. StartsInv
  BY DEF SubInit, StartsInv, StartShape, AgentStarts, Stranded, Phases, Statuses, Sessions
<1> QED
  BY <1>1, <1>2, <1>3, <1>4 DEF AgentsInv

\* Every step keeps the invariant.
LEMMA SubNextInv == SubInv /\ [SubNext]_subVars => SubInv'
<1> SUFFICES ASSUME CoreInv, StartsInv, [SubNext]_subVars PROVE CoreInv' /\ StartsInv'
  BY SubInvByParts, PTL
<1>1. CASE Planned
  <2>1. PICK a \in Agents : \/ SpawnAgent(a) \/ Spawn(a) \/ RemovalFires(a)
                            \/ ChildActs(a)
    BY <1>1 DEF Planned, ChildActs
  <2> QED
    BY <2>1, SpawnAgentStep, SpawnStep, ChildStep, RemovalStep, ChildStarts, OtherStarts
<1>2. CASE Disturbance
  <2>1. CASE MoveToBg \/ DestroyAll
    BY <2>1, MoveToBgStep, DestroyAllStep, OtherStarts
  <2>2. ASSUME NEW a \in Agents,
               \/ SpawnThrows(a) \/ StartRejects(a) \/ AbortCall(a) \/ Stop(a)
               \/ ChildActs(a)
        PROVE  CoreInv' /\ StartsInv'
    BY <2>2, SpawnThrowsStep, StartRejectsStep, AbortCallStep, StopStep, ChildStep,
       ChildStarts, OtherStarts
  <2> QED
    BY <1>2, <2>1, <2>2 DEF Disturbance, ChildActs
<1>3. CASE UNCHANGED subVars
  <2>1. UNCHANGED relevantVars /\ StrandedKept
    BY <1>3 DEF subVars, relevantVars, slotVars, managerVars, ghostVars, StrandedKept, Stranded
  <2>2. StartsInv'
    BY <1>3 DEF subVars, slotVars, managerVars, childVars, timerVars, StartsInv, StartShape,
       AgentStarts, Stranded
  <2> QED
    BY <2>1, <2>2, Unheard
<1> QED
  BY <1>1, <1>2, <1>3 DEF SubNext

\* What the invariant says of what is told.
LEMMA SubInvSafe == SubInv => SubagentsSafe
<1> SUFFICES ASSUME SubInv PROVE SubagentsSafe
  OBVIOUS
<1>1. ASSUME NEW a \in Agents \ graceful
      PROVE  Cardinality({i \in DOMAIN messages[a] : messages[a][i] = "completed"})
               + (IF result[a] = "done" THEN 1 ELSE 0) <= 1
  <2>1. /\ \A i, j \in Completions(a) : i = j
        /\ Completions(a) # {} => result[a] # "done"
    BY DEF SubInv, AgentFollowed
  <2>2. CASE Completions(a) = {}
    <3>1. Cardinality(Completions(a)) = 0
      BY <2>2, FS_EmptySet
    <3> QED
      BY <3>1 DEF Completions
  <2>3. CASE Completions(a) # {}
    <3>1. PICK i : Completions(a) = {i}
      BY <2>1, <2>3
    <3>2. Cardinality(Completions(a)) = 1
      BY <3>1, FS_Singleton
    <3> QED
      BY <2>1, <2>3, <3>2 DEF Completions
  <2> QED
    BY <2>2, <2>3
<1>2. ToldDoneOnce
  BY <1>1 DEF ToldDoneOnce
<1> QED
  BY <1>2 DEF SubInv, SubagentsSafe

\* For any finite set of calls and any number of slots, turns, shutdowns and
\* disturbances: no slot is lost or given to two calls, an agent that is not
\* dropped leaves the working ones only when its outcome is told, and one that
\* was not stopped while idle is announced as completed once at most
\* (agent-manager.ts, index.ts, the two runtimes).
THEOREM SubagentsSafeAlways == SubSpec => []SubagentsSafe
<1>1. SubInit => SubInv
  BY SubInitInv
<1>2. SubInv /\ [SubNext]_subVars => SubInv'
  BY SubNextInv
<1>3. SubInv => SubagentsSafe
  BY SubInvSafe
<1> QED
  BY <1>1, <1>2, <1>3, PTL DEF SubSpec

-----------------------------------------------------------------------------
(* The composition *)

\* A behaviour of the composition is one of each component.
LEMMA ComponentSteps ==
  [Next]_serviceVars => /\ [PoolNext]_poolVars /\ [BgNext]_bgVars /\ [RingNext]_ringVars
                        /\ [AuthNext]_authVars /\ [LspNext]_lspVars
  BY DEF Next, serviceVars

\* So what is proved of a component holds in the composition.
LEMMA ComponentSpecs == Spec => PoolSpec /\ BgSpec /\ RingSpec /\ AuthSpec /\ LspSpec
<1>1. Init => PoolInit /\ BgInit /\ RingInit /\ AuthInit /\ LspInit
  BY DEF Init
<1> QED
  BY <1>1, ComponentSteps, PTL DEF Spec, PoolSpec, BgSpec, RingSpec, AuthSpec, LspSpec

\* What is started in the background is kept track of, and its output is kept:
\* the processes and the ring buffer of the composition.
THEOREM BackgroundKeptAlways == Spec => []BackgroundKept
<1>1. ProcessesTracked /\ KeepsTheLastLines => BackgroundKept
  BY DEF BackgroundKept
<1> QED
  BY <1>1, ComponentSpecs, ProcessesTrackedAlways, KeepsTheLastLinesAlways, PTL

=============================================================================
