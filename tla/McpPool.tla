------------------------------- MODULE McpPool -------------------------------
(***************************************************************************)
(* The connections of the MCP extension (.pi/extensions/mcp/pool.ts): a    *)
(* client per server, made by the first call that needs it, shared by the  *)
(* calls that follow, closed when it is idle, at a reconnect and at the    *)
(* shutdown.                                                               *)
(*                                                                         *)
(* The entries of two servers share nothing, so this is the entry of one   *)
(* server. Clients are numbered in the order in which they are built.      *)
(* The MCP library is external: connect() succeeds, fails or times out,    *)
(* close() of a child process returns before or after the process is gone  *)
(* (it waits, then sends signals), a closed client fails its calls.        *)
(*                                                                         *)
(* Left out: error texts, the catalogue of tools, list_changed callbacks   *)
(* (each is a call of listTools()).                                        *)
(***************************************************************************)
EXTENDS Integers, FiniteSets

CONSTANTS
  Calls,          \* the calls of callTool(), listTools() and getClient()
  Disconnects,    \* the calls of disconnect()
  MaxClients      \* bound on the clients that are built

ASSUME PoolAssumption == MaxClients \in Nat \ {0}

VARIABLES
  transport,      \* serverConfig.transport
  entry,          \* state, client and idleTimer of the PoolEntry
  pending,        \* the client that pendingConnections waits for, or none
  fallback,       \* that client is the SSE one
  clients,        \* what each client is doing
  made,           \* clients built
  mcpCalls,       \* where each call is
  uses,           \* the client each call got from getClient()
  closing         \* the client whose close() each disconnect() waits for

poolVars == <<transport, entry, pending, fallback, clients, made, mcpCalls, uses, closing>>

NoClient == 0
Ids      == 1..MaxClients

-----------------------------------------------------------------------------
(* Connecting *)

\* Mutation: the entry's state tells whether an attempt is under way.
MustConnect_ByState == entry.state # "connecting"

\* getClient() starts an attempt unless one is pending.
MustConnect == pending = NoClient

\* buildClient() and connect(): one more client.
Build(others, state) ==
  /\ made' = made + 1
  /\ clients' = [others EXCEPT ![made + 1] = "connecting"]
  /\ pending' = made + 1
  /\ entry' = [entry EXCEPT !.state = state]

\* getClient(): the client, the pending attempt or a new one.
GetClient(c) ==
  /\ mcpCalls[c] = "none"
  /\ IF entry.state = "connected" /\ entry.client # NoClient
     THEN /\ mcpCalls' = [mcpCalls EXCEPT ![c] = "calling"]
          /\ uses' = [uses EXCEPT ![c] = entry.client]
          /\ UNCHANGED <<entry, pending, fallback, clients, made>>
     ELSE /\ mcpCalls' = [mcpCalls EXCEPT ![c] = "waiting"]
          /\ UNCHANGED uses
          /\ IF MustConnect
             THEN /\ made < MaxClients
                  /\ Build(clients, "connecting")
                  /\ fallback' = FALSE
             ELSE UNCHANGED <<entry, pending, fallback, clients, made>>
  /\ UNCHANGED <<transport, closing>>

\* connectEntry() has its client, and so have the calls that wait for it.
Connected ==
  /\ pending # NoClient
  /\ clients' = [clients EXCEPT ![pending] = "open"]
  /\ entry' = [entry EXCEPT !.state = "connected", !.client = pending]
  /\ mcpCalls' = [c \in Calls |-> IF mcpCalls[c] = "waiting" THEN "calling" ELSE mcpCalls[c]]
  /\ uses' = [c \in Calls |-> IF mcpCalls[c] = "waiting" THEN pending ELSE uses[c]]
  /\ pending' = NoClient
  /\ UNCHANGED <<transport, fallback, made, closing>>

\* StreamableHTTP has failed before the time was up: SSE is tried.
FallBack ==
  /\ pending # NoClient
  /\ transport = "http"
  /\ ~fallback
  /\ made < MaxClients
  /\ fallback' = TRUE
  /\ Build([clients EXCEPT ![pending] = "closed"], entry.state)
  /\ UNCHANGED <<transport, mcpCalls, uses, closing>>

\* The attempt has failed or timed out: every call that waits for it fails.
ConnectFails ==
  /\ pending # NoClient
  /\ clients' = [clients EXCEPT ![pending] = "closed"]
  /\ entry' = [entry EXCEPT !.state = "error", !.client = NoClient]
  /\ mcpCalls' = [c \in Calls |-> IF mcpCalls[c] = "waiting" THEN "failed" ELSE mcpCalls[c]]
  /\ pending' = NoClient
  /\ UNCHANGED <<transport, fallback, made, uses, closing>>

-----------------------------------------------------------------------------
(* Calls *)

\* A tool call that succeeds starts the idle timer, unless the connection
\* is persistent; listTools() does not.
CallSucceeds(c) ==
  /\ mcpCalls[c] = "calling"
  /\ clients[uses[c]] = "open"
  /\ \E t \in {entry.idleTimer, TRUE} : entry' = [entry EXCEPT !.idleTimer = t]
  /\ mcpCalls' = [mcpCalls EXCEPT ![c] = "done"]
  /\ UNCHANGED <<transport, pending, fallback, clients, made, uses, closing>>

\* A time-out, an error of the protocol, a closed client.
CallFails(c) ==
  /\ mcpCalls[c] = "calling"
  /\ mcpCalls' = [mcpCalls EXCEPT ![c] = "failed"]
  /\ UNCHANGED <<transport, entry, pending, fallback, clients, made, uses, closing>>

-----------------------------------------------------------------------------
(* Disconnecting *)

\* Mutation: the client stays in the entry.
OnClose_KeepsClient == IF entry.state = "connected" THEN [entry EXCEPT !.state = "error"] ELSE entry

\* onclose of any client: it looks at the entry's state, not at its client.
OnClose ==
  IF entry.state = "connected"
  THEN [entry EXCEPT !.state = "error", !.client = NoClient, !.idleTimer = FALSE]
  ELSE entry

\* A server dies, the network fails, or the process of a closed client ends.
ServerCloses(k) ==
  /\ clients[k] \in {"open", "closing"}
  /\ clients' = [clients EXCEPT ![k] = "closed"]
  /\ entry' = OnClose
  /\ UNCHANGED <<transport, pending, fallback, made, mcpCalls, uses, closing>>

Disconnected == [entry EXCEPT !.state = "disconnected", !.client = NoClient]

\* disconnect() up to close(): by the idle timer, a reconnect, the shutdown.
\* An http client is closed at once, a child process takes its time.
Disconnect(d) ==
  /\ closing[d] = "none"
  /\ IF entry.client = NoClient
     THEN /\ entry' = [Disconnected EXCEPT !.idleTimer = FALSE]
          /\ closing' = [closing EXCEPT ![d] = "done"]
          /\ UNCHANGED clients
     ELSE /\ closing' = [closing EXCEPT ![d] = "waiting"]
          /\ IF clients[entry.client] = "open" /\ transport = "http"
             THEN /\ clients' = [clients EXCEPT ![entry.client] = "closed"]
                  /\ entry' = OnClose
             ELSE /\ clients' = [clients EXCEPT ![entry.client] =
                                   IF @ = "open" THEN "closing" ELSE @]
                  /\ entry' = [entry EXCEPT !.idleTimer = FALSE]
  /\ UNCHANGED <<transport, pending, fallback, made, mcpCalls, uses>>

\* close() has returned; the entry may have a newer client by now.
DisconnectEnds(d) ==
  /\ closing[d] = "waiting"
  /\ closing' = [closing EXCEPT ![d] = "done"]
  /\ entry' = Disconnected
  /\ UNCHANGED <<transport, pending, fallback, clients, made, mcpCalls, uses>>

-----------------------------------------------------------------------------

PoolInit ==
  /\ transport \in {"stdio", "http"}
  /\ entry = [state |-> "disconnected", client |-> NoClient, idleTimer |-> FALSE]
  /\ pending = NoClient
  /\ fallback = FALSE
  /\ clients = [k \in {NoClient} \cup Ids |-> "none"]
  /\ made = 0
  /\ mcpCalls = [c \in Calls |-> "none"]
  /\ uses = [c \in Calls |-> NoClient]
  /\ closing = [d \in Disconnects |-> "none"]

PoolNext ==
  \/ \E c \in Calls : GetClient(c) \/ CallSucceeds(c) \/ CallFails(c)
  \/ Connected \/ FallBack \/ ConnectFails
  \/ \E k \in Ids : ServerCloses(k)
  \/ \E d \in Disconnects : Disconnect(d) \/ DisconnectEnds(d)

PoolSpec == PoolInit /\ [][PoolNext]_poolVars

-----------------------------------------------------------------------------

PoolTypeOK ==
  /\ transport \in {"stdio", "http"}
  /\ entry \in [state : {"disconnected", "connecting", "connected", "error"},
                client : {NoClient} \cup Ids, idleTimer : BOOLEAN]
  /\ pending \in {NoClient} \cup Ids
  /\ fallback \in BOOLEAN
  /\ clients \in [{NoClient} \cup Ids -> {"none", "connecting", "open", "closing", "closed"}]
  /\ made \in 0..MaxClients
  /\ mcpCalls \in [Calls -> {"none", "waiting", "calling", "done", "failed"}]
  /\ uses \in [Calls -> {NoClient} \cup Ids]
  /\ closing \in [Disconnects -> {"none", "waiting", "done"}]

\* Concurrent calls share one attempt to connect, whatever disconnect() does
\* to the entry meanwhile: the only client that connects is the pending one.
OneAttempt == {k \in Ids : clients[k] = "connecting"} = {pending} \ {NoClient}

\* A call that waits is waiting for an attempt that is under way.
NoLostCaller == (\E c \in Calls : mcpCalls[c] = "waiting") => pending # NoClient

\* The entry says "connected" exactly while it has a client, and that client
\* has been connected.
EntryCoherent ==
  /\ entry.state = "connected" <=> entry.client # NoClient
  /\ entry.client # NoClient => clients[entry.client] \in {"open", "closing", "closed"}

\* What the run checks.
PoolCoherent == OneAttempt /\ NoLostCaller /\ EntryCoherent

\* What makes PoolCoherent inductive: while an attempt is under way the entry
\* has no client, and the number that stands for no client is never one.
PoolInv ==
  /\ PoolTypeOK
  /\ PoolCoherent
  /\ pending # NoClient => entry.client = NoClient
  /\ clients[NoClient] = "none"

=============================================================================
