----------------------------- MODULE AuthStorage -----------------------------
(***************************************************************************)
(* The credentials of an OAuth provider that several pi processes share in *)
(* auth.json (core/auth-storage.ts): reading, login and logout, and the    *)
(* refresh of an expired token under the lock of the file.                 *)
(*                                                                         *)
(* Tokens are numbered in the order in which a login or a refresh creates  *)
(* them; 0 is the one in the file at the start. What a process does        *)
(* between two awaits is one step, and so is what it does under lockSync().*)
(* The lock is external (proper-lockfile): a directory beside the file     *)
(* that its holder touches from time to time. A lock that is not touched   *)
(* for long counts as abandoned and is taken over. This also happens to a  *)
(* holder that lives: lockSync() gives up on a lock after 10 s, and a      *)
(* holder that waits for the provider touches it every 15 s.               *)
(*                                                                         *)
(* Left out: API keys, other providers, environment variables, the         *)
(* fallback resolver, a file that is a symbolic link.                      *)
(***************************************************************************)
EXTENDS Integers, FiniteSets

CONSTANTS
  PiProcs,        \* pi processes with an AuthStorage
  MaxTokens       \* bound on the tokens that are created

ASSUME AuthAssumption == MaxTokens \in Nat /\ "nobody" \notin PiProcs

VARIABLES
  authFile,       \* the token in auth.json, or none after a logout
  expired,        \* tokens that have expired
  minted,         \* tokens created
  authData,       \* AuthStorage.data of each process: its token, or none
  loadError,      \* processes with a loadError
  lockHolder,     \* the process whose lock directory is there, or none
  refreshing,     \* the token each process asks the provider to replace, or none
  waitingLock,    \* processes that wait for the lock
  compromised,    \* processes that know that they lost the lock
  gone,           \* processes that crashed
  refreshedTokens,\* the tokens that were replaced, each as often as it was
  clobbered,      \* a write replaced a token that its writer had not read
  stolen          \* a lock was taken from a process that lives

authVars == <<authFile, expired, minted, authData, loadError, lockHolder, refreshing,
              waitingLock, compromised, gone, refreshedTokens, clobbered, stolen>>

NoToken == -1
Nobody  == "nobody"
AuthTokens == 0..MaxTokens
Up      == PiProcs \ gone

-----------------------------------------------------------------------------
(* The lock *)

\* The lock is free or its holder is dead; or it is taken from a process
\* that lives, which "stolen" remembers.
LockFree(steal) ==
  \/ /\ ~steal
     /\ lockHolder \notin Up
     /\ UNCHANGED stolen
  \/ /\ steal
     /\ lockHolder \in Up
     /\ stolen' = TRUE

\* reload(): the file is read under lockSync(); when the lock is held the
\* data stays as it is known and the error is kept.
Reloads(p, known) ==
  \/ \E steal \in BOOLEAN :
       /\ LockFree(steal)
       /\ lockHolder' = Nobody
       /\ authData' = [authData EXCEPT ![p] = authFile]
       /\ loadError' = loadError \ {p}
  \/ /\ lockHolder \in Up
     /\ authData' = [authData EXCEPT ![p] = known]
     /\ loadError' = loadError \cup {p}
     /\ UNCHANGED <<lockHolder, stolen>>

Reload(p) ==
  /\ p \in Up
  /\ Reloads(p, authData[p])
  /\ UNCHANGED <<authFile, expired, minted, refreshing, waitingLock, compromised, gone,
                 refreshedTokens, clobbered>>

-----------------------------------------------------------------------------
(* Login and logout *)

\* persistProviderChange(): the change is in memory, and written unless the file
\* could not be loaded or the lock is held.
Persists(p, token) ==
  /\ authData' = [authData EXCEPT ![p] = token]
  /\ \/ /\ p \notin loadError
        /\ \E steal \in BOOLEAN : LockFree(steal)
        /\ lockHolder' = Nobody
        /\ authFile' = token
     \/ /\ p \in loadError \/ lockHolder \in Up
        /\ UNCHANGED <<authFile, lockHolder, stolen>>
  /\ UNCHANGED <<expired, loadError, refreshing, waitingLock, compromised, gone,
                 refreshedTokens, clobbered>>

\* set()
Login(p) ==
  /\ p \in Up
  /\ minted < MaxTokens
  /\ minted' = minted + 1
  /\ Persists(p, minted + 1)

\* remove()
Logout(p) ==
  /\ p \in Up
  /\ Persists(p, NoToken)
  /\ UNCHANGED minted

-----------------------------------------------------------------------------
(* Refresh *)

\* getApiKey() of an expired token: withLockAsync() begins.
GetApiKey(p) ==
  /\ p \in Up \ waitingLock
  /\ refreshing[p] = NoToken
  /\ authData[p] \in expired
  /\ waitingLock' = waitingLock \cup {p}
  /\ UNCHANGED <<authFile, expired, minted, authData, loadError, lockHolder, refreshing,
                 compromised, gone, refreshedTokens, clobbered, stolen>>

\* Mutation: the token is judged by what the process knew before it waited.
TokenUnderLock_Memory(p) == authData[p]

\* The token that decides is read from the file, under the lock.
TokenUnderLock(p) == authFile

\* The lock is there: a token that is good again needs no refresh.
LockTaken(p) ==
  /\ p \in waitingLock \cap Up
  /\ waitingLock' = waitingLock \ {p}
  /\ \E steal \in BOOLEAN : LockFree(steal)
  /\ authData' = [authData EXCEPT ![p] = TokenUnderLock(p)]
  /\ loadError' = loadError \ {p}
  /\ compromised' = compromised \ {p}
  /\ IF TokenUnderLock(p) \in expired
     THEN /\ lockHolder' = p
          /\ refreshing' = [refreshing EXCEPT ![p] = TokenUnderLock(p)]
     ELSE /\ lockHolder' = Nobody
          /\ UNCHANGED refreshing
  /\ UNCHANGED <<authFile, expired, minted, gone, refreshedTokens, clobbered>>

\* The retries are used up: the file is read once more.
LockTimesOut(p) ==
  /\ p \in waitingLock \cap Up
  /\ lockHolder \in Up
  /\ waitingLock' = waitingLock \ {p}
  /\ Reloads(p, authData[p])
  /\ UNCHANGED <<authFile, expired, minted, refreshing, compromised, gone,
                 refreshedTokens, clobbered>>

\* release(): the directory is removed, whoever made it, unless the loss of
\* the lock was noticed.
Released(p) == IF p \in compromised THEN lockHolder ELSE Nobody

\* The provider has given a new token. It is written unless the process
\* knows that it lost the lock.
Refreshed(p) ==
  /\ p \in Up
  /\ refreshing[p] # NoToken
  /\ minted < MaxTokens
  /\ minted' = minted + 1
  /\ refreshedTokens' = [refreshedTokens EXCEPT ![refreshing[p]] = @ + 1]
  /\ refreshing' = [refreshing EXCEPT ![p] = NoToken]
  /\ compromised' = compromised \ {p}
  /\ IF p \notin compromised
     THEN /\ authFile' = minted + 1
          /\ authData' = [authData EXCEPT ![p] = minted + 1]
          /\ clobbered' = (clobbered \/ authFile # refreshing[p])
          /\ lockHolder' = Nobody
          /\ UNCHANGED <<loadError, stolen>>
     ELSE /\ Reloads(p, minted + 1)
          /\ UNCHANGED <<authFile, clobbered>>
  /\ UNCHANGED <<expired, waitingLock, gone>>

\* The provider refuses (null), or cannot be reached: then the file is read
\* again.
RefreshFails(p) ==
  /\ p \in Up
  /\ refreshing[p] # NoToken
  /\ refreshing' = [refreshing EXCEPT ![p] = NoToken]
  /\ compromised' = compromised \ {p}
  /\ lockHolder' = Released(p)
  /\ \/ UNCHANGED <<authData, loadError>>
     \/ /\ Released(p) \in Up
        /\ loadError' = loadError \cup {p}
        /\ UNCHANGED authData
     \/ /\ Released(p) \notin Up
        /\ loadError' = loadError \ {p}
        /\ authData' = [authData EXCEPT ![p] = authFile]
  /\ UNCHANGED <<authFile, expired, minted, waitingLock, gone, refreshedTokens,
                 clobbered, stolen>>

-----------------------------------------------------------------------------
(* Outside *)

\* onCompromised: the timer that touches the lock finds that it is not there
\* or is another one.
NoticeLoss(p) ==
  /\ p \in Up \ compromised
  /\ refreshing[p] # NoToken
  /\ lockHolder # p
  /\ compromised' = compromised \cup {p}
  /\ UNCHANGED <<authFile, expired, minted, authData, loadError, lockHolder, refreshing,
                 waitingLock, gone, refreshedTokens, clobbered, stolen>>

Expire ==
  /\ authFile \in AuthTokens \ expired
  /\ expired' = 0..minted
  /\ UNCHANGED <<authFile, minted, authData, loadError, lockHolder, refreshing,
                 waitingLock, compromised, gone, refreshedTokens, clobbered, stolen>>

\* A crash leaves the lock behind, and a new token may be lost.
CrashPi(p) ==
  /\ p \in Up
  /\ gone' = gone \cup {p}
  /\ refreshing' = [refreshing EXCEPT ![p] = NoToken]
  /\ waitingLock' = waitingLock \ {p}
  /\ UNCHANGED <<authFile, expired, minted, authData, loadError, lockHolder,
                 compromised, refreshedTokens, clobbered, stolen>>

-----------------------------------------------------------------------------

\* The constructor reads the file; a process that could not, because another one
\* held the lock for the moment, knows of no token.
AuthInit ==
  /\ authFile = 0
  /\ expired = {0}
  /\ minted = 0
  /\ loadError \in SUBSET PiProcs
  /\ authData = [p \in PiProcs |-> IF p \in loadError THEN NoToken ELSE 0]
  /\ lockHolder = Nobody
  /\ refreshing = [p \in PiProcs |-> NoToken]
  /\ waitingLock = {} /\ compromised = {} /\ gone = {}
  /\ refreshedTokens = [t \in AuthTokens |-> 0]
  /\ clobbered = FALSE /\ stolen = FALSE

AuthNext ==
  \/ \E p \in PiProcs :
       \/ Reload(p) \/ Login(p) \/ Logout(p) \/ GetApiKey(p) \/ LockTaken(p)
       \/ LockTimesOut(p) \/ Refreshed(p) \/ RefreshFails(p) \/ NoticeLoss(p) \/ CrashPi(p)
  \/ Expire

AuthSpec == AuthInit /\ [][AuthNext]_authVars

-----------------------------------------------------------------------------

AuthTypeOK ==
  /\ authFile \in {NoToken} \cup AuthTokens
  /\ expired \subseteq AuthTokens
  /\ minted \in AuthTokens
  /\ authData \in [PiProcs -> {NoToken} \cup AuthTokens]
  /\ loadError \subseteq PiProcs
  /\ lockHolder \in PiProcs \cup {Nobody}
  /\ refreshing \in [PiProcs -> {NoToken} \cup AuthTokens]
  /\ waitingLock \subseteq PiProcs /\ compromised \subseteq PiProcs /\ gone \subseteq PiProcs
  /\ refreshedTokens \in [AuthTokens -> Nat]
  /\ clobbered \in BOOLEAN /\ stolen \in BOOLEAN

\* As long as no lock is taken from a process that lives, two processes never
\* ask for the same refresh at the same time, a token is refreshed once (a
\* crash may lose the new one), and a refresh never replaces a login, nor
\* undoes a logout, that came in between.
LockProtects ==
  ~stolen =>
    /\ Cardinality({p \in PiProcs : refreshing[p] # NoToken}) <= 1
    /\ gone = {} => \A t \in AuthTokens : refreshedTokens[t] <= 1
    /\ ~clobbered

\* What makes LockProtects inductive. Only a process that is up waits for the
\* provider; while no lock is stolen it is the one that holds the lock, the
\* file keeps the token it replaces, and it never has to notice a loss; no
\* token that was replaced is in the file or still to come.
LockInv ==
  /\ \A p \in PiProcs : refreshing[p] # NoToken => p \in Up
  /\ authFile <= minted
  /\ ~stolen =>
       /\ \A p \in PiProcs :
            refreshing[p] # NoToken => lockHolder = p /\ refreshing[p] = authFile
       /\ compromised = {}
       /\ \A t \in AuthTokens :
            /\ refreshedTokens[t] <= 1
            /\ refreshedTokens[t] = 1 => t <= minted /\ t # authFile
       /\ ~clobbered

AuthInv == AuthTypeOK /\ LockInv

=============================================================================
