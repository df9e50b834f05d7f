---------------------------- MODULE LockFailover ----------------------------
(***************************************************************************)
(* LockSystem with servers that fail.  A new server starts with no lock    *)
(* state.  It asks every client that was mounted for its locks before it   *)
(* grants or invalidates anything (lock recovery): lock_server.c,          *)
(* scoutfs_lock_recover_request() of lock.c, recov.c and the recovery part *)
(* of server.c.                                                            *)
(***************************************************************************)
EXTENDS LockSystem

CONSTANTS
    MaxFailovers,        \* bound on the number of times that a server fails
    FailsDuring,         \* how far invalidations may have come when a server fails
    TimesOut             \* the clients that may fail to recover in time

ASSUME MaxFailoversAssumption == MaxFailovers \in Nat
ASSUME FailsDuringAssumption == FailsDuring \subseteq {"quiet", "queued", "invalidate", "finish"}
ASSUME TimesOutAssumption == TimesOut \subseteq Client

VARIABLES
    recov,               \* per client, how far its lock recovery has come
    kick,                \* scoutfs_lock_server_finished_recovery() is to run
    failovers            \* how often a server has failed

failVars == <<recov, kick, failovers>>

allVars == <<vars, failVars>>

\* "greeting": it has to connect.  "asked": a recover request is on its way to
\* it.  A mode: its response with the lock in that mode is on its way back.
\* NoEntry: its empty response is.
RecovState == {"done", "greeting", "asked"} \cup Entry

FailTypeOK ==
    /\ TypeOK
    /\ recov \in [Client -> RecovState]
    /\ kick \in BOOLEAN
    /\ failovers \in 0..MaxFailovers

FailInit ==
    /\ Init
    /\ recov = [c \in Client |-> "done"]
    /\ kick = FALSE
    /\ failovers = 0

\* The clients with a mounted client item, for which start_recovery() prepares
\* recovery.
Mounted == {c \in Client : mount[c] \notin {"reclaimed", "gone", "fenced"}}

\* The request that the client waits for the response of, wherever it is.  Its
\* send is on the client's queues until the response arrives.
Unanswered(c) ==
    {msg \in toServer : msg.cmd = "request" /\ msg.rid = c}
    \cup {RequestMsg(c, requested[i].mode) :
             i \in {i \in 1..Len(requested) : requested[i].rid = c}}
    \cup {RequestMsg(c, toClient[c][i].new) :
             i \in {i \in 1..Len(toClient[c]) : toClient[c][i].cmd = "grant"}}

\* How far the first invalidation on the client's list has come.
InvalPhase(c) ==
    IF worker[c] # "idle" THEN worker[c]
    ELSE IF lock[c].invs # <<>> THEN "queued" ELSE "quiet"

\* The server stops and the next server starts: scoutfs_lock_server_setup(),
\* start_recovery().  Clients reconnect with what is on their queues.
ServerFail ==
    /\ failovers < MaxFailovers
    /\ \A c \in Client : InvalPhase(c) \in FailsDuring
    /\ failovers' = failovers + 1
    /\ granted' = [c \in Client |-> NoEntry]
    /\ requested' = <<>>
    /\ invalidated' = [c \in Client |-> NoEntry]
    /\ busy' = "no"
    /\ kick' = FALSE
    /\ serving' = TRUE
    /\ recovering' = Mounted
    /\ recov' = [c \in Client |-> IF c \in Mounted THEN "greeting" ELSE "done"]
    /\ toClient' = [c \in Client |-> <<>>]
    /\ toServer' = UNION {Unanswered(c) : c \in Mounted}
    /\ link' = [c \in Client |-> IF Running(c) THEN "down" ELSE "lost"]
    /\ lock' = [c \in Client |-> [lock[c] EXCEPT
                  !.invs = [i \in 1..Len(@) |-> [@[i] EXCEPT !.live = FALSE]]]]
    /\ UNCHANGED <<worker, mount, cacheVars>>

\* server_greeting(): the client is connected again and, in recovery, gets the
\* first recover request of scoutfs_lock_server_greeting().
Greeting(c) ==
    /\ serving
    /\ link[c] = "down"
    /\ link' = [link EXCEPT ![c] = "up"]
    /\ recov' = [recov EXCEPT ![c] = IF c \in recovering THEN "asked" ELSE @]
    /\ UNCHANGED <<serverVars, clientVars, toClient, toServer, kick, failovers>>

\* scoutfs_lock_recover_request(): a lock that is being invalidated is reported
\* in the mode that it is brought down from.
RecoverRequest(c) ==
    /\ Running(c)
    /\ recov[c] = "asked"
    /\ recov' = [recov EXCEPT ![c] =
          IF ~ lock[c].have THEN NoEntry
          ELSE IF lock[c].inving # "null" THEN lock[c].inving ELSE lock[c].mode]
    /\ UNCHANGED <<serverVars, clientVars, netVars, kick, failovers>>

\* scoutfs_lock_server_recover_response() with the client's lock: it is granted
\* and the next locks are asked for, of which there are none.
RecoverLock(c) ==
    /\ CanHandle
    /\ recov[c] \in Mode
    /\ granted[c] = NoEntry
    /\ granted' = [granted EXCEPT ![c] = recov[c]]
    /\ recov' = [recov EXCEPT ![c] = NoEntry]
    /\ UNCHANGED <<requested, invalidated, busy, recovering, serving>>
    /\ UNCHANGED <<clientVars, netVars, kick, failovers>>

\* Seeded bug: the end of recovery does not kick the waiting requests.
RecovFinishSilent(c) ==
    /\ recovering' = recovering \ {c}
    /\ recov' = [recov EXCEPT ![c] = "done"]
    /\ UNCHANGED kick

\* scoutfs_server_recov_finish(): the client that is last in recovery lets
\* finished_recovery() kick the waiting requests.
RecovFinish(c) ==
    /\ recovering' = recovering \ {c}
    /\ recov' = [recov EXCEPT ![c] = "done"]
    /\ kick' = (kick \/ recovering = {c})

\* scoutfs_lock_server_recover_response() with no locks.
RecoverDone(c) ==
    /\ serving
    /\ recov[c] = NoEntry
    /\ RecovFinish(c)
    /\ UNCHANGED <<granted, requested, invalidated, busy, serving>>
    /\ UNCHANGED <<clientVars, netVars, failovers>>

\* scoutfs_lock_server_finished_recovery()
FinishedRecovery ==
    /\ CanHandle
    /\ kick
    /\ kick' = FALSE
    /\ busy' = IF requested = <<>> THEN "no" ELSE "message"
    /\ UNCHANGED <<granted, requested, invalidated, recovering, serving>>
    /\ UNCHANGED <<clientVars, netVars, recov, failovers>>

\* fence_pending_recov_worker() fences a client that did not recover in time.
FencePending(c) ==
    /\ serving
    /\ c \in TimesOut
    /\ c \in recovering
    /\ Running(c)
    /\ Vanish(c, "fenced")
    /\ UNCHANGED <<serverVars, failVars>>

\* reclaim_worker() reclaims it and finishes its recovery.
ReclaimPending(c) ==
    /\ c \in recovering
    /\ mount[c] = "fenced"
    /\ CanHandle
    /\ granted' = [granted EXCEPT ![c] = NoEntry]
    /\ requested' = WithoutClient(requested, c)
    /\ RecovFinish(c)
    /\ UNCHANGED <<invalidated, busy, serving, clientVars, netVars, failovers>>

RecoveryStep ==
    \/ ServerFail
    \/ FinishedRecovery
    \/ \E c \in Client :
          \/ Greeting(c)
          \/ RecoverRequest(c)
          \/ RecoverLock(c)
          \/ RecoverDone(c)
          \/ FencePending(c)
          \/ ReclaimPending(c)

FailNext ==
    \/ Next /\ UNCHANGED failVars
    \/ RecoveryStep

FailSpec == FailInit /\ [][FailNext]_allVars

\* Clients reconnect and answer the recover requests, and the server handles what
\* it receives.  Nothing makes a server fail or a client miss the deadline, but a
\* client that was fenced is reclaimed.
FailFairness ==
    /\ Fairness
    /\ WF_allVars(FinishedRecovery)
    /\ \A c \in Client :
          WF_allVars(\/ Greeting(c) \/ RecoverRequest(c) \/ RecoverLock(c) \/ RecoverDone(c)
                     \/ ReclaimPending(c))

FailFairSpec == FailSpec /\ FailFairness

=============================================================================
