----------------------------- MODULE LockSystem -----------------------------
(***************************************************************************)
(* The cluster lock: the lock server of one server, the lock clients of    *)
(* all mounts and the messages between them.  Clients come and go: they    *)
(* unmount, or lose their connection and are fenced.  The server does not  *)
(* fail here; LockFailover adds server failover and lock recovery.         *)
(***************************************************************************)
EXTENDS LockServer, LockClient

vars == <<serverVars, netVars, clientVars>>

NetInit ==
    /\ toClient = [c \in Client |-> <<>>]
    /\ toServer = {}
    /\ link = [c \in Client |-> "up"]

Init == ServerInit /\ NetInit /\ ClientInit

-----------------------------------------------------------------------------

\* farewell_worker() reclaims a client that said farewell and then responds.
ReclaimFarewell(c) ==
    /\ mount[c] = "farewell"
    /\ link[c] = "up"
    /\ c \notin recovering
    /\ ServerFarewell(c)
    /\ mount' = [mount EXCEPT ![c] = "reclaimed"]
    /\ UNCHANGED <<lock, worker, cacheVars>>

\* reclaim_worker() reclaims a client that was fenced.
ReclaimFenced(c) ==
    /\ mount[c] = "fenced"
    /\ HasEntry(c)
    /\ ServerFarewell(c)
    /\ UNCHANGED clientVars

\* Callers of the lock code and what they do with the lock.
CallerStep(c) ==
    \/ \E m \in CallModes[c] : LockCall(c, m)
    \/ \E m \in UseMode : LockAcquire(c, m)
    \/ \E m \in UseMode : LockSend(c, m)
    \/ \E m \in UseMode : LockGiveUp(c, m)
    \/ \E m \in UseMode : scoutfs_unlock(c, m)
    \/ ReadItems(c)
    \/ WriteItems(c)
    \/ InodeRefresh(c)
    \/ InodeEvict(c)

\* The lock client's message handlers and background work.
BackgroundStep(c) ==
    \/ GrantResponse(c)
    \/ InvalidateRequest(c)
    \/ InvalidateStart(c)
    \/ InvalidateRespond(c)
    \/ InvalidateFinish(c)
    \/ ShrinkScan(c)
    \/ ShrinkSend(c)
    \/ TransCommit(c)

\* How a mount leaves.
LeaveStep(c) ==
    \/ LockShutdown(c)
    \/ ShutdownTrans(c)
    \/ FarewellResponse(c)
    \/ LoseClient(c)
    \/ FenceClient(c)

Next ==
    \/ ServerStep /\ UNCHANGED clientVars
    \/ \E c \in Client :
          \/ CallerStep(c) /\ UNCHANGED serverVars
          \/ BackgroundStep(c) /\ UNCHANGED serverVars
          \/ LeaveStep(c) /\ UNCHANGED serverVars
          \/ ReclaimFarewell(c)
          \/ ReclaimFenced(c)

Spec == Init /\ [][Next]_vars

\* What a mount does without being asked: it handles messages, invalidates
\* and lets its waiting callers go on.
MountGoesOn(c) ==
    \/ GrantResponse(c)
    \/ InvalidateRequest(c)
    \/ InvalidateStart(c)
    \/ InvalidateRespond(c)
    \/ InvalidateFinish(c)
    \/ \E m \in UseMode : LockAcquire(c, m) \/ LockSend(c, m)

\* What follows the start of an unmount, or the loss of a mount.
LeaveGoesOn(c) ==
    \/ (FenceClient(c) \/ ShutdownTrans(c)) /\ UNCHANGED serverVars
    \/ ReclaimFarewell(c)
    \/ ReclaimFenced(c)

\* Received messages, queued work and transaction commits are all run, callers
\* that can go on do so, and users unlock.  Nothing makes a mount shrink, give
\* up, unmount or lose its connection, but an unmount goes on once it has begun,
\* and a lost mount is fenced and reclaimed.
Fairness ==
    /\ WF_vars(ServerStep /\ UNCHANGED clientVars)
    /\ \A c \in Client :
          /\ WF_vars(MountGoesOn(c) /\ UNCHANGED serverVars)
          /\ WF_vars(ShrinkSend(c) /\ UNCHANGED serverVars)
          /\ WF_vars((\E m \in UseMode : scoutfs_unlock(c, m)) /\ UNCHANGED serverVars)
          /\ WF_vars(TransCommit(c) /\ UNCHANGED serverVars)
          /\ WF_vars(LeaveGoesOn(c))

FairSpec == Spec /\ Fairness

-----------------------------------------------------------------------------
(* Properties                                                              *)

\* The types of the state of the lock server, the messages and lock clients.
TypeOK == ServerTypeOK /\ NetTypeOK /\ ClientTypeOK

\* "The server ensures that access mode exclusion is properly enforced"
\* (lock_server.c): no two mounts ever have users of the lock in modes that
\* exclude each other, also while mounts unmount, vanish and are fenced.
ModeExclusion ==
    \A c, d \in Client : c # d =>
       \A m, n \in UseMode :
          lock[c].users[m] > 0 /\ lock[d].users[n] > 0 => Compatible(m, n)

\* The modes that the users of each mount have the lock in.
Using == [c \in Client |-> {m \in UseMode : lock[c].users[m] > 0}]

Modes == INSTANCE ExclusiveModes WITH using <- Using

\* The whole of the lock server, the lock clients and their messages does no
\* more than hand out modes that go together: "The server ensures that access
\* mode exclusion is properly enforced" (lock_server.c), step by step.
ImplementsModes == Modes!Spec

\* The mode of a lock covers the modes of its users: neither a grant response
\* nor the invalidation worker takes the mode away under a user.
UsersCovered ==
    \A c \in Client : lock_counts_match(lock[c].mode, lock[c].users)

\* lock_key_range(): "On success the caller can use the given mode to interact
\* with the item cache."  A mount that may read never sees items that another
\* mount has changed since, nor reads around another mount's dirty items.
Coherence ==
    \A c \in Client : Reading(c) =>
       /\ ~ stale[c]
       /\ ~ DirtyElsewhere(c)

\* scoutfs_inode_refresh(): a reader never trusts inode fields that another
\* mount has changed since they were loaded.
InodeCoherence ==
    \A c \in Client : Reading(c) => inode[c] # "stale"

\* "Lock refresh gens are supposed to strictly increase" (inode.c): a reader
\* never finds an inode whose last_refreshed is greater than the lock's
\* refresh_gen, the BUG_ON of scoutfs_inode_refresh().
RefreshGenIncreases ==
    \A c \in Client : Reading(c) /\ inode[c] # "none" => lock[c].gen

\* scoutfs_lock_server_farewell(): a client that was reclaimed and is gone has
\* left nothing behind that other clients' requests would have to wait for.
NothingLeft ==
    \A c \in Client : mount[c] = "gone" => ~ HasEntry(c)

\* The BUG_ONs of scoutfs_lock_grant_response(): a grant finds the lock, with
\* its request pending, and a cache that agrees with the modes it moves between.
GrantConsistent ==
    \A c \in Client :
       (/\ mount[c] \notin {"shutdown", "farewell", "reclaimed"}
        /\ toClient[c] # <<>>
        /\ Head(toClient[c]).cmd = "grant") =>
          LET msg == Head(toClient[c]) IN
             /\ lock[c].have
             /\ lock[c].pend
             /\ ~ dirty[c]
             /\ cached[c] => lock_mode_can_read(msg.old) /\ lock_mode_can_read(msg.new)

\* The BUG_ONs of lock_scan_objects() and lock_free(): an idle lock in the tree
\* has a mode, and a lock that was freed leaves no cached items behind.
IdleLocks ==
    \A c \in Client :
       /\ lock[c].have /\ lock_idle(lock[c]) => lock[c].mode # "null"
       /\ ~ lock[c].have /\ mount[c] = "mounted" => ~ cached[c]

\* Eventually nobody asks for the lock any more.
CallsEnd == <>[][\A c \in Client : Callers(lock'[c]) <= Callers(lock[c])]_lock

\* A request of a mount that stays is always answered once callers stop
\* arriving: invalidations, the shrinker, waiting callers, unmounts and lost
\* mounts never leave each other waiting.
\* (While callers keep arriving they can hold up an invalidation for ever:
\* lock_key_range() lets them use the granted mode without looking at it.)
RequestAnswered ==
    CallsEnd => \A c \in Client :
       (lock[c].pend /\ link[c] = "up" /\ mount[c] = "mounted")
          ~> (~ lock[c].pend \/ link[c] # "up" \/ mount[c] # "mounted")

-----------------------------------------------------------------------------
(***************************************************************************)
(* The inductive invariant behind ModeExclusion.  It is about the mounts   *)
(* that can have users, the ones that have not begun to unmount.           *)
(***************************************************************************)

\* The work that invalidates a lock finds what it works on.
WorkerBusy == \A c \in Client : worker[c] # "idle" => lock[c].invs # <<>>

IsMounted(c) == mount[c] = "mounted"

\* What the server knows the client may be using.
Record(c) == IF invalidated[c] # NoEntry THEN invalidated[c] ELSE granted[c]

\* The places where the one unanswered request of a client can be.
RequestSent(c) == \E msg \in toServer : msg.cmd = "request" /\ msg.rid = c
RequestQueued(c) == \E i \in 1..Len(requested) : requested[i].rid = c
GrantSent(c) == \E i \in 1..Len(toClient[c]) : toClient[c][i].cmd = "grant"

\* The places where the one unanswered invalidation of a client can be.
InvalSent(c) == \E i \in 1..Len(toClient[c]) : toClient[c][i].cmd = "inval"
FirstInval(c) == IF worker[c] = "finish" THEN 2 ELSE 1
InvalQueued(c) == FirstInval(c) <= Len(lock[c].invs)
InvalAnswered(c) == \E msg \in toServer : msg.cmd = "response" /\ msg.rid = c

\* A mount that is shutting down or gone has no callers.
NoLateCallers(c) ==
    ~ IsMounted(c) => lock[c].users = Nobody /\ lock[c].waiters = Nobody

\* Nothing is known of a lock that is not in the tree, and clients do not
\* reconnect while the server does not fail.
LockKept(c) ==
    /\ ~ lock[c].have => lock[c] = NoLock
    /\ link[c] # "down"

\* "Correctness of the protocol relies on the client and server each only sending
\* one request at a time for a given lock" (lock_server.c): a client's request is
\* in one place, and its lock waits for the response.
OneRequest(c) ==
    /\ RequestSent(c) => ~ RequestQueued(c) /\ ~ GrantSent(c) /\ ~ lock[c].shrink
    /\ RequestQueued(c) => ~ GrantSent(c) /\ ~ lock[c].shrink
    /\ GrantSent(c) => ~ lock[c].shrink
    /\ RequestSent(c) \/ RequestQueued(c) \/ GrantSent(c) \/ lock[c].shrink => lock[c].pend
    /\ \A m, n \in toServer :
          m.cmd = "request" /\ m.rid = c /\ n.cmd = "request" /\ n.rid = c => m = n
    /\ \A i, j \in 1..Len(requested) :
          requested[i].rid = c /\ requested[j].rid = c => i = j

\* The same of the server's invalidation requests, each of which is for the
\* client's entry on the invalidated list.
OneInvalidation(c) ==
    /\ InvalSent(c) => ~ InvalQueued(c) /\ ~ InvalAnswered(c)
    /\ InvalQueued(c) => ~ InvalAnswered(c)
    /\ InvalSent(c) \/ InvalQueued(c) \/ InvalAnswered(c) => invalidated[c] # NoEntry
    /\ \A m, n \in toServer :
          m.cmd = "response" /\ m.rid = c /\ n.cmd = "response" /\ n.rid = c => m = n
    /\ Len(lock[c].invs) <= FirstInval(c)

\* An invalidation is queued behind the grant that it takes back.
GrantThenInval(c) ==
    \A i \in 1..Len(toClient[c]) :
       /\ toClient[c][i].cmd = "grant" => i = 1
       /\ toClient[c][i].cmd = "inval" => i = Len(toClient[c])

\* A client is on one of the granted and invalidated lists.
OneList(c) == granted[c] = NoEntry \/ invalidated[c] = NoEntry

\* Invalidations bring a client down from the mode that it has on the list.
InvalidationsCovered(c) ==
    /\ \A i \in 1..Len(toClient[c]) : toClient[c][i].cmd = "inval" =>
          toClient[c][i].live /\ Covers(invalidated[c], toClient[c][i].new)
    /\ \A i \in FirstInval(c)..Len(lock[c].invs) :
          lock[c].invs[i].live /\ Covers(invalidated[c], lock[c].invs[i].new)
    /\ worker[c] = "invalidate" => lock[c].mode = lock[c].invs[1].new
    /\ \A msg \in toServer : msg.cmd = "response" /\ msg.rid = c =>
          /\ msg.live
          /\ Covers(invalidated[c], msg.mode)
          /\ Covers(msg.mode, lock[c].mode)

\* A grant on its way raises the client's mode to what the server recorded, and
\* no invalidation is being processed when it arrives.
GrantsCovered(c) ==
    \A i \in 1..Len(toClient[c]) : toClient[c][i].cmd = "grant" =>
       /\ Covers(Record(c), toClient[c][i].new)
       /\ Covers(toClient[c][i].new, lock[c].mode)
       /\ ~ InvalQueued(c)
       /\ ~ InvalAnswered(c)

\* The server freed the grant of a client whose response it could not send; the
\* request stays at the head of the queue until the client was fenced.
Dropped(c) ==
    link[c] = "lost" /\ requested # <<>> /\ Head(requested).rid = c

\* The server knows of every mode that a client may use.
ModesCovered(c) == Dropped(c) \/ Covers(Record(c), lock[c].mode)

MountedInv(c) ==
    /\ LockKept(c)
    /\ OneRequest(c)
    /\ OneInvalidation(c)
    /\ GrantThenInval(c)
    /\ OneList(c)
    /\ InvalidationsCovered(c)
    /\ GrantsCovered(c)
    /\ ModesCovered(c)

\* What the server knows, and what the clients may use, excludes each other.
Exclude(c, d) ==
    /\ Compatible(Record(c), Record(d))
    /\ Compatible(lock[c].mode, Record(d))
    /\ Compatible(lock[c].mode, lock[d].mode)

\* One request and one invalidation of a client are under way at a time, and all
\* that the messages, the queues and the lists of the lock server say of a mount
\* covers the mode the mount has, and excludes what every other mount has.
LockInv ==
    /\ WorkerBusy
    /\ UsersCovered
    /\ \A c \in Client : NoLateCallers(c)
    /\ \A c \in Client : IsMounted(c) => MountedInv(c)
    /\ \A c, d \in Client : IsMounted(c) /\ IsMounted(d) /\ c # d => Exclude(c, d)

-----------------------------------------------------------------------------
(***************************************************************************)
(* The inductive invariants behind the coherence of items and inodes, and  *)
(* the BUG_ONs of the lock client.                                         *)
(***************************************************************************)

\* The mode that a mount's caches were filled under: lock_invalidate() drops them
\* after the lock has taken its new mode.
CacheMode(c) == IF worker[c] = "invalidate" THEN lock[c].inving ELSE lock[c].mode

\* An invalidation of mode m takes it all away, or leaves a writer its read mode.
Lowers(inv, m) ==
    /\ inv.old = m
    /\ inv.new = "null" \/ KeepsCache(inv)

\* A grant gives a mode to a client that has none, or lets a reader write.
Raises(msg, m) ==
    /\ msg.old = m
    /\ msg.old = "null" \/ (msg.old = "read" /\ msg.new = "write")

\* The lock does not yet have the mode of its request.
Needed(c, m) == m = "null" \/ ~ lock_modes_match(lock[c].mode, m)

RequestNeeded(c) ==
    /\ \A msg \in toServer : msg.cmd = "request" /\ msg.rid = c => Needed(c, msg.mode)
    /\ \A i \in 1..Len(requested) : requested[i].rid = c => Needed(c, requested[i].mode)

\* The entry of a connected client, unless messages about it are on their way, is the
\* mode that the client has; grants, invalidations and the responses to them say what
\* the client has.
ModesExact(c) ==
    /\ link[c] = "up" /\ ~ GrantSent(c) /\ granted[c] # NoEntry => granted[c] = lock[c].mode
    /\ granted[c] # "null"
    /\ \A i \in 1..Len(toClient[c]) : toClient[c][i].cmd = "grant" =>
          /\ Raises(toClient[c][i], lock[c].mode)
          /\ Record(c) = IF toClient[c][i].new = "null" THEN NoEntry ELSE toClient[c][i].new
    /\ \A i \in 1..Len(toClient[c]) : toClient[c][i].cmd = "inval" =>
          /\ Lowers(toClient[c][i], invalidated[c])
          /\ i = 1 => invalidated[c] = lock[c].mode
    /\ \A i \in FirstInval(c)..Len(lock[c].invs) :
          Lowers(lock[c].invs[i], CacheMode(c)) /\ invalidated[c] = CacheMode(c)
    /\ \A msg \in toServer : msg.cmd = "response" /\ msg.rid = c => msg.mode = lock[c].mode

\* What a mount caches and has dirtied, it has under a mode that allows it, and
\* lock_invalidate() will know that it has to sync.
CacheAllowed(c) ==
    /\ cached[c] => CacheMode(c) # "null"
    /\ dirty[c] => lock_mode_can_write(CacheMode(c)) /\ (lock[c].wrote \/ Writing(c))

\* Inode fields that another mount has changed will be refreshed before they are used.
InodeAllowed(c) ==
    /\ inode[c] = "stale" => ~ lock_mode_can_read(CacheMode(c))
    /\ lock_mode_can_read(lock[c].mode) => lock[c].gen

\* An idle lock in the tree has a mode.
IdleKept(c) == lock[c].have /\ lock_idle(lock[c]) => lock[c].mode # "null"

\* Nothing is on its way to a mount that lost its connection, or is gone.
LinkKept(c) ==
    /\ link[c] = "lost" => toClient[c] = <<>>
    /\ ~ Running(c) => link[c] = "lost"

CacheInv ==
    \A c \in Client :
       /\ IdleKept(c)
       /\ LinkKept(c)
       /\ IsMounted(c) => RequestNeeded(c) /\ ModesExact(c) /\ CacheAllowed(c) /\ InodeAllowed(c)

\* A mount that begins to unmount has written its transaction: scoutfs_lock_shutdown()
\* expects no "users of locking that require invalidation correctness at this point".
CleanShutdown == \A c \in Client : mount[c] = "mounted" /\ mount'[c] = "shutdown" => ~ dirty[c]

\* Mounts that unmount only read.
CleanLeavers ==
    \A c \in Leavers \cap Touchers : \A m \in CallModes[c] : ~ lock_mode_can_write(m)

\* Only writers have dirty items, mounts that leave have none, and an item that is out
\* of date is cached by a mount that cannot read it.
StaleInv ==
    \A c \in Client :
       /\ \A m \in UseMode : lock[c].users[m] > 0 \/ lock[c].waiters[m] > 0 => m \in CallModes[c]
       /\ dirty[c] => c \in Touchers /\ \E m \in CallModes[c] : lock_mode_can_write(m)
       /\ dirty[c] => IsMounted(c)
       /\ IsMounted(c) /\ stale[c] => CacheMode(c) = "wonly"

=============================================================================
