----------------------------- MODULE LockClient -----------------------------
(***************************************************************************)
(* The lock client of every mount for one lock (struct scoutfs_lock), from *)
(* lock.c, with the caches that the lock protects: the items of the lock's *)
(* range in the item cache, the transaction that dirty items belong to,    *)
(* and an inode whose fields were loaded from those items.                 *)
(*                                                                         *)
(* linfo->lock is held over each handler and each pass of a caller through *)
(* lock_key_range(), so each of these is one action.  The invalidation     *)
(* work drops the spinlock between its three passes: they are three        *)
(* actions.                                                                *)
(***************************************************************************)
EXTENDS LockNet

CONSTANTS
    MaxCallers,          \* bound on the callers of one mount in the lock code
    CallModes,           \* per mount, the modes that its callers ask for
    Shrinkers,           \* the mounts that shrink their locks
    Touchers,            \* the mounts that read and write items under the lock
    Keepers,             \* the mounts that keep the inode in memory
    Leavers,             \* the mounts that may unmount
    Victims              \* the mounts that may lose their connection

ASSUME MaxCallersAssumption == MaxCallers \in Nat
ASSUME CallModesAssumption == CallModes \in [Client -> SUBSET UseMode]
ASSUME MountsAssumption ==
    Shrinkers \cup Touchers \cup Keepers \cup Leavers \cup Victims \subseteq Client

VARIABLES
    lock,                \* per mount, its struct scoutfs_lock
    worker,              \* per mount, where lock_invalidate_worker() is
    mount,               \* per mount, how far its unmount or eviction has come
    cached,              \* the mount has items of the lock's range in its cache
    dirty,               \* some of them are dirty in its open transaction
    stale,               \* a cached item was read before another mount's change
    inode                \* what the mount knows of the inode's refresh

lockVars == <<lock, worker, mount>>
cacheVars == <<cached, dirty, stale, inode>>
clientVars == <<lockVars, cacheVars>>

Inval == [old : Mode, new : Mode, live : BOOLEAN]

\* struct scoutfs_lock.  have: it is in the lock tree; pend: request_pending;
\* invs: inv_list, not empty exactly while invalidate_pending; inving:
\* invalidating_mode; shrink: it is on the shrink list; wrote: dirty_trans_seq
\* is the current transaction; gen: refresh_gen is not zero.
Lock == [have : BOOLEAN, mode : Mode, inving : Mode, pend : BOOLEAN,
         shrink : BOOLEAN, wrote : BOOLEAN, gen : BOOLEAN,
         waiters : [UseMode -> Nat], users : [UseMode -> Nat], invs : Seq(Inval)]

Nobody == [m \in UseMode |-> 0]

\* lock_alloc() of a lock, and the value of a lock that is not in the tree.
NoLock == [have |-> FALSE, mode |-> "null", inving |-> "null", pend |-> FALSE,
           shrink |-> FALSE, wrote |-> FALSE, gen |-> FALSE,
           waiters |-> Nobody, users |-> Nobody, invs |-> <<>>]

\* "none": no inode is in memory.  "now": last_refreshed equals the lock's last
\* refresh_gen and the fields are current.  "old": last_refreshed is less than
\* the lock's last refresh_gen.  "stale": last_refreshed equals the lock's last
\* refresh_gen but another mount changed the inode since.
InodeState == {"none", "now", "old", "stale"}

ClientTypeOK ==
    /\ lock \in [Client -> Lock]
    /\ worker \in [Client -> {"idle", "invalidate", "finish"}]
    /\ mount \in [Client -> {"mounted", "shutdown", "farewell", "reclaimed", "gone", "fenced"}]
    /\ cached \in [Client -> BOOLEAN]
    /\ dirty \in [Client -> BOOLEAN]
    /\ stale \in [Client -> BOOLEAN]
    /\ inode \in [Client -> InodeState]

ClientInit ==
    /\ lock = [c \in Client |-> NoLock]
    /\ worker = [c \in Client |-> "idle"]
    /\ mount = [c \in Client |-> "mounted"]
    /\ cached = [c \in Client |-> FALSE]
    /\ dirty = [c \in Client |-> FALSE]
    /\ stale = [c \in Client |-> FALSE]
    /\ inode = [c \in Client |-> "none"]

-----------------------------------------------------------------------------

lock_idle(l) ==
    /\ ~ l.pend
    /\ l.invs = <<>>
    /\ l.waiters = Nobody
    /\ l.users = Nobody

\* put_lock(): an idle lock is freed when its mode is null; it goes to the lru
\* otherwise, where the shrinker finds it.
put_lock(l) == IF lock_idle(l) /\ l.mode = "null" THEN NoLock ELSE l

\* The mount still exists.
Running(c) == mount[c] \notin {"gone", "fenced"}

\* The number of callers of a mount that are in the lock code or hold the lock.
Callers(l) == l.waiters["read"] + l.waiters["write"] + l.waiters["wonly"]
              + l.users["read"] + l.users["write"] + l.users["wonly"]

-----------------------------------------------------------------------------
(* lock_key_range() and scoutfs_unlock()                                   *)

\* A caller finds or creates the lock and starts waiting for its mode.
LockCall(c, m) ==
    /\ mount[c] = "mounted"
    /\ Callers(lock[c]) < MaxCallers
    /\ lock' = [lock EXCEPT ![c] = [lock[c] EXCEPT !.have = TRUE, !.waiters[m] = @ + 1]]
    /\ UNCHANGED <<worker, mount, cacheVars, netVars>>

\* The granted mode satisfies the caller, who becomes a user of the lock.
LockAcquire(c, m) ==
    /\ lock[c].waiters[m] > 0
    /\ lock_modes_match(lock[c].mode, m)
    /\ lock' = [lock EXCEPT ![c] =
          [lock[c] EXCEPT !.waiters[m] = @ - 1, !.users[m] = @ + 1]]
    /\ UNCHANGED <<worker, mount, cacheVars, netVars>>

\* Seeded bug: every waiting caller sends a request.
LockSendAgain(c, m) ==
    /\ lock[c].waiters[m] > 0
    /\ ~ lock_modes_match(lock[c].mode, m)
    /\ lock' = [lock EXCEPT ![c].pend = TRUE]
    /\ toServer' = toServer \cup Sent(c, RequestMsg(c, m))
    /\ UNCHANGED <<worker, mount, cacheVars, toClient, link>>

\* No request is in flight: the caller sends one for its mode.
LockSend(c, m) ==
    /\ lock[c].waiters[m] > 0
    /\ ~ lock_modes_match(lock[c].mode, m)
    /\ ~ lock[c].pend
    /\ lock' = [lock EXCEPT ![c].pend = TRUE]
    /\ toServer' = toServer \cup Sent(c, RequestMsg(c, m))
    /\ UNCHANGED <<worker, mount, cacheVars, toClient, link>>

\* The caller leaves without the lock: it does not block, its wait was
\* interrupted, or its request could not be sent.
LockGiveUp(c, m) ==
    /\ lock[c].waiters[m] > 0
    /\ lock' = [lock EXCEPT ![c] = put_lock([lock[c] EXCEPT !.waiters[m] = @ - 1])]
    /\ UNCHANGED <<worker, mount, cacheVars, netVars>>

\* Seeded bug: a caller unlocks what it does not hold.
scoutfs_unlock_twice(c, m) ==
    /\ lock[c].have
    /\ lock' = [lock EXCEPT ![c] =
          put_lock([lock[c] EXCEPT !.users[m] = @ - 1,
                                   !.wrote = @ \/ lock_mode_can_write(m)])]
    /\ UNCHANGED <<worker, mount, cacheVars, netVars>>

scoutfs_unlock(c, m) ==
    /\ lock[c].users[m] > 0
    /\ lock' = [lock EXCEPT ![c] =
          put_lock([lock[c] EXCEPT !.users[m] = @ - 1,
                                   !.wrote = @ \/ lock_mode_can_write(m)])]
    /\ UNCHANGED <<worker, mount, cacheVars, netVars>>

-----------------------------------------------------------------------------
(* Messages from the server                                                *)

\* Seeded bug: a grant does not move the lock's refresh_gen on.
RefreshGenStuck(c) == UNCHANGED inode

\* The pages of inodes that the mount refreshed before are now out of date.
RefreshGen(c) ==
    inode' = [inode EXCEPT ![c] = IF @ \in {"now", "stale"} THEN "old" ELSE @]

\* Seeded bug: a grant gives no refresh_gen once an inode was refreshed.
GrantResponseOnce(c) ==
    /\ Running(c)
    /\ toClient[c] # <<>>
    /\ LET msg     == Head(toClient[c])
           refresh == ~ lock_mode_can_read(msg.old) /\ lock_mode_can_read(msg.new)
                      /\ inode[c] = "none"
       IN  /\ msg.cmd = "grant"
           /\ lock' = [lock EXCEPT ![c] =
                 put_lock([lock[c] EXCEPT !.pend = FALSE, !.mode = msg.new,
                                          !.gen = @ \/ refresh])]
           /\ IF refresh THEN RefreshGen(c) ELSE UNCHANGED inode
    /\ toClient' = [toClient EXCEPT ![c] = Tail(@)]
    /\ UNCHANGED <<worker, mount, cached, dirty, stale, toServer, link>>

\* scoutfs_lock_grant_response()
GrantResponse(c) ==
    /\ Running(c)
    /\ toClient[c] # <<>>
    /\ LET msg     == Head(toClient[c])
           refresh == ~ lock_mode_can_read(msg.old) /\ lock_mode_can_read(msg.new)
       IN  /\ msg.cmd = "grant"
           /\ lock' = [lock EXCEPT ![c] =
                 put_lock([lock[c] EXCEPT !.pend = FALSE, !.mode = msg.new,
                                          !.gen = @ \/ refresh])]
           /\ IF refresh THEN RefreshGen(c) ELSE UNCHANGED inode
    /\ toClient' = [toClient EXCEPT ![c] = Tail(@)]
    /\ UNCHANGED <<worker, mount, cached, dirty, stale, toServer, link>>

\* scoutfs_lock_invalidate_request(): queue it on the lock for the worker, or
\* answer at once when there is no lock.
InvalidateRequest(c) ==
    /\ Running(c)
    /\ toClient[c] # <<>>
    /\ LET msg == Head(toClient[c])
           inv == [old |-> msg.old, new |-> msg.new, live |-> msg.live]
       IN  /\ msg.cmd = "inval"
           /\ IF lock[c].have
              THEN /\ lock' = [lock EXCEPT ![c].invs = Append(@, inv)]
                   /\ UNCHANGED toServer
              ELSE /\ toServer' = toServer \cup Sent(c, ResponseMsg(c, msg.new, msg.live))
                   /\ UNCHANGED lock
    /\ toClient' = [toClient EXCEPT ![c] = Tail(@)]
    /\ UNCHANGED <<worker, mount, cacheVars, link>>

-----------------------------------------------------------------------------
(* lock_invalidate_worker()                                                *)

\* First pass: once no user needs more than the new mode, the lock takes it.
InvalidateStart(c) ==
    /\ worker[c] = "idle"
    /\ Running(c)
    /\ lock[c].invs # <<>>
    /\ lock_counts_match(Head(lock[c].invs).new, lock[c].users)
    /\ lock' = [lock EXCEPT ![c] =
          [lock[c] EXCEPT !.inving = lock[c].mode, !.mode = Head(lock[c].invs).new]]
    /\ worker' = [worker EXCEPT ![c] = "invalidate"]
    /\ UNCHANGED <<mount, cacheVars, netVars>>

\* Seeded bug: the transaction is never synced.
NeedsSyncNever(c, inv) == FALSE

\* lock_invalidate() has to wait for the open transaction to be written.
NeedsSync(c, inv) == lock_mode_can_write(inv.old) /\ lock[c].wrote

\* Cached items can only stay behind when a write lock becomes a read lock.
KeepsCache(inv) == inv.old = "write" /\ inv.new = "read"

\* Second pass: lock_invalidate() writes and drops what the mount cached, then
\* the response is sent.  After scoutfs_lock_shutdown() only the response is.
InvalidateRespond(c) ==
    /\ worker[c] = "invalidate"
    /\ LET inv  == Head(lock[c].invs)
           drop == mount[c] = "mounted" /\ ~ KeepsCache(inv)
       IN  /\ mount[c] = "mounted" => ~ NeedsSync(c, inv)
           /\ cached' = [cached EXCEPT ![c] = @ /\ ~ drop]
           /\ stale' = [stale EXCEPT ![c] = @ /\ ~ drop]
           /\ toServer' = toServer \cup Sent(c, ResponseMsg(c, inv.new, inv.live))
    /\ worker' = [worker EXCEPT ![c] = "finish"]
    /\ UNCHANGED <<lock, mount, dirty, inode, toClient, link>>

\* Third pass: the request is done, the next one is looked at or the lock put.
InvalidateFinish(c) ==
    /\ worker[c] = "finish"
    /\ lock' = [lock EXCEPT ![c] =
          put_lock([lock[c] EXCEPT !.inving = "null", !.invs = Tail(@)])]
    /\ worker' = [worker EXCEPT ![c] = "idle"]
    /\ UNCHANGED <<mount, cacheVars, netVars>>

-----------------------------------------------------------------------------
(* Shrinking                                                               *)

\* lock_scan_objects() takes a lock from the lru.
ShrinkScan(c) ==
    /\ c \in Shrinkers
    /\ mount[c] = "mounted"
    /\ lock[c].have
    /\ lock_idle(lock[c])
    /\ lock' = [lock EXCEPT ![c] = [lock[c] EXCEPT !.pend = TRUE, !.shrink = TRUE]]
    /\ UNCHANGED <<worker, mount, cacheVars, netVars>>

\* lock_shrink_worker() sends the null request, or fails to.
ShrinkSend(c) ==
    /\ lock[c].shrink
    /\ \/ /\ toServer' = toServer \cup Sent(c, RequestMsg(c, "null"))
          /\ lock' = [lock EXCEPT ![c].shrink = FALSE]
       \/ /\ lock' = [lock EXCEPT ![c] =
                put_lock([lock[c] EXCEPT !.shrink = FALSE, !.pend = FALSE])]
          /\ UNCHANGED toServer
    /\ UNCHANGED <<worker, mount, cacheVars, toClient, link>>

-----------------------------------------------------------------------------
(* What the users of a lock do under it                                    *)

\* The mount has a user whose mode lets it read, or write, items.
Reading(c) == \E m \in UseMode : lock_mode_can_read(m) /\ lock[c].users[m] > 0

Writing(c) == \E m \in UseMode : lock_mode_can_write(m) /\ lock[c].users[m] > 0

\* Another mount has changes that are not yet visible in the persistent items.
DirtyElsewhere(c) == \E d \in Client \ {c} : dirty[d]

\* Items that are not in the cache are read from the persistent items.
Fill(c) ==
    /\ cached' = [cached EXCEPT ![c] = TRUE]
    /\ stale' = [stale EXCEPT ![c] = IF cached[c] THEN @ ELSE DirtyElsewhere(c)]

ReadItems(c) ==
    /\ c \in Touchers
    /\ Reading(c)
    /\ Fill(c)
    /\ UNCHANGED <<lockVars, dirty, inode, netVars>>

\* scoutfs_inode_refresh() under a lock that was acquired with LKF_REFRESH_INODE.
\* An equal last_refreshed means that the inode need not be loaded again.
InodeRefresh(c) ==
    /\ c \in Keepers
    /\ Reading(c)
    /\ IF lock[c].gen /\ inode[c] \in {"none", "old"}
       THEN Fill(c) /\ inode' = [inode EXCEPT ![c] = "now"]
       ELSE UNCHANGED <<cached, stale, inode>>
    /\ UNCHANGED <<lockVars, dirty, netVars>>

\* The vfs evicts the inode.
InodeEvict(c) ==
    /\ inode[c] # "none"
    /\ inode' = [inode EXCEPT ![c] = "none"]
    /\ UNCHANGED <<lockVars, cached, dirty, stale, netVars>>

\* A user changes items in its transaction.  What others have cached of them
\* is now out of date.
WriteItems(c) ==
    /\ c \in Touchers
    /\ Writing(c)
    /\ dirty' = [dirty EXCEPT ![c] = TRUE]
    /\ cached' = [cached EXCEPT ![c] = TRUE]
    /\ stale' = [d \in Client |-> IF d # c THEN cached[d]
                                  ELSE IF cached[c] THEN stale[c] ELSE DirtyElsewhere(c)]
    /\ inode' = [d \in Client |-> IF d # c /\ inode[d] = "now" THEN "stale" ELSE inode[d]]
    /\ UNCHANGED <<lockVars, netVars>>

\* scoutfs_trans_write_func() commits the open transaction with the server and
\* opens the next one, by its timer or for a scoutfs_trans_sync().
TransCommit(c) ==
    /\ mount[c] = "mounted"
    /\ link[c] = "up"
    /\ dirty[c] \/ lock[c].wrote
    /\ dirty' = [dirty EXCEPT ![c] = FALSE]
    /\ lock' = [lock EXCEPT ![c].wrote = FALSE]
    /\ UNCHANGED <<worker, mount, cached, stale, inode, netVars>>

-----------------------------------------------------------------------------
(* Unmount, lost connections and fencing                                   *)

\* scoutfs_lock_shutdown(), called by scoutfs_put_super() once nothing uses
\* locks any more and the shrinker has stopped.
LockShutdown(c) ==
    /\ c \in Leavers
    /\ mount[c] = "mounted"
    /\ Callers(lock[c]) = 0
    /\ ~ lock[c].shrink
    /\ inode[c] = "none"
    /\ mount' = [mount EXCEPT ![c] = "shutdown"]
    /\ UNCHANGED <<lock, worker, cacheVars, netVars>>

\* scoutfs_shutdown_trans() writes the last transaction, then
\* scoutfs_client_destroy() sends the farewell and waits for its response.
ShutdownTrans(c) ==
    /\ mount[c] = "shutdown"
    /\ link[c] = "up"
    /\ mount' = [mount EXCEPT ![c] = "farewell"]
    /\ dirty' = [dirty EXCEPT ![c] = FALSE]
    /\ lock' = [lock EXCEPT ![c].wrote = FALSE]
    /\ UNCHANGED <<worker, cached, stale, inode, netVars>>

\* scoutfs_lock_destroy(), or the end of a fenced mount: everything that the
\* mount kept in memory is gone and its messages are not delivered any more.
Vanish(c, how) ==
    /\ mount' = [mount EXCEPT ![c] = how]
    /\ lock' = [lock EXCEPT ![c] = NoLock]
    /\ worker' = [worker EXCEPT ![c] = "idle"]
    /\ cached' = [cached EXCEPT ![c] = FALSE]
    /\ dirty' = [dirty EXCEPT ![c] = FALSE]
    /\ stale' = [stale EXCEPT ![c] = FALSE]
    /\ inode' = [inode EXCEPT ![c] = "none"]
    /\ toClient' = [toClient EXCEPT ![c] = <<>>]
    /\ toServer' = {msg \in toServer : msg.rid # c}
    /\ link' = [link EXCEPT ![c] = "lost"]

\* scoutfs_net_reconn_free_worker(): a client did not reconnect in time.  Its
\* connection is destroyed and it will be fenced; until then it keeps using
\* the locks it has.
LoseClient(c) ==
    /\ c \in Victims
    /\ link[c] = "up"
    /\ Running(c)
    /\ link' = [link EXCEPT ![c] = "lost"]
    /\ toClient' = [toClient EXCEPT ![c] = <<>>]
    /\ toServer' = {msg \in toServer : msg.rid # c}
    /\ UNCHANGED <<lockVars, cacheVars>>

\* farewell_response() lets scoutfs_client_destroy() return and the mount end.
FarewellResponse(c) ==
    /\ mount[c] = "reclaimed"
    /\ Vanish(c, "gone")

\* The fence agent has isolated the mount from the shared devices.
FenceClient(c) ==
    /\ link[c] = "lost"
    /\ Running(c)
    /\ Vanish(c, "fenced")

=============================================================================
