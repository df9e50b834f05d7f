--------------------------- MODULE InodeDeletion ---------------------------
(***************************************************************************)
(* The life of one inode: created or made as a tmpfile, looked up and kept *)
(* in the inode caches of several mounts, linked, unlinked, and deleted by *)
(* the mount that finds that nobody uses it any more (inode.c, dir.c).     *)
(* Mounts learn of each other's cached inodes through the open ino maps    *)
(* that the server collects (omap.c).                                      *)
(*                                                                         *)
(* The cluster lock is the one that LockSystem models, taken as given: an  *)
(* operation that needs it is granted it when no other mount uses it in an *)
(* excluding mode, and the grant takes it away from those that only have   *)
(* it cached.  Losing write mode commits the mount's transaction.          *)
(***************************************************************************)
EXTENDS Naturals, FiniteSets

CONSTANTS
    Mount,
    None,
    Creators,            \* the mounts that create the inode
    Unlinkers,           \* the mounts that remove its name
    Linkers,             \* the mounts that give it a name again
    Scanners,            \* the mounts whose orphan scans run
    Leavers,             \* the mounts that may unmount
    Crashers,            \* the mounts that may crash
    Prompt,              \* no omap request is handled between the two parts of a greeting
    MaxFailovers         \* bound on the number of times that a server fails

ASSUME NoneAssumption == None \notin Mount
ASSUME FailoversAssumption == MaxFailovers \in Nat
ASSUME PromptAssumption == Prompt \in BOOLEAN

VARIABLES
    item,                \* the inode item and its orphan item
    stable,              \* the same, as of the last commit
    dirty,               \* the mount with an open transaction that changed them
    merged,              \* the orphan item is in the fs root
    mode,                \* the mode in which each mount has the lock
    vino,                \* the inode in each mount's inode cache
    bit,                 \* the inode's bit in each mount's omap group
    found,               \* the mount looked up the name and has not called iget
    map,                 \* the map in the lock's inode_deletion_lock_data
    trying,              \* the inode's bit in ldata->trying
    try,                 \* where the two tasks that can delete are
    req,                 \* the omap request of each task
    mount,               \* whether the mount is there
    rids,                \* the server's list of clients for omap requests
    recov,               \* the clients that have not yet greeted the server
    failovers

itemVars == <<item, stable, dirty>>
cacheVars == <<vino, bit, found>>
tryVars == <<map, trying, try, req>>
serverVars == <<rids, recov, failovers>>
vars == <<itemVars, merged, mode, cacheVars, tryVars, mount, serverVars>>

\* The tasks: the eviction of the inode, and the orphan scan.
Task == {"evict", "scan"}

Modes == {"null", "read", "write"}
Item == [st : {"none", "live", "gone"}, nlink : 0..1, orphan : BOOLEAN]
\* linked: the inode was put in the cache while it had a name or was created;
\* linkable: the vfs lets an inode with no name be linked (I_LINKABLE).
Vino == [st : {"none", "new", "cached", "freeing"}, open : BOOLEAN, nlink : 0..1,
         cov : BOOLEAN, linked : BOOLEAN, linkable : BOOLEAN]
Req == [st : {"none", "sent", "queued", "collect", "clear", "set", "error"},
        ask : SUBSET Mount,          \* requests on their way to clients
        wait : SUBSET Mount,         \* the rids that have not answered
        answer : SUBSET Mount,       \* responses on their way, with the bit clear
        answerSet : SUBSET Mount,    \* responses on their way, with the bit set
        bits : BOOLEAN]

TypeOK ==
    /\ item \in Item /\ stable \in Item
    /\ dirty \in Mount \cup {None}
    /\ merged \in BOOLEAN
    /\ mode \in [Mount -> Modes]
    /\ vino \in [Mount -> Vino]
    /\ bit \in [Mount -> BOOLEAN]
    /\ found \in [Mount -> BOOLEAN]
    /\ map \in [Mount -> {"stale", "asking", "clear", "set"}]
    /\ trying \in [Mount -> BOOLEAN]
    /\ try \in [Mount -> [Task -> {"idle", "ask", "scanwait", "lock", "data", "wait", "test", "delete"}]]
    /\ req \in [Mount -> [Task -> Req]]
    /\ mount \in [Mount -> {"up", "leaving", "dead", "gone"}]
    /\ rids \subseteq Mount /\ recov \subseteq Mount
    /\ failovers \in 0..MaxFailovers

NoVino == [st |-> "none", open |-> FALSE, nlink |-> 0, cov |-> FALSE,
           linked |-> FALSE, linkable |-> FALSE]

NoReq == [st |-> "none", ask |-> {}, wait |-> {}, answer |-> {}, answerSet |-> {}, bits |-> FALSE]

Init ==
    /\ item = [st |-> "none", nlink |-> 0, orphan |-> FALSE]
    /\ stable = item
    /\ dirty = None
    /\ merged = FALSE
    /\ mode = [m \in Mount |-> "null"]
    /\ vino = [m \in Mount |-> NoVino]
    /\ bit = [m \in Mount |-> FALSE]
    /\ found = [m \in Mount |-> FALSE]
    /\ map = [m \in Mount |-> "stale"]
    /\ trying = [m \in Mount |-> FALSE]
    /\ try = [m \in Mount |-> [x \in Task |-> "idle"]]
    /\ req = [m \in Mount |-> [x \in Task |-> NoReq]]
    /\ mount = [m \in Mount |-> "up"]
    /\ rids = Mount
    /\ recov = {}
    /\ failovers = 0

-----------------------------------------------------------------------------
(* The cluster lock, as LockSystem guarantees it. *)

Covers(have, want) == have = want \/ have = "write"

\* A task of the mount uses the lock over several steps, in write mode.
Held(m) == \E x \in Task : try[m][x] \in {"data", "wait", "test", "delete"}

\* What a grant to another mount leaves of a mode.
Invalidated(have, want) ==
    IF want = "write" THEN "null" ELSE IF have = "write" THEN "read" ELSE have

\* Lock recovery is over: the server has handled all clients' greetings.
Recovered == \A o \in Mount : mount[o] # "gone" => o \in rids

CanLock(m, want) ==
    /\ mount[m] \in {"up", "leaving"}
    /\ \/ Covers(mode[m], want)
       \/ /\ Recovered
          /\ \A o \in Mount \ {m} :
                Invalidated(mode[o], want) # mode[o] => ~ Held(o) /\ mount[o] # "dead"

\* The modes, covered inodes and committed items once the mount has the lock.
GrantedModes(m, want) ==
    IF Covers(mode[m], want) THEN mode
    ELSE [o \in Mount |-> IF o = m THEN want ELSE Invalidated(mode[o], want)]

GrantedVino(m, want) ==
    [o \in Mount |-> [vino[o] EXCEPT !.cov = @ /\ GrantedModes(m, want)[o] # "null"]]

Committed(m, want) == GrantedModes(m, want) # mode /\ dirty # None /\ dirty # m

\* The grant has a new write_seq, which makes the lock data stale.
GrantedMap(m, want) ==
    IF Covers(mode[m], want) THEN map ELSE [map EXCEPT ![m] = "stale"]

\* The mount changes items in its transaction, under the lock.
Change(m, to) ==
    /\ item' = to
    /\ stable' = IF Committed(m, "write") THEN item ELSE stable
    /\ dirty' = m

\* The mount reads items under the lock.
Read(m) ==
    /\ stable' = IF Committed(m, "read") THEN item ELSE stable
    /\ dirty' = IF Committed(m, "read") THEN None ELSE dirty
    /\ UNCHANGED item

\* A transaction is committed by itself too.
Commit ==
    /\ dirty # None
    /\ stable' = item
    /\ dirty' = None
    /\ UNCHANGED <<item, merged, mode, cacheVars, tryVars, mount, serverVars>>

\* A log merge moves committed items to the fs root.
Merge ==
    /\ merged # stable.orphan
    /\ merged' = stable.orphan
    /\ UNCHANGED <<itemVars, mode, cacheVars, tryVars, mount, serverVars>>

\* The lock is shrunk away.
ShrinkLock(m) ==
    /\ mount[m] = "up" /\ Recovered
    /\ mode[m] # "null" /\ ~ Held(m)
    /\ mode' = [mode EXCEPT ![m] = "null"]
    /\ vino' = [vino EXCEPT ![m].cov = FALSE]
    /\ stable' = IF dirty = m THEN item ELSE stable
    /\ dirty' = IF dirty = m THEN None ELSE dirty
    /\ UNCHANGED <<item, merged, bit, found, tryVars, mount, serverVars>>

-----------------------------------------------------------------------------
(* The mount's own bits: set as the inode enters the cache, and cleared as it  *)
(* is evicted.                                                                 *)

scoutfs_omap_set(m) == bit' = [bit EXCEPT ![m] = TRUE]

scoutfs_omap_clear(m) == bit' = [bit EXCEPT ![m] = FALSE]

scoutfs_omap_test(m) == bit[m]

-----------------------------------------------------------------------------
(* Operations on the file. *)

Up(m) == mount[m] = "up"

\* scoutfs_new_inode() for mknod with a name, or scoutfs_tmpfile() with an
\* orphan item in place of a name.
Create(m, n) ==
    /\ Up(m) /\ m \in Creators
    /\ item.st = "none"
    /\ CanLock(m, "write")
    /\ Change(m, [st |-> "live", nlink |-> n, orphan |-> n = 0])
    /\ mode' = GrantedModes(m, "write")
    /\ map' = GrantedMap(m, "write")
    /\ vino' = [GrantedVino(m, "write") EXCEPT ![m] =
                   [st |-> "cached", open |-> TRUE, nlink |-> n, cov |-> TRUE,
                    linked |-> TRUE, linkable |-> n = 0]]
    /\ scoutfs_omap_set(m)
    /\ UNCHANGED <<merged, found, trying, try, req, mount, serverVars>>

\* scoutfs_lookup() finds the entry, under the lock of the directory.
LookupDirent(m) ==
    /\ Up(m)
    /\ ~ found[m]
    /\ item.st = "live" /\ item.nlink > 0
    /\ vino[m].st # "new" /\ ~ vino[m].open
    /\ found' = [found EXCEPT ![m] = TRUE]
    /\ UNCHANGED <<itemVars, merged, mode, vino, bit, tryVars, mount, serverVars>>

\* iget5_locked() in scoutfs_iget(): waits for an inode that is being freed,
\* before the cluster lock is taken.
IgetStart(m) ==
    /\ found[m]
    /\ vino[m].st \in {"none", "cached"}
    /\ found' = [found EXCEPT ![m] = FALSE]
    /\ vino' = [vino EXCEPT ![m] = IF @.st = "none" THEN [@ EXCEPT !.st = "new"]
                                   ELSE [@ EXCEPT !.open = TRUE]]
    /\ UNCHANGED <<itemVars, merged, mode, bit, tryVars, mount, serverVars>>

\* The rest of scoutfs_iget() under the lock: refresh, which fails when there
\* is no inode item, and scoutfs_omap_set() of a new inode.
IgetFinish(m) ==
    /\ vino[m].st = "new"
    /\ CanLock(m, "read")
    /\ Read(m)
    /\ mode' = GrantedModes(m, "read")
    /\ map' = GrantedMap(m, "read")
    /\ LET there == item.st = "live" IN
       /\ IF there THEN scoutfs_omap_set(m) ELSE UNCHANGED bit
       /\ vino' = [GrantedVino(m, "read") EXCEPT ![m] =
                      IF there
                      THEN [st |-> "cached", open |-> TRUE, nlink |-> item.nlink,
                            cov |-> TRUE, linked |-> item.nlink > 0, linkable |-> FALSE]
                      ELSE NoVino]
    /\ UNCHANGED <<merged, found, trying, try, req, mount, serverVars>>

\* The last user of the inode on this mount goes away.
Close(m) ==
    /\ Up(m)
    /\ vino[m].open
    /\ vino' = [vino EXCEPT ![m].open = FALSE]
    /\ UNCHANGED <<itemVars, merged, mode, bit, found, tryVars, mount, serverVars>>

\* The parts of scoutfs_unlink() and scoutfs_link() that concern the inode:
\* both refresh it under the write lock and change nlink, the entry and the
\* orphan item in one transaction.
SetLink(m, n) ==
    /\ Up(m)
    /\ vino[m].st = "cached" /\ vino[m].open
    /\ item.st = "live" /\ item.nlink # n
    /\ CanLock(m, "write")
    /\ Change(m, [item EXCEPT !.nlink = n, !.orphan = (n = 0)])
    /\ mode' = GrantedModes(m, "write")
    /\ map' = GrantedMap(m, "write")
    /\ vino' = [GrantedVino(m, "write") EXCEPT ![m].nlink = n, ![m].cov = TRUE]
    /\ UNCHANGED <<merged, bit, found, trying, try, req, mount, serverVars>>

scoutfs_unlink(m) == m \in Unlinkers /\ SetLink(m, 0)

\* vfs_link() looks at the cached nlink before scoutfs_link() refreshes it.
scoutfs_link(m) ==
    /\ m \in Linkers
    /\ vino[m].nlink > 0 \/ vino[m].linkable
    /\ SetLink(m, 1)

-----------------------------------------------------------------------------
(* Eviction, orphan scans and deletion. *)

\* scoutfs_evict_inode(): deletion is tried for an unlinked inode whose lock
\* still covers it.
scoutfs_evict_inode(m) ==
    /\ vino[m].st = "cached"
    /\ ~ vino[m].open
    /\ mount[m] \in {"up", "leaving"}
    /\ scoutfs_omap_clear(m)
    /\ IF vino[m].cov /\ vino[m].nlink = 0
       THEN /\ vino' = [vino EXCEPT ![m].st = "freeing"]
            /\ try' = [try EXCEPT ![m]["evict"] = "lock"]
       ELSE /\ vino' = [vino EXCEPT ![m] = NoVino]
            /\ UNCHANGED try
    /\ UNCHANGED <<itemVars, merged, mode, found, map, trying, req, mount, serverVars>>

\* inode_orphan_scan_worker() finds the orphan item in the fs root; an inode
\* that is cached here is left to its eviction.
ScanOrphan(m) ==
    /\ Up(m) /\ m \in Scanners
    /\ try[m]["scan"] = "idle"
    /\ merged
    /\ ~ scoutfs_omap_test(m)
    /\ try' = [try EXCEPT ![m]["scan"] = "ask"]
    /\ UNCHANGED <<itemVars, merged, mode, cacheVars, map, trying, req, mount, serverVars>>

\* scoutfs_client_open_ino_map() of the scan.
ScanAsk(m) ==
    /\ try[m]["scan"] = "ask"
    /\ try' = [try EXCEPT ![m]["scan"] = "scanwait"]
    /\ req' = [req EXCEPT ![m]["scan"].st = "sent"]
    /\ UNCHANGED <<itemVars, merged, mode, cacheVars, map, trying, mount, serverVars>>

Answered(m, x) == req[m][x].st \in {"clear", "set", "error"}

ScanAnswer(m) ==
    /\ try[m]["scan"] = "scanwait"
    /\ Answered(m, "scan")
    /\ try' = [try EXCEPT ![m]["scan"] = IF req[m]["scan"].st = "clear" THEN "lock" ELSE "idle"]
    /\ req' = [req EXCEPT ![m]["scan"] = NoReq]
    /\ UNCHANGED <<itemVars, merged, mode, cacheVars, map, trying, mount, serverVars>>

\* try_delete_inode_items() gets the write lock.
TryLock(m, x) ==
    /\ try[m][x] = "lock"
    /\ CanLock(m, "write")
    /\ try' = [try EXCEPT ![m][x] = "data"]
    /\ mode' = GrantedModes(m, "write")
    /\ map' = GrantedMap(m, "write")
    /\ vino' = GrantedVino(m, "write")
    /\ stable' = IF Committed(m, "write") THEN item ELSE stable
    /\ dirty' = IF Committed(m, "write") THEN None ELSE dirty
    /\ UNCHANGED <<item, merged, bit, found, trying, req, mount, serverVars>>

\* get_current_lock_data(): one task asks for the map, the other one waits for
\* it, unless the map was got under this hold of the lock.
get_current_lock_data(m, x) ==
    /\ try[m][x] = "data"
    /\ \/ /\ map[m] \in {"clear", "set"}
          /\ try' = [try EXCEPT ![m][x] = "test"]
          /\ UNCHANGED <<map, req>>
       \/ /\ map[m] = "stale"
          /\ map' = [map EXCEPT ![m] = "asking"]
          /\ try' = [try EXCEPT ![m][x] = "wait"]
          /\ req' = [req EXCEPT ![m][x].st = "sent"]
    /\ UNCHANGED <<itemVars, merged, mode, cacheVars, trying, mount, serverVars>>

\* The task is done with its attempt and unlocks; an eviction frees the inode.
Done(m, x) ==
    /\ try' = [try EXCEPT ![m][x] = "idle"]
    /\ vino' = IF x = "evict" THEN [vino EXCEPT ![m] = NoVino] ELSE vino

\* The response to the request for the map, or an error.
GotLockData(m, x) ==
    /\ try[m][x] = "wait"
    /\ Answered(m, x)
    /\ req' = [req EXCEPT ![m][x] = NoReq]
    /\ IF req[m][x].st = "error"
       THEN /\ map' = [map EXCEPT ![m] = "stale"]
            /\ Done(m, x)
       ELSE /\ map' = [map EXCEPT ![m] = req[m][x].st]
            /\ try' = [try EXCEPT ![m][x] = "test"]
            /\ UNCHANGED vino
    /\ UNCHANGED <<itemVars, merged, mode, bit, found, trying, mount, serverVars>>

\* The conditions for deletion: cached nowhere, and nlink is 0.
CanDelete(m) ==
    /\ ~ scoutfs_omap_test(m)
    /\ map[m] = "clear"
    /\ item.st = "live" /\ item.nlink = 0

\* Seeded bug: the trying bit isn't looked at.
TryTestTwice(m, x) ==
    /\ try[m][x] = "test"
    /\ CanDelete(m)
    /\ try' = [try EXCEPT ![m][x] = "delete"]
    /\ UNCHANGED <<itemVars, merged, mode, cacheVars, map, trying, req, mount, serverVars>>

\* The rest of try_delete_inode_items(): one attempt per inode at a time.
TryTest(m, x) ==
    /\ try[m][x] = "test"
    /\ IF ~ trying[m] /\ CanDelete(m)
       THEN /\ trying' = [trying EXCEPT ![m] = TRUE]
            /\ try' = [try EXCEPT ![m][x] = "delete"]
            /\ UNCHANGED vino
       ELSE /\ UNCHANGED trying
            /\ Done(m, x)
    /\ UNCHANGED <<itemVars, merged, mode, bit, found, map, req, mount, serverVars>>

\* Seeded bug: the orphan item is left behind.
DeletedItem == [item EXCEPT !.st = "gone"]

\* The inode item and the orphan item are deleted together.
Deleted == [item EXCEPT !.st = "gone", !.orphan = FALSE]

\* The last transaction of delete_inode_items().
delete_inode_items(m, x) ==
    /\ try[m][x] = "delete"
    /\ item' = Deleted
    /\ dirty' = m
    /\ trying' = [trying EXCEPT ![m] = FALSE]
    /\ Done(m, x)
    /\ UNCHANGED <<stable, merged, mode, bit, found, map, req, mount, serverVars>>

-----------------------------------------------------------------------------
(* The open ino maps. *)

\* scoutfs_omap_server_handle_request() queues the request, once the greeting of
\* the client, which precedes it in the connection, is handled.
ServerOpenInoMap(m, x) ==
    /\ req[m][x].st = "sent"
    /\ m \in rids
    /\ req' = [req EXCEPT ![m][x].st = "queued"]
    /\ UNCHANGED <<itemVars, merged, mode, cacheVars, map, trying, try, mount, serverVars>>

\* A private copy of the list of clients, without the one that asks.
OtherRids(m) == rids \ {m}

\* Seeded bug: requests are handled before all clients are back.
handle_request_early(m, x) ==
    /\ req[m][x].st = "queued"
    /\ req' = [req EXCEPT ![m][x] = [@ EXCEPT !.st = IF rids = {m} THEN "clear" ELSE "collect",
                                             !.ask = OtherRids(m), !.wait = OtherRids(m)]]
    /\ UNCHANGED <<itemVars, merged, mode, cacheVars, map, trying, try, mount, serverVars>>

\* handle_request(), once no client has yet to greet: ask all other clients, or
\* answer at once when the client is the only one in the list.  Sending to a client that lost its
\* connection fails the request.
handle_request(m, x) ==
    /\ req[m][x].st = "queued"
    /\ recov = {}
    /\ LET ask == OtherRids(m) IN
       \/ req' = [req EXCEPT ![m][x] = [@ EXCEPT !.st = IF rids = {m} THEN "clear" ELSE "collect",
                                                 !.ask = ask, !.wait = ask]]
       \/ /\ \E o \in ask : mount[o] = "dead"
          /\ req' = [req EXCEPT ![m][x] = [NoReq EXCEPT !.st = "error"]]
    /\ UNCHANGED <<itemVars, merged, mode, cacheVars, map, trying, try, mount, serverVars>>

\* scoutfs_omap_client_handle_request()
ClientHandleRequest(o, m, x) ==
    /\ o \in req[m][x].ask
    /\ mount[o] \in {"up", "leaving"}
    /\ req' = [req EXCEPT ![m][x].ask = @ \ {o},
                          ![m][x].answer = @ \cup (IF bit[o] THEN {} ELSE {o}),
                          ![m][x].answerSet = @ \cup (IF bit[o] THEN {o} ELSE {})]
    /\ UNCHANGED <<itemVars, merged, mode, cacheVars, map, trying, try, mount, serverVars>>

\* The request no longer waits for the client, with what it answered.
Contributed(r, o, b) ==
    LET left == r.wait \ {o}
        bits == r.bits \/ b
    IN IF r.st # "collect" \/ o \notin r.wait THEN r
       ELSE IF left # {} THEN [r EXCEPT !.wait = left, !.bits = bits]
       ELSE [NoReq EXCEPT !.st = IF bits THEN "set" ELSE "clear"]

\* scoutfs_omap_server_handle_response(): the last client's response lets the
\* server answer the request.
ServerHandleResponse(o, m, x) ==
    /\ LET r == req[m][x] IN
       \/ /\ o \in r.answer
          /\ req' = [req EXCEPT ![m][x] = Contributed([r EXCEPT !.answer = r.answer \ {o}], o, FALSE)]
       \/ /\ o \in r.answerSet
          /\ req' = [req EXCEPT ![m][x] = Contributed([r EXCEPT !.answerSet = r.answerSet \ {o}], o, TRUE)]
    /\ UNCHANGED <<itemVars, merged, mode, cacheVars, map, trying, try, mount, serverVars>>

\* Seeded bug: requests keep waiting for a client that is gone.
RemoveRidOnly(o) ==
    /\ rids' = rids \ {o}
    /\ req' = [req EXCEPT ![o] = [x \in Task |-> NoReq]]

\* scoutfs_omap_remove_rid(): no request waits for the client any more.
RemoveRid(o) ==
    /\ rids' = rids \ {o}
    /\ req' = [m \in Mount |-> [x \in Task |->
                  IF m = o THEN NoReq ELSE Contributed(req[m][x], o, FALSE)]]

-----------------------------------------------------------------------------
(* Mounts and servers that come and go. *)

\* An unmount stops the orphan scan and evicts the inodes.
Unmount(m) ==
    /\ Up(m) /\ m \in Leavers
    /\ ~ vino[m].open /\ vino[m].st \in {"none", "cached"} /\ ~ found[m]
    /\ try[m]["scan"] = "idle"
    /\ mount' = [mount EXCEPT ![m] = "leaving"]
    /\ UNCHANGED <<itemVars, merged, mode, cacheVars, tryVars, serverVars>>

\* The last transaction is written, and reclaim_rid() handles the farewell.
Farewell(m) ==
    /\ mount[m] = "leaving"
    /\ vino[m].st = "none"
    /\ m \notin recov
    /\ mount' = [mount EXCEPT ![m] = "gone"]
    /\ mode' = [mode EXCEPT ![m] = "null"]
    /\ map' = [map EXCEPT ![m] = "stale"]
    /\ stable' = IF dirty = m THEN item ELSE stable
    /\ dirty' = IF dirty = m THEN None ELSE dirty
    /\ RemoveRid(m)
    /\ UNCHANGED <<item, merged, cacheVars, trying, try, recov, failovers>>

\* A mount crashes and loses its open transaction.
Crash(m) ==
    /\ m \in Crashers
    /\ mount[m] \in {"up", "leaving"}
    /\ mount' = [mount EXCEPT ![m] = "dead"]
    /\ item' = IF dirty = m THEN stable ELSE item
    /\ dirty' = IF dirty = m THEN None ELSE dirty
    /\ vino' = [vino EXCEPT ![m] = NoVino]
    /\ bit' = [bit EXCEPT ![m] = FALSE]
    /\ found' = [found EXCEPT ![m] = FALSE]
    /\ map' = [map EXCEPT ![m] = "stale"]
    /\ trying' = [trying EXCEPT ![m] = FALSE]
    /\ try' = [try EXCEPT ![m] = [x \in Task |-> "idle"]]
    /\ UNCHANGED <<stable, merged, mode, req, serverVars>>

\* It is fenced, and reclaim_rid() frees its locks.
Reclaim(m) ==
    /\ mount[m] = "dead"
    /\ mount' = [mount EXCEPT ![m] = "gone"]
    /\ mode' = [mode EXCEPT ![m] = "null"]
    /\ recov' = recov \ {m}
    /\ RemoveRid(m)
    /\ UNCHANGED <<itemVars, merged, cacheVars, map, trying, try, failovers>>

\* The server fails: scoutfs_omap_server_shutdown() forgets everything, and the
\* clients will send their requests to the next server, which waits for all
\* that are mounted.
ServerFail ==
    /\ failovers < MaxFailovers
    /\ failovers' = failovers + 1
    /\ rids' = {}
    /\ recov' = {m \in Mount : mount[m] # "gone"}
    /\ req' = [m \in Mount |-> [x \in Task |->
                  IF req[m][x].st \in {"none", "clear", "set", "error"} THEN req[m][x]
                  ELSE [NoReq EXCEPT !.st = "sent"]]]
    /\ UNCHANGED <<itemVars, merged, mode, cacheVars, map, trying, try, mount>>

\* server_greeting() finishes the client's recovery ...
Greeting(m) ==
    /\ m \in recov
    /\ mount[m] \in {"up", "leaving"}
    /\ recov' = recov \ {m}
    /\ UNCHANGED <<itemVars, merged, mode, cacheVars, tryVars, mount, rids, failovers>>

\* ... and, a little later, adds it to the clients that are asked.
AddRid(m) ==
    /\ m \notin recov /\ m \notin rids
    /\ mount[m] \in {"up", "leaving"}
    /\ rids' = rids \cup {m}
    /\ UNCHANGED <<itemVars, merged, mode, cacheVars, tryVars, mount, recov, failovers>>

-----------------------------------------------------------------------------
DeleteStep(m, x) ==
    \/ TryLock(m, x) \/ get_current_lock_data(m, x) \/ GotLockData(m, x)
    \/ TryTest(m, x) \/ delete_inode_items(m, x)


\* When greetings are prompt, every client that greeted is asked.
PromptGreetings ==
    Prompt => \A m \in Mount : mount[m] \in {"up", "leaving"} /\ m \notin recov => m \in rids

OmapStep(m, x) ==
    \/ ServerOpenInoMap(m, x)
    \/ PromptGreetings /\ handle_request(m, x)
    \/ \E o \in Mount : ClientHandleRequest(o, m, x) \/ ServerHandleResponse(o, m, x)

ScanStep(m) == ScanOrphan(m) \/ ScanAsk(m) \/ ScanAnswer(m)

Next ==
    \/ Commit \/ Merge \/ ServerFail
    \/ \E m \in Mount :
          \/ ShrinkLock(m)
          \/ \E n \in 0..1 : Create(m, n)
          \/ LookupDirent(m) \/ IgetStart(m) \/ IgetFinish(m) \/ Close(m)
          \/ scoutfs_unlink(m) \/ scoutfs_link(m) \/ scoutfs_evict_inode(m)
          \/ ScanStep(m)
          \/ \E x \in Task : DeleteStep(m, x) \/ OmapStep(m, x)
          \/ Unmount(m) \/ Farewell(m) \/ Crash(m) \/ Reclaim(m) \/ Greeting(m) \/ AddRid(m)

Spec == Init /\ [][Next]_vars

-----------------------------------------------------------------------------
(* Properties. *)

\* The items of an inode aren't deleted while a mount has it in use that got it
\* while it had a name, or created it: try_delete_inode_items() only deletes
\* what no mount's open ino map says is cached.
InUseNotDeleted ==
    \A m \in Mount : vino[m].st = "cached" /\ vino[m].linked => item.st = "live"

\* The orphan item exists exactly while the inode has no name, also after a
\* crash: it is created, deleted and dropped in the transaction that changes
\* nlink or deletes the inode, so that no unlinked inode is ever lost track of.
OrphanTracked ==
    \A i \in {item, stable} : i.orphan <=> i.st = "live" /\ i.nlink = 0

\* The bit in the omap is set exactly for inodes in the cache, which the
\* WARN_ONs of scoutfs_omap_set() and scoutfs_omap_clear() expect.
BitsMatchCache == \A m \in Mount : bit[m] <=> vino[m].st = "cached"

\* Only one task of a mount deletes an inode's items at a time, and only in
\* write mode (the trying bits of inode_deletion_lock_data).
OneDeleter ==
    \A m \in Mount, x \in Task : try[m][x] = "delete" =>
        mode[m] = "write" /\ \A o \in Mount, y \in Task : try[o][y] = "delete" => <<o, y>> = <<m, x>>

\* A mount that runs.
Runs(m) == mount[m] \in {"up", "leaving"}

\* A mount has the inode in use that it got while it had a name, or created.  What is
\* said of such mounts is only said when greetings are prompt.
InUse(m) == Prompt /\ vino[m].st = "cached" /\ vino[m].linked

\* A mount has seen the inode's items.
Known(m) == vino[m].st \in {"cached", "freeing"}

\* Write mode excludes the others, what is dirty is so under write mode, and a crash
\* leaves the items that others have seen.
LockedItems ==
    /\ \A m, o \in Mount : mode[m] = "write" /\ o # m => mode[o] = "null"
    /\ dirty = None => stable = item
    /\ dirty # None => mode[dirty] = "write" /\ Runs(dirty)
    /\ \A m \in Mount : InUse(m) /\ m # dirty => stable.st = "live"
    /\ \A m \in Mount : Known(m) => item.st # "none"
    /\ \A m \in Mount : Known(m) /\ m # dirty => stable.st # "none"

\* What a mount does while it comes and goes, and the steps of its two tasks.
TasksRun(m) ==
    /\ ~ Runs(m) => vino[m].st = "none" /\ ~ found[m] /\ \A x \in Task : try[m][x] = "idle"
    /\ mount[m] = "leaving" => ~ found[m] /\ vino[m].st # "new" /\ try[m]["scan"] = "idle"
    /\ try[m]["evict"] # "idle" => vino[m].st = "freeing"
    /\ Held(m) => mode[m] = "write"
    /\ \A x \in Task : try[m][x] = "wait" => map[m] = "asking"
    /\ \A x \in Task : try[m][x] = "delete" => trying[m]
    /\ try[m]["evict"] = try[m]["scan"] => try[m]["scan"] \notin {"wait", "delete"}

\* Nobody uses an inode whose items are deleted, and nobody can give it a name.
DeleterAlone(m) ==
    (\E x \in Task : try[m][x] = "delete") =>
        /\ item.st = "live" /\ item.nlink = 0
        /\ \A o \in Mount : ~ InUse(o)
        /\ vino[m].st = "cached" => vino[m].nlink = 0 /\ ~ vino[m].linkable

\* A map that was collected under the write lock says that no other mount uses the
\* inode, and one that is being collected doesn't lose a mount that does.
MapsTrue(m) ==
    /\ mode[m] = "write" /\ map[m] = "clear" => \A o \in Mount \ {m} : ~ InUse(o)
    /\ \A x \in Task : Runs(m) /\ try[m][x] \notin {"wait", "scanwait"} => req[m][x] = NoReq
    /\ \A x \in Task : req[m][x].st \in {"sent", "queued"} =>
          req[m][x].ask = {} /\ req[m][x].answer = {}
    /\ \A x \in Task, o \in Mount \ {m} : try[m][x] = "wait" /\ InUse(o) =>
          /\ req[m][x].st # "clear"
          /\ req[m][x].st = "collect" =>
                req[m][x].bits \/ (o \in req[m][x].wait /\ o \notin req[m][x].answer)

\* InUseNotDeleted, when greetings are prompt.
UsedNotDeleted == \A m \in Mount : InUse(m) => item.st = "live"

\* What OrphanTracked and OneDeleter rest on, inductively, and InUseNotDeleted when
\* greetings are prompt.
DeletionInv ==
    /\ TypeOK /\ BitsMatchCache /\ OrphanTracked /\ UsedNotDeleted /\ LockedItems
    /\ \A m \in Mount : TasksRun(m) /\ DeleterAlone(m) /\ MapsTrue(m)

Unlinked == item.st = "live" /\ item.nlink = 0

\* The system's own steps happen: unused inodes that are unlinked or that no
\* lock covers are dropped (scoutfs_drop_inode()), orphan scans repeat, merges
\* come, messages arrive, and crashed mounts are reclaimed.
Fairness ==
    /\ WF_vars(Commit) /\ WF_vars(Merge)
    /\ \A m \in Mount :
          /\ WF_vars(IgetStart(m) \/ IgetFinish(m))
          /\ WF_vars(scoutfs_evict_inode(m) /\ (vino[m].nlink = 0 \/ ~ vino[m].cov \/ mount[m] = "leaving"))
          /\ WF_vars(Farewell(m) \/ Reclaim(m) \/ Greeting(m) \/ AddRid(m))
          /\ SF_vars(\E x \in Task : TryLock(m, x))
          /\ WF_vars(ScanStep(m))
          /\ \A x \in Task : WF_vars(DeleteStep(m, x) \/ OmapStep(m, x))

FairSpec == Spec /\ Fairness

\* An unlinked inode that all users close in the end is deleted in the end, by
\* an eviction or by an orphan scan, whatever mounts and servers crash, as long
\* as no mount keeps the lock cached for ever: the map in the lock's data is only
\* asked for again when the lock is.
UnlinkedDeleted ==
    (/\ <>[](\A m \in Mount : ~ vino[m].open)
     /\ <>[](\E m \in Scanners : Up(m))
     /\ \A m \in Mount : []<>(mode[m] # "write") \/ <>[](\E x \in Task : try[m][x] = "wait"))
    => <>[](~ Unlinked)

=============================================================================
