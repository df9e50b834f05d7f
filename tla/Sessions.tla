------------------------------ MODULE Sessions ------------------------------
(***************************************************************************)
(* Mounts that connect to a server, recover when it is replaced, say       *)
(* farewell and leave, or are fenced and reclaimed (client.c, recov.c and  *)
(* the greeting, farewell and reclaim code of server.c).  The messages of  *)
(* a connection are the subject of NetConn; here a message of a connection *)
(* arrives as long as the connection is up.                                *)
(***************************************************************************)
EXTENDS Naturals, FiniteSets, Sequences, Functions

CONSTANTS
    Mount,
    QuorumMount,         \* the mounts that are quorum members
    VotesNeeded,         \* the majority of the quorum members
    MaxBreaks,           \* bound on connections that break
    MaxFailovers,        \* bound on servers that fail by themselves
    Crashers             \* the mounts that may crash

ASSUME MountAssumption == IsFiniteSet(Mount) /\ VotesNeeded \in Nat
ASSUME BoundsAssumption == MaxBreaks \in Nat /\ MaxFailovers \in Nat

VARIABLES
    client,              \* what the mount does
    term,                \* the server whose greeting the client has seen last
    link,                \* the client's socket
    using,               \* the client has a log tree
    conn,                \* the server's connections for a mount
    listed,              \* the mounts whose connection was announced by notify_up
    anon,                \* a connection broke before its greeting was processed
    asked,               \* farewell requests that were received in a connection
    answered,            \* mounts whose connection holds a farewell response
    pending,             \* what each mount has yet to recover
    requests,            \* server->farewell_requests
    kick,                \* the farewell work is queued
    work,                \* the lists of the farewell work that runs
    fence,               \* the fence requests
    stop,                \* the server is stopping
    items,               \* the mounted client items
    resources,           \* the open log trees
    stable,              \* both, as of the last commit
    breaks,
    failovers

clientVars == <<client, term, link, using>>
connVars == <<conn, listed, anon, asked, answered>>
farewellVars == <<requests, kick, work>>
serverVars == <<connVars, farewellVars, pending, fence, stop>>
storeVars == <<items, resources, stable>>
bounds == <<breaks, failovers>>
vars == <<clientVars, serverVars, storeVars, bounds>>

\* The kinds of recovery, SCOUTFS_RECOV_ALL.
Recov == {"greeting", "locks"}

Idle == [step |-> "idle", reqs |-> << >>, send |-> << >>]

TypeOK ==
    /\ client \in [Mount -> {"out", "mounting", "up", "leaving", "left", "dead"}]
    /\ term \in [Mount -> {"never", "old", "current"}]
    /\ link \in [Mount -> {"none", "greeting", "inserted", "greeted", "up"}]
    /\ using \subseteq Mount
    /\ conn \in [Mount -> SUBSET {"up", "wait"}]
    /\ listed \subseteq Mount /\ anon \in BOOLEAN
    /\ asked \subseteq Mount /\ answered \subseteq Mount
    /\ pending \in [Mount -> SUBSET Recov]
    /\ requests \in Seq(Mount) /\ kick \in BOOLEAN
    /\ work \in [step : {"idle", "reclaim"}, reqs : Seq(Mount), send : Seq(Mount)]
    /\ fence \in [Mount -> {"none", "asked", "fenced"}]
    /\ stop \in BOOLEAN
    /\ items \subseteq Mount /\ resources \subseteq Mount
    /\ stable \in [items : SUBSET Mount, resources : SUBSET Mount]
    /\ breaks \in 0..MaxBreaks /\ failovers \in 0..MaxFailovers

Init ==
    /\ client = [m \in Mount |-> "out"]
    /\ term = [m \in Mount |-> "never"]
    /\ link = [m \in Mount |-> "none"]
    /\ using = {}
    /\ conn = [m \in Mount |-> {}]
    /\ listed = {} /\ anon = FALSE /\ asked = {} /\ answered = {}
    /\ pending = [m \in Mount |-> {}]
    /\ requests = << >> /\ kick = FALSE /\ work = Idle
    /\ fence = [m \in Mount |-> "none"]
    /\ stop = FALSE
    /\ items = {} /\ resources = {}
    /\ stable = [items |-> {}, resources |-> {}]
    /\ breaks = 0 /\ failovers = 0

\* scoutfs_recov_finish() and scoutfs_recov_is_pending()
scoutfs_recov_finish(m, which) == pending' = [pending EXCEPT ![m] = @ \ which]
scoutfs_recov_is_pending(m, which) == pending[m] \cap which # {}

\* The elements of a list that are in a set, in the order of the list: the k-th of
\* them is at the index that k of the kept indexes don't exceed.
Kept(list, S) == {i \in 1..Len(list) : list[i] \in S}
Rank(I, i) == Cardinality({j \in I : j <= i})
Filter(list, S) ==
    [k \in 1..Cardinality(Kept(list, S)) |->
        list[CHOOSE i \in Kept(list, S) : Rank(Kept(list, S), i) = k]]

Reversed(list) == [i \in 1..Len(list) |-> list[Len(list) - i + 1]]

\* free_farewell_requests()
Without(reqs, m) == Filter(reqs, Mount \ {m})

-----------------------------------------------------------------------------
(* The client. *)

Running(m) == client[m] \in {"mounting", "up", "leaving"}

\* scoutfs_client_setup() queues the work that connects.
scoutfs_client_setup(m) ==
    /\ client[m] = "out"
    /\ client' = [client EXCEPT ![m] = "mounting"]
    /\ UNCHANGED <<term, link, using, serverVars, storeVars, bounds>>

\* lookup_mounted_client_item() reads the last committed super block.
lookup_mounted_client_item(m) == m \in stable.items

\* scoutfs_client_connect_worker(): a client that said farewell and no longer
\* finds its mounted client item is done; otherwise it connects and greets.
scoutfs_client_connect_worker(m) ==
    /\ Running(m) /\ link[m] = "none"
    /\ IF client[m] = "leaving" /\ ~lookup_mounted_client_item(m)
       THEN client' = [client EXCEPT ![m] = "left"] /\ UNCHANGED link
       ELSE link' = [link EXCEPT ![m] = "greeting"] /\ UNCHANGED client
    /\ UNCHANGED <<term, using, serverVars, storeVars, bounds>>

\* client_greeting(): the greeting response arrives.
client_greeting(m) ==
    /\ link[m] = "greeted"
    /\ link' = [link EXCEPT ![m] = "up"]
    /\ term' = [term EXCEPT ![m] = "current"]
    /\ client' = [client EXCEPT ![m] = IF @ = "mounting" THEN "up" ELSE @]
    /\ UNCHANGED <<using, serverVars, storeVars, bounds>>

\* scoutfs_client_destroy() submits a farewell request.
scoutfs_client_destroy(m) ==
    /\ client[m] = "up"
    /\ client' = [client EXCEPT ![m] = "leaving"]
    /\ using' = using \ {m}
    /\ UNCHANGED <<term, link, serverVars, storeVars, bounds>>

\* client_farewell_response(): the response arrives.  The client is done and
\* frees its connection.
client_farewell_response(m) ==
    /\ client[m] = "leaving" /\ link[m] = "up" /\ m \in answered
    /\ client' = [client EXCEPT ![m] = "left"]
    /\ link' = [link EXCEPT ![m] = "none"]
    /\ conn' = [conn EXCEPT ![m] = @ \ {"up"}]
    /\ listed' = listed \ {m}
    /\ answered' = answered \ {m}
    /\ stop' = (stop \/ m \notin listed)
    /\ requests' = Without(requests, m)
    /\ UNCHANGED <<term, using, anon, asked, kick, work, pending, fence, storeVars, bounds>>

-----------------------------------------------------------------------------
(* The server's greeting, and recovery. *)

\* server_greeting() of a client that has seen no server inserts its item.
insert_mounted_client(m) ==
    /\ link[m] = "greeting" /\ term[m] = "never"
    /\ link' = [link EXCEPT ![m] = "inserted"]
    /\ items' = items \cup {m}
    /\ UNCHANGED <<client, term, using, serverVars, resources, stable, bounds>>

\* The commit that requests wait for.
server_apply_commit ==
    /\ stable # [items |-> items, resources |-> resources]
    /\ stable' = [items |-> items, resources |-> resources]
    /\ UNCHANGED <<clientVars, serverVars, items, resources, bounds>>

\* scoutfs_net_server_greeting() gives a client that connects again the state of
\* its old connection.  A client whose state is gone is dropped unless it is
\* leaving; its connection then has no rid.
scoutfs_net_server_greeting(m) ==
    IF term[m] = "current" /\ conn[m] = {} /\ client[m] # "leaving"
    THEN /\ link' = [link EXCEPT ![m] = "none"]
         /\ anon' = TRUE
         /\ UNCHANGED <<conn, listed, asked, answered>>
    ELSE /\ link' = [link EXCEPT ![m] = "greeted"]
         /\ conn' = [conn EXCEPT ![m] = IF term[m] = "never" THEN @ \cup {"up"} ELSE {"up"}]
         /\ listed' = IF term[m] = "current" THEN listed ELSE listed \cup {m}
         /\ UNCHANGED <<anon, asked, answered>>

\* server_greeting() responds once the item is committed, after it ended the
\* recovery of the greeting.
server_greeting(m) ==
    /\ \/ link[m] = "greeting" /\ term[m] # "never"
       \/ link[m] = "inserted" /\ m \in stable.items
    /\ scoutfs_recov_finish(m, {"greeting"})
    /\ kick' = (kick \/ term[m] = "never")
    /\ scoutfs_net_server_greeting(m)
    /\ UNCHANGED <<client, term, using, requests, work, fence, stop, storeVars, bounds>>

\* server_get_log_trees() gives the client a log tree, and responds after a commit.
server_get_log_trees(m) ==
    /\ client[m] = "up" /\ link[m] = "up" /\ m \notin using
    /\ IF m \in stable.resources /\ m \in resources
       THEN using' = using \cup {m} /\ UNCHANGED resources
       ELSE m \notin resources /\ resources' = resources \cup {m} /\ UNCHANGED using
    /\ UNCHANGED <<client, term, link, serverVars, items, stable, bounds>>

\* The lock server has the response to its recovery request.
LockRecovered(m) ==
    /\ link[m] = "up" /\ scoutfs_recov_is_pending(m, {"locks"})
    /\ scoutfs_recov_finish(m, {"locks"})
    /\ kick' = TRUE
    /\ UNCHANGED <<clientVars, connVars, requests, work, fence, stop, storeVars, bounds>>

\* recovery_timeout() and fence_pending_recov_worker().
fence_pending_recov_worker(m) ==
    /\ scoutfs_recov_is_pending(m, Recov) /\ fence[m] = "none"
    /\ fence' = [fence EXCEPT ![m] = "asked"]
    /\ UNCHANGED <<clientVars, connVars, farewellVars, pending, stop, storeVars, bounds>>

-----------------------------------------------------------------------------
(* Farewells. *)

\* server_farewell() puts a request on the list that this connection's state
\* hasn't received before.
server_farewell(m) ==
    /\ client[m] = "leaving" /\ link[m] = "up"
    /\ m \notin asked
    /\ asked' = asked \cup {m}
    /\ requests' = Append(requests, m)
    /\ kick' = TRUE
    /\ UNCHANGED <<clientVars, conn, listed, anon, answered, work, pending, fence, stop, storeVars, bounds>>

\* Seeded bug: requests of quorum members are answered like the others.
QuorumMayGoAll(quo, others) == Len(quo)

\* How many of the requests of quorum members farewell_worker() answers: as long
\* as a majority remains, or all when only quorum members remain and as many asked.
QuorumMayGo(quo, others) ==
    LET mnts == Cardinality(items \cap QuorumMount) IN
    IF (Len(quo) = mnts /\ others = {}) \/ mnts >= VotesNeeded + Len(quo) THEN Len(quo)
    ELSE IF mnts > VotesNeeded THEN mnts - VotesNeeded ELSE 0

\* farewell_worker() takes the list.  Requests of mounts whose item is gone and of
\* mounts that aren't quorum members are moved to the head of the requests to
\* answer, one after the other, and those of quorum members to their tail.
\* Requests of mounts whose locks are yet to be recovered are moved back.
FarewellStart ==
    /\ kick /\ work.step = "idle"
    /\ kick' = FALSE
    /\ requests' = << >>
    /\ LET held == items \cap QuorumMount
           recovering == {m \in Mount : scoutfs_recov_is_pending(m, {"locks"})}
           quo == Filter(requests, held)
           go == QuorumMayGo(quo, (items \ QuorumMount) \ Range(requests))
           send == Reversed(Filter(requests, Mount \ held)) \o SubSeq(quo, 1, go)
       IN work' = [step |-> "reclaim",
                   reqs |-> SubSeq(quo, go + 1, Len(quo)) \o Filter(send, recovering),
                   send |-> Filter(send, Mount \ recovering)]
    /\ UNCHANGED <<clientVars, connVars, pending, fence, stop, storeVars, bounds>>

\* reclaim_rid() in as many commits as it takes: the log tree ...
reclaim_open_log_tree(m) ==
    /\ m \in resources
    /\ resources' = resources \ {m}
    /\ UNCHANGED items

\* ... and last the mounted client item.
delete_mounted_client(m) ==
    /\ m \in items /\ m \notin resources
    /\ items' = items \ {m}
    /\ UNCHANGED resources

\* Seeded bug: the item is deleted first.
reclaim_rid_item_first(m) ==
    \/ m \in items /\ items' = items \ {m} /\ UNCHANGED resources
    \/ m \notin items /\ reclaim_open_log_tree(m)

reclaim_rid(m) == reclaim_open_log_tree(m) \/ delete_mounted_client(m)

\* reclaim_rid() has returned: nothing is left, and that is committed.
Reclaimed(m) == m \notin items \cup resources \cup stable.items \cup stable.resources

FarewellReclaim(m) ==
    /\ work.step = "reclaim" /\ m \in Range(work.send)
    /\ reclaim_rid(m)
    /\ UNCHANGED <<clientVars, serverVars, stable, bounds>>

\* Seeded bug: the responses don't wait for the commit of the reclaim.
FarewellSendEarly ==
    /\ work.step = "reclaim"
    /\ \A m \in Range(work.send) : m \notin items
    /\ answered' = answered \cup {m \in Range(work.send) : conn[m] # {}}
    /\ requests' = work.reqs \o requests
    /\ work' = Idle
    /\ kick' = (requests # << >> \/ kick)
    /\ UNCHANGED <<clientVars, conn, listed, anon, asked, pending, fence, stop, storeVars, bounds>>

\* Seeded bug: requests that can't be answered yet are forgotten.
FarewellSendForgets ==
    /\ work.step = "reclaim"
    /\ \A m \in Range(work.send) : Reclaimed(m)
    /\ answered' = answered \cup {m \in Range(work.send) : conn[m] # {}}
    /\ work' = Idle
    /\ kick' = (requests # << >> \/ kick)
    /\ UNCHANGED <<clientVars, conn, listed, anon, asked, requests, pending, fence, stop, storeVars, bounds>>

\* When all are reclaimed the responses are sent.  The first mount that has no
\* connection ends the loop.  What wasn't answered goes back to the list, and the
\* work is only queued again if there were new requests.
FarewellSend ==
    /\ work.step = "reclaim"
    /\ \A m \in Range(work.send) : Reclaimed(m)
    /\ \E sent \in 0..Len(work.send) :
          /\ \A i \in 1..sent : conn[work.send[i]] # {}
          /\ sent < Len(work.send) => conn[work.send[sent + 1]] = {}
          /\ answered' = answered \cup Range(SubSeq(work.send, 1, sent))
          /\ requests' = SubSeq(work.send, sent + 1, Len(work.send)) \o work.reqs \o requests
    /\ work' = Idle
    /\ kick' = (requests # << >> \/ kick)
    /\ UNCHANGED <<clientVars, conn, listed, anon, asked, pending, fence, stop, storeVars, bounds>>

-----------------------------------------------------------------------------
(* Connections that break, fencing and reclaim. *)

\* A connection is destroyed: server_notify_down() forgets the mount's farewell
\* requests.  It takes the mount off a list that it must have been put on.
DestroyConn(m, which) ==
    /\ conn' = [conn EXCEPT ![m] = @ \ {which}]
    /\ listed' = IF conn[m] = {which} THEN listed \ {m} ELSE listed
    /\ answered' = IF conn[m] = {which} THEN answered \ {m} ELSE answered
    /\ asked' = IF conn[m] = {which} THEN asked \ {m} ELSE asked
    /\ requests' = Without(requests, m)
    /\ stop' = (stop \/ m \notin listed)

\* The socket of mount m is gone.  The server's connection waits for the mount to
\* connect again, unless it has sent a farewell response.  A connection that had
\* no greeting yet waits too.
CloseSocket(m) ==
    /\ link' = [link EXCEPT ![m] = "none"]
    /\ \/ /\ "up" \in conn[m]
          /\ conn' = [conn EXCEPT ![m] = {"wait"}]
          /\ UNCHANGED <<listed, anon, asked, answered, requests, stop>>
       \/ /\ "up" \in conn[m] /\ m \in answered
          /\ DestroyConn(m, "up") /\ UNCHANGED anon
       \/ /\ link[m] \in {"greeting", "inserted"}
          /\ anon' = TRUE
          /\ UNCHANGED <<conn, listed, asked, answered, requests, stop>>
       \/ /\ link[m] = "none"
          /\ UNCHANGED <<conn, listed, anon, asked, answered, requests, stop>>

Break(m) ==
    /\ breaks < MaxBreaks /\ link[m] # "none"
    /\ breaks' = breaks + 1
    /\ CloseSocket(m)
    /\ UNCHANGED <<client, term, using, kick, work, pending, fence, storeVars, failovers>>

\* A mount crashes, or a mount is aborted before it is up.
Crash(m) ==
    /\ m \in Crashers /\ Running(m)
    /\ client' = [client EXCEPT ![m] = "dead"]
    /\ using' = using \ {m}
    /\ CloseSocket(m)
    /\ UNCHANGED <<term, kick, work, pending, fence, storeVars, bounds>>

\* Seeded bug: the mount isn't fenced.
ReconnTimeoutOnly(m) ==
    /\ "wait" \in conn[m]
    /\ DestroyConn(m, "wait")
    /\ UNCHANGED <<clientVars, anon, fence, kick, work, pending, storeVars, bounds>>

\* scoutfs_net_reconn_free_worker() gives up on a connection and asks for the
\* mount to be fenced.
ReconnTimeout(m) ==
    /\ "wait" \in conn[m]
    /\ fence' = [fence EXCEPT ![m] = IF @ = "none" THEN "asked" ELSE @]
    /\ DestroyConn(m, "wait")
    /\ UNCHANGED <<clientVars, anon, kick, work, pending, storeVars, bounds>>

\* A connection that never had a rid is destroyed: server_notify_down() stops the server.
AnonTimeout ==
    /\ anon /\ ~stop
    /\ stop' = TRUE /\ anon' = FALSE
    /\ UNCHANGED <<clientVars, conn, listed, asked, answered, farewellVars, pending, fence, storeVars, bounds>>

\* The fencing agent makes sure that the mount doesn't run any more.
Fenced(m) ==
    /\ fence[m] = "asked"
    /\ fence' = [fence EXCEPT ![m] = "fenced"]
    /\ IF Running(m)
       THEN /\ client' = [client EXCEPT ![m] = "dead"]
            /\ using' = using \ {m}
            /\ CloseSocket(m)
       ELSE UNCHANGED <<client, using, link, connVars, requests, stop>>
    /\ UNCHANGED <<term, kick, work, pending, storeVars, bounds>>

\* Seeded bug: the log tree is reclaimed as soon as the fence is asked for.
ReclaimAsked(m) ==
    /\ \/ fence[m] = "asked" /\ reclaim_open_log_tree(m)
       \/ fence[m] = "fenced" /\ reclaim_rid(m)
    /\ UNCHANGED <<clientVars, serverVars, stable, bounds>>

\* reclaim_worker() reclaims what is fenced ...
ReclaimFenced(m) ==
    /\ fence[m] = "fenced"
    /\ reclaim_rid(m)
    /\ UNCHANGED <<clientVars, serverVars, stable, bounds>>

\* ... and ends the fence request and the recovery of the mount.
ReclaimDone(m) ==
    /\ fence[m] = "fenced" /\ Reclaimed(m)
    /\ fence' = [fence EXCEPT ![m] = "none"]
    /\ scoutfs_recov_finish(m, Recov)
    /\ kick' = TRUE
    /\ UNCHANGED <<clientVars, connVars, requests, work, stop, storeVars, bounds>>

\* start_recovery() waits for every mount that has an item.
start_recovery == [m \in Mount |-> IF m \in stable.items THEN Recov ELSE {}]

\* The server is replaced by one that finds what the last one committed.
NextServer ==
    /\ conn' = [m \in Mount |-> {}]
    /\ listed' = {} /\ anon' = FALSE /\ asked' = {} /\ answered' = {}
    /\ requests' = << >> /\ kick' = FALSE /\ work' = Idle
    /\ pending' = start_recovery
    /\ fence' = [m \in Mount |-> "none"]
    /\ stop' = FALSE
    /\ items' = stable.items /\ resources' = stable.resources
    /\ link' = [m \in Mount |-> "none"]
    /\ term' = [m \in Mount |-> IF term[m] = "current" THEN "old" ELSE term[m]]
    /\ UNCHANGED <<client, using, stable, breaks>>

ServerFail ==
    /\ failovers < MaxFailovers /\ failovers' = failovers + 1
    /\ NextServer

ServerStops ==
    /\ stop
    /\ NextServer
    /\ UNCHANGED failovers

-----------------------------------------------------------------------------
Next ==
    \/ server_apply_commit \/ FarewellStart \/ FarewellSend
    \/ AnonTimeout \/ ServerFail \/ ServerStops
    \/ \E m \in Mount :
          \/ scoutfs_client_setup(m) \/ scoutfs_client_connect_worker(m) \/ client_greeting(m)
          \/ client_farewell_response(m) \/ scoutfs_client_destroy(m)
          \/ insert_mounted_client(m) \/ server_greeting(m) \/ server_get_log_trees(m)
          \/ LockRecovered(m) \/ fence_pending_recov_worker(m)
          \/ server_farewell(m) \/ FarewellReclaim(m)
          \/ Break(m) \/ Crash(m) \/ ReconnTimeout(m) \/ Fenced(m)
          \/ ReclaimFenced(m) \/ ReclaimDone(m)

Spec == Init /\ [][Next]_vars

\* Messages arrive, workers run, and timeouts expire and the fencing agent works.
Messages(m) ==
    \/ scoutfs_client_connect_worker(m) \/ client_greeting(m) \/ client_farewell_response(m)
    \/ insert_mounted_client(m) \/ server_greeting(m) \/ LockRecovered(m) \/ server_farewell(m)

Workers ==
    \/ server_apply_commit \/ FarewellStart \/ FarewellSend
    \/ \E m \in Mount : FarewellReclaim(m) \/ ReclaimFenced(m) \/ ReclaimDone(m)

Timeouts ==
    \/ AnonTimeout \/ ServerStops
    \/ \E m \in Mount : ReconnTimeout(m) \/ fence_pending_recov_worker(m) \/ Fenced(m)

Fairness == (\A m \in Mount : WF_vars(Messages(m))) /\ WF_vars(Workers) /\ WF_vars(Timeouts)

FairSpec == Spec /\ Fairness

-----------------------------------------------------------------------------
(* Properties. *)

\* A log tree isn't reclaimed while its mount runs and uses it.
ReclaimedWhenGone == using \subseteq resources

\* "The existence of the mounted_client item triggers reclaim and must be deleted
\* last" (reclaim_rid()): in every committed version the next server finds the
\* mounts that left a log tree behind.
ItemLast == resources \subseteq items /\ stable.resources \subseteq stable.items

\* A mount whose unmount finished, by a response or because it didn't find its
\* item, has left nothing behind that a server would find and fence.
LeavesNothing == \A m \in Mount : client[m] = "left" => Reclaimed(m)

\* The requests that the server has, on its list or in the farewell work.
Requests == Range(requests) \cup Range(work.reqs) \cup Range(work.send)

Leaves(m) == client[m] \in {"leaving", "left", "dead"}

\* What is known of a mount that has yet to be up: nothing is stored for it until it
\* greets, and its item is committed before it gets the response.
Arriving(m) ==
    /\ client[m] = "out" =>
          /\ conn[m] = {} /\ pending[m] = {} /\ fence[m] = "none"
          /\ m \notin items \cup stable.items
    /\ client[m] \in {"out", "mounting"} => term[m] = "never"
    /\ client[m] \in {"up", "leaving"} => term[m] # "never"
    /\ link[m] # "none" => Running(m)
    /\ link[m] = "inserted" => m \in items /\ term[m] = "never"
    /\ client[m] = "mounting" /\ link[m] = "greeted" => m \in items /\ m \in stable.items
    /\ link[m] = "up" => client[m] # "mounting"

\* A mount that is up has its item and what it uses, in memory and on disk, and a mount
\* that was up has no item that isn't on disk.
Present(m) ==
    /\ client[m] = "up" => m \in items /\ m \in stable.items
    /\ client[m] \in {"leaving", "left"} /\ m \in items => m \in stable.items
    /\ m \in using => client[m] = "up" /\ m \in resources /\ m \in stable.resources

\* Only a mount that is gone or asked to go is reclaimed, and one that is answered was.
Departing(m) ==
    /\ fence[m] = "fenced" => client[m] \in {"left", "dead"}
    /\ m \in Requests => Leaves(m)
    /\ m \in answered => Leaves(m) /\ Reclaimed(m)
    /\ client[m] = "left" => Reclaimed(m)

\* What ReclaimedWhenGone, ItemLast and LeavesNothing rest on, inductively.
SessionInv ==
    /\ TypeOK /\ ItemLast
    /\ \A m \in Mount : Arriving(m) /\ Present(m) /\ Departing(m)

\* Quorum members are let go while a majority of them is mounted, or when all
\* mounts have asked (farewell_worker()).
QuorumRemains ==
    [][ work'.send # work.send =>
          \A q \in Range(work'.send) \cap QuorumMount \cap items :
             \/ Cardinality((items \cap QuorumMount) \ Range(work'.send)) >= VotesNeeded
             \/ items \subseteq Range(requests) ]_vars

\* A mount that isn't a quorum member can leave, whatever the others do.
OthersLeave ==
    \A m \in Mount \ QuorumMount : client[m] = "leaving" ~> client[m] \in {"left", "dead"}

\* When all mounts leave, they all can.
AllLeave ==
    <>[](\A m \in Mount : client[m] \in {"leaving", "left", "dead"})
        => <>(\A m \in Mount : client[m] \in {"left", "dead"})

\* What a crashed or fenced mount left behind is reclaimed.
DeadReclaimed == \A m \in Mount : client[m] = "dead" ~> Reclaimed(m)

=============================================================================
