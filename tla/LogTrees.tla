------------------------------ MODULE LogTrees ------------------------------
(***************************************************************************)
(* The log btrees of the mounts and their merge into the fs btree.  Mounts *)
(* write items into a log tree in transactions (trans.c, forest.c), the    *)
(* server gives them log trees and stores the ones they commit, finalizes  *)
(* them all before it merges them, and mounts merge ranges of keys for it  *)
(* (server.c, forest.c, scoutfs_btree_merge()).  A server request is one   *)
(* commit of the server unless it waits for other mounts.                  *)
(***************************************************************************)
EXTENDS Integers, Sequences, SequencesExt, FiniteSetsExt

CONSTANTS
    NMounts,             \* mounts are ordered by their rid
    NKeys,               \* item keys, in order
    Totl,                \* the keys of .totl. totals, whose items are deltas
    KeySets,             \* the keys that operations change together
    Batch,               \* LOG_MERGE_SPLICE_BATCH
    MaxSeq,              \* bound on the server's sequence number
    MaxErrors,           \* bound on merges that fail
    MaxFailovers,        \* bound on servers that fail
    Victims              \* mounts that can be evicted

VARIABLES
    seq,                 \* the server's sequence number
    locks,               \* locks[l][m]: the write_seq of m's lock l, or 0
    logs,                \* log_trees items by mount and nr
    fs,                  \* the items of the fs btree
    cuts,                \* the last keys of the fs btree's parent blocks
    merge,               \* the items of the log_merge btree
    cl,                  \* the mounts' transactions
    wait,                \* get_log_trees requests that wait for other mounts
    worker,              \* the mounts' log merge workers
    res,                 \* allocators that the server can give to log trees
    icount,              \* the super block's inode_count
    errors, failovers,
    latest               \* what was last committed for each key

treeVars == <<seq, locks, logs, fs, cuts, merge, cl, wait, worker, res, icount, errors, failovers, latest>>

Mount == 1..NMounts
Key == 1..NKeys
Regular == Key \ Totl

\* One lock protects the items, and another the totals.
LockOf(k) == IF k \in Totl THEN "totl" ELSE "fs"
LockId == {"fs", "totl"}

\* An item has the seq it was written with.  A regular item's value is 1, or 0 if it
\* was deleted; the value of a delta is how much it adds to the total.
NoItem == [seq |-> 0, val |-> 0]
Present(item) == item.seq # 0
NoItems == [k \in Key |-> NoItem]

\* A log_trees item.  It has allocators (res) and is finalized if fin isn't 0.
NewLog(nr) == [nr |-> nr, items |-> NoItems, bloom |-> {}, fin |-> 0, get |-> 0, commit |-> 0,
               count |-> 0, res |-> FALSE]
NoLog == NewLog(0)
Open(lt) == lt.get > lt.commit
Finalized(lt) == lt.fin # 0

NoMerge == [on |-> FALSE, seq |-> 0, next |-> 0, nreq |-> 0, ncomp |-> 0, nr |-> 0,
            ranges |-> {}, reqs |-> {}, comps |-> {}]

Idle == [st |-> "idle"]

Init ==
    /\ seq = 1
    /\ locks = [l \in LockId |-> [m \in Mount |-> 0]]
    /\ logs = [m \in Mount |-> << >>]
    /\ fs = NoItems
    /\ cuts \in SUBSET (1..(NKeys - 1))
    /\ merge = NoMerge
    /\ cl = [m \in Mount |-> [pc |-> "get", log |-> NoLog, dirty |-> {}, bnr |-> [l \in LockId |-> 0]]]
    /\ wait = [m \in Mount |-> NoLog]
    /\ worker = [m \in Mount |-> Idle]
    /\ res = NMounts /\ icount = 0
    /\ errors = 0 /\ failovers = 0
    /\ latest = NoItems

-----------------------------------------------------------------------------
(* A mount's transaction. *)

\* The locks that m needs for keys K and doesn't have.
NeedLocks(m, K) == {l \in {LockOf(k) : k \in K} : locks[l][m] = 0}

\* Locks are granted with a new write_seq once the dirty items of other mounts are
\* committed; totals are locked write only, by any number of mounts.
Locked(m, K) ==
    [l \in LockId |->
        IF l \notin NeedLocks(m, K) THEN locks[l]
        ELSE IF l = "totl" THEN [locks[l] EXCEPT ![m] = seq + 1]
        ELSE [n \in Mount |-> IF n = m THEN seq + 1 ELSE 0]]

\* item_seq()
item_seq(m, k, lcks) == Max({cl[m].log.get, lcks[LockOf(k)][m]})

\* scoutfs_btree_insert_list(): the transaction's items are merged with those that
\* earlier transactions left in the log tree.
insert_list(m, k, val, lcks) ==
    LET old == cl[m].log.items[k].val IN
    [seq |-> item_seq(m, k, lcks), val |-> IF k \in Totl THEN old + (IF val = 1 THEN 1 ELSE -1) ELSE val]

\* scoutfs_forest_set_bloom_bits(): the lock remembers which log tree has its bits.
set_bloom_bits(m, l) == IF cl[m].bnr[l] = cl[m].log.nr THEN {} ELSE {l}

\* An operation in a transaction: scoutfs_item_create() or _update() of items (val is 1)
\* or scoutfs_item_delete() (0), and scoutfs_item_delta() of totals, with their locks.
\* A regular item stands for an inode.
WriteItems(m, K) ==
    /\ cl[m].pc = "open" /\ cl[m].dirty = {}
    /\ NeedLocks(m, K) # {} => seq < MaxSeq
    /\ "fs" \in NeedLocks(m, K) => \A n \in Mount : cl[n].dirty \subseteq Totl
    /\ locks' = Locked(m, K)
    /\ seq' = IF NeedLocks(m, K) = {} THEN seq ELSE seq + 1
    /\ \E val \in {0, 1} :
         /\ val = 0 => \A k \in K : latest[k].val > 0
         /\ LET ls == {LockOf(k) : k \in K} IN
            cl' = [cl EXCEPT ![m].dirty = K,
                             ![m].bnr = [l \in LockId |-> IF l \in ls THEN cl[m].log.nr ELSE @[l]],
                             ![m].log = [@ EXCEPT !.items = [k \in Key |-> IF k \in K THEN insert_list(m, k, val, locks') ELSE @[k]],
                                                  !.bloom = @ \cup UNION {set_bloom_bits(m, l) : l \in ls},
                                                  !.count = @ + FoldSet(LAMBDA k, n : n + val - latest[k].val, 0, K \ Totl)]]
    /\ UNCHANGED <<logs, fs, cuts, merge, wait, worker, res, icount, errors, failovers, latest>>

\* The response to a request of m arrives and the mount goes on with c and worker w, or
\* the server fails and the mount sends the request, in its state lost, again.
Respond(m, c, w, lost) ==
    \/ /\ cl' = [cl EXCEPT ![m] = c] /\ worker' = [worker EXCEPT ![m] = w]
       /\ wait' = [wait EXCEPT ![m] = IF c.pc = "open" THEN NoLog ELSE @]
       /\ UNCHANGED failovers
    \/ /\ failovers < MaxFailovers /\ failovers' = failovers + 1
       /\ cl' = [cl EXCEPT ![m] = lost]
       /\ wait' = [n \in Mount |-> NoLog]
       /\ UNCHANGED worker

-----------------------------------------------------------------------------
(* The server's log trees. *)

\* scoutfs_btree_update(), _insert() and _force() of a log_trees item.
Store(lgs, m, lt) ==
    [lgs EXCEPT ![m] = IF @ # << >> /\ Last(@).nr = lt.nr THEN Append(Front(@), lt) ELSE Append(@, lt)]

\* scoutfs_trans_write_func() writes the transaction and sends commit_log_trees to
\* server_commit_log_trees(), which has already stored it if the mount sends it again.
server_commit_log_trees(m) ==
    /\ cl[m].pc \in {"open", "commit"}
    /\ LET old == Last(logs[m])
           lt == cl[m].log
       IN IF old.commit = lt.get
          THEN UNCHANGED <<logs, latest>>
          ELSE /\ logs' = Store(logs, m, [lt EXCEPT !.commit = lt.get])
               /\ latest' = [k \in Key |->
                     IF k \notin cl[m].dirty THEN latest[k]
                     ELSE [lt.items[k] EXCEPT !.val = IF k \in Totl THEN latest[k].val + @ - old.items[k].val ELSE @]]
    /\ Respond(m, [cl[m] EXCEPT !.pc = "get", !.dirty = {}], worker[m], [cl[m] EXCEPT !.pc = "commit"])
    /\ UNCHANGED <<seq, locks, fs, cuts, merge, res, icount, errors>>

\* The log_trees item that server_get_log_trees() starts with.
find_log_trees(m) ==
    IF logs[m] = << >> THEN NewLog(1)
    ELSE IF Finalized(Last(logs[m])) THEN NewLog(Last(logs[m]).nr + 1)
    ELSE Last(logs[m])

\* for_each_rid_last_lt()
LastLogs(lgs) == {<<m, Last(lgs[m])>> : m \in {n \in Mount : lgs[n] # << >>}}

saw_finalized == \E x \in LastLogs(logs) : Finalized(x[2])

\* Seeded bug: the merge starts while other mounts have active log trees.
others_active_no(m) == FALSE

others_active(m) == \E x \in LastLogs(logs) : ~Finalized(x[2]) /\ x[1] # m
ours_visible(m, lt) == \E x \in LastLogs(logs) : ~Finalized(x[2]) /\ x[1] = m /\ x[2].nr = lt.nr

\* Seeded bug: the finalized item still has the allocators.
finalize_ours_res(m, lt) ==
    IF ours_visible(m, lt) THEN Store(logs, m, [lt EXCEPT !.fin = seq + 1]) ELSE logs

\* The finalized item has no allocators, they stay with the mount's next log tree.
finalize_ours(m, lt) ==
    IF ours_visible(m, lt) THEN Store(logs, m, [lt EXCEPT !.fin = seq + 1, !.res = FALSE]) ELSE logs
next_log(m, lt) ==
    IF ours_visible(m, lt) THEN [lt EXCEPT !.nr = @ + 1, !.items = NoItems, !.bloom = {}, !.count = 0] ELSE lt

\* A merge of the finalized log trees starts with the range of all keys.
StartMerge(s) == [NoMerge EXCEPT !.on = TRUE, !.seq = s, !.next = 1, !.ranges = {<<1, NKeys>>}]

\* Seeded bug: the transaction's sequence number is counted by the log tree.
OpenTrans_own(m, lgs, lt, s) ==
    LET new == [lt EXCEPT !.get = @ + 1, !.res = lt.res \/ res > 0] IN
    /\ logs' = Store(lgs, m, new)
    /\ res' = IF lt.res \/ res = 0 THEN res ELSE res - 1
    /\ seq' = s + 1
    /\ Respond(m, [cl[m] EXCEPT !.pc = "open", !.log = new], worker[m], cl[m])

\* The end of server_get_log_trees() in a commit that has used the sequence numbers up
\* to s: the log tree's allocators are filled, and the transaction is open.
OpenTrans(m, lgs, lt, s) ==
    LET new == [lt EXCEPT !.get = s + 1, !.res = lt.res \/ res > 0] IN
    /\ logs' = Store(lgs, m, new)
    /\ res' = IF lt.res \/ res = 0 THEN res ELSE res - 1
    /\ seq' = s + 1
    /\ Respond(m, [cl[m] EXCEPT !.pc = "open", !.log = new], worker[m], cl[m])

\* A log tree can be large, or low on metadata, once it was used.
Big(lt) == IF lt.get = 0 THEN {FALSE} ELSE BOOLEAN

\* One pass of finalize_and_start_log_merge() and what follows if it doesn't wait.
\* Log trees are finalized if they are large or metadata is low (big).
FinalizePass(m, lt, big) ==
    /\ seq + 3 <= MaxSeq
    /\ LET lgs == finalize_ours(m, lt)
           s == IF ours_visible(m, lt) THEN seq + 1 ELSE seq
       IN IF merge.on \/ (~big /\ ~saw_finalized)
          THEN OpenTrans(m, logs, lt, seq) /\ UNCHANGED merge
          ELSE IF others_active(m)
          THEN /\ logs' = lgs /\ seq' = s
               /\ wait' = [wait EXCEPT ![m] = next_log(m, lt)]
               /\ UNCHANGED <<merge, cl, worker, res, failovers>>
          ELSE /\ merge' = StartMerge(s + 1)
               /\ OpenTrans(m, lgs, next_log(m, lt), s + 1)

\* server_get_log_trees(): a transaction that is already open was opened for a request
\* to a server that failed before it answered.
server_get_log_trees(m) ==
    /\ cl[m].pc = "get" /\ wait[m] = NoLog
    /\ LET lt == find_log_trees(m) IN
       IF Open(lt)
       THEN /\ Respond(m, [cl[m] EXCEPT !.pc = "open", !.log = lt], worker[m], cl[m])
            /\ UNCHANGED <<seq, logs, merge, res>>
       ELSE \E big \in Big(lt) : FinalizePass(m, lt, big)
    /\ UNCHANGED <<locks, fs, cuts, icount, errors, latest>>

\* The request scans the items again after the delay.
Rescan(m) ==
    /\ wait[m] # NoLog
    /\ \E big \in Big(wait[m]) : FinalizePass(m, wait[m], big)
    /\ UNCHANGED <<locks, fs, cuts, icount, errors, latest>>

\* The request has waited for log_merge_wait_timeout_ms.
WaitTimeout(m) ==
    /\ wait[m] # NoLog /\ seq < MaxSeq
    /\ OpenTrans(m, logs, wait[m], seq)
    /\ UNCHANGED <<locks, fs, cuts, merge, icount, errors, latest>>

-----------------------------------------------------------------------------
(* Log merging. *)

\* The parent block of the fs btree that has key k covers the keys up to the next cut.
ParEnd(ct, k) == Min({c \in ct \cup {NKeys} : c >= k})
ParStart(ct, k) == Max({c + 1 : c \in {x \in ct \cup {0} : x < k}})
Parent(ct, k) == ParStart(ct, k)..ParEnd(ct, k)

\* The finalized log trees that the merge with sequence number s reads.
IsInput(lt, s) == Finalized(lt) /\ lt.fin < s
Inputs(lgs, s) == SelectSeq(FlattenSeq(lgs), LAMBDA lt : IsInput(lt, s))

\* next_least_log_item(): the keys of range rng that have logged items.
LoggedKeys(lgs, s, rng) ==
    {k \in rng[1]..rng[2] : \E lt \in Range(Inputs(lgs, s)) : Present(lt.items[k])}

\* What server_get_log_merge() and what it calls change in a commit.
State == [fs |-> fs, cuts |-> cuts, logs |-> logs, merge |-> merge, icount |-> icount]

InOrder(comps) == SetToSortSeq(comps, LAMBDA a, b : a.nr < b.nr)

\* scoutfs_btree_set_parent() of a completion.
SetParent(M, comp) ==
    [M EXCEPT !.fs = [k \in Key |-> IF k \in Parent(M.cuts, comp.start) THEN comp.root[k] ELSE @[k]],
              !.merge.comps = (@ \ {comp}) \cup {[comp EXCEPT !.spliced = TRUE]}]

\* The rebalance and the remaining range of a completion.
Rebalance(M, comp) ==
    [M EXCEPT !.merge.comps = @ \ {comp},
              !.merge.ranges = IF comp.remain THEN @ \cup {<<comp.from, comp.end>>} ELSE @]

Spliced(M) == LET Todo(comp) == ~comp.spliced IN FoldLeft(SetParent, M, SelectSeq(InOrder(M.merge.comps), Todo))

Rebalanced(M) == FoldLeft(Rebalance, M, InOrder(M.merge.comps))

\* The log trees lts are removed, and their blocks are freed later.
Removed(M, lts) ==
    [M EXCEPT !.logs = [m \in Mount |-> SelectSeq(@[m], LAMBDA lt : lt \notin Range(lts))],
              !.icount = @ + FoldLeft(LAMBDA n, lt : n + lt.count, 0, lts)]

\* The log trees that were merged are removed, and the merge is done.
Freed(M) == [Removed(M, Inputs(M.logs, M.merge.seq)) EXCEPT !.merge = NoMerge]

\* Rebalancing the paths to remaining ranges can join and split parent blocks.
Cuts(M) == IF \E comp \in M.merge.comps : comp.remain THEN SUBSET (1..(NKeys - 1)) ELSE {M.cuts}

\* splice_log_merge_completions()
splice_log_merge_completions(M, no_ranges) ==
    LET R == Rebalanced(Spliced(M)) IN
    IF no_ranges /\ \A comp \in M.merge.comps : ~comp.remain
    THEN {Freed(R)}
    ELSE {[R EXCEPT !.merge.next = 1, !.merge.ncomp = 0, !.cuts = ct] : ct \in Cuts(M)}

\* The allocators can run low after some of the completions were spliced or rebalanced,
\* or some of the inputs removed.  The server commits and continues, and no requests are
\* handed out until it is done.
EINPROGRESS(M, no_ranges) ==
    LET todo == SelectSeq(InOrder(M.merge.comps), LAMBDA comp : ~comp.spliced)
        S == [Spliced(M) EXCEPT !.merge.ncomp = Max({@, Batch})]
        done == InOrder(S.merge.comps)
        R == Rebalanced(S)
        ins == Inputs(M.logs, M.merge.seq)
    IN {FoldLeft(SetParent, M, SubSeq(todo, 1, n)) : n \in 1..(Len(todo) - 1)}
       \cup {[FoldLeft(Rebalance, S, SubSeq(done, 1, n)) EXCEPT !.cuts = ct] :
                n \in (IF todo = << >> THEN 1 ELSE 0)..(Len(done) - 1), ct \in Cuts(M)}
       \cup IF no_ranges /\ \A comp \in M.merge.comps : ~comp.remain
            THEN {Removed(R, SubSeq(ins, 1, n)) : n \in 1..(Len(ins) - 1)}
            ELSE {}

\* Seeded bug: the next request can be for the rest of the same parent block.
next_range_end(ct, req) == req.end + 1

next_range(ct, req) == ParEnd(ct, req.start) + 1

\* The request that server_get_log_merge() gives to mount m for the first logged item of
\* a range, within the bounds of its parent block.
Request(M, m, rng) ==
    LET k == Min(LoggedKeys(M.logs, M.merge.seq, rng))
        req == [rid |-> m, nr |-> M.merge.nr + 1, start |-> k, end |-> Min({rng[2], ParEnd(M.cuts, k)}),
                root |-> M.fs, seq |-> M.merge.seq]
    IN [M EXCEPT !.merge.ranges = (@ \ {rng}) \cup (IF req.end < rng[2] THEN {<<req.end + 1, rng[2]>>} ELSE {}),
                 !.merge.reqs = @ \cup {req},
                 !.merge.next = next_range(M.cuts, req),
                 !.merge.nreq = @ + 1,
                 !.merge.nr = @ + 1]

\* The outcomes of server_get_log_merge() in state M: a request, no work, or a commit
\* after which it continues.
RECURSIVE GetLogMerge(_, _)
GetLogMerge(M, m) ==
    LET mg == M.merge
        ahead == {rng \in mg.ranges : rng[1] >= mg.next}
        rng == CHOOSE r \in ahead : \A x \in ahead : r[1] <= x[1]
        no_next == ahead = {}
        no_ranges == mg.next = 1 /\ no_next
    IN IF ~mg.on
       THEN {M}
       ELSE IF mg.nreq = 0 /\ (no_next \/ mg.ncomp >= Batch)
       THEN EINPROGRESS(M, no_ranges) \cup UNION {GetLogMerge(N, m) : N \in splice_log_merge_completions(M, no_ranges)}
       ELSE IF no_next \/ mg.nreq + mg.ncomp >= Batch
       THEN {M}
       ELSE IF LoggedKeys(M.logs, mg.seq, rng) = {}
       THEN GetLogMerge([M EXCEPT !.merge.ranges = @ \ {rng}], m)
       ELSE {Request(M, m, rng)}

\* The request of mount m that was made last, if M has one that wasn't there before.
NewRequest(M) == M.merge.reqs \ merge.reqs

\* server_get_log_merge()
server_get_log_merge(m) ==
    /\ cl[m].pc # "gone" /\ worker[m] = Idle /\ merge.on
    /\ \E M \in GetLogMerge(State, m) \ {State} :
         /\ fs' = M.fs /\ cuts' = M.cuts /\ logs' = M.logs /\ merge' = M.merge /\ icount' = M.icount
         /\ Respond(m, cl[m], IF NewRequest(M) = {} THEN Idle
                              ELSE [st |-> "work", req |-> CHOOSE r \in NewRequest(M) : TRUE], cl[m])
    /\ UNCHANGED <<seq, locks, res, errors, latest>>

-----------------------------------------------------------------------------
(* scoutfs_forest_log_merge_worker(). *)

\* scoutfs_xattr_combine_totl(): a total that is 0 is dropped.
combine_totl(old, new, s) == IF old.val + new.val = 0 THEN NoItem ELSE [seq |-> s, val |-> old.val + new.val]

\* merge_read_item(): deltas are combined, and the newest of other items is used.
merge_read_item(k, found, item) ==
    IF ~Present(item) THEN found
    ELSE IF Present(found) /\ k \in Totl THEN combine_totl(found, item, found.seq)
    ELSE IF found.seq >= item.seq THEN found ELSE item

\* scoutfs_btree_merge() of the items with one key.
merge_item(k, old, item) ==
    IF ~Present(item) THEN old
    ELSE IF k \in Totl /\ Present(old) THEN combine_totl(old, item, item.seq)
    ELSE IF k \in Regular /\ item.val = 0 THEN NoItem
    ELSE item

btree_merge(req, last) ==
    [k \in Key |->
        IF k \in req.start..last
        THEN merge_item(k, req.root[k], FoldLeft(LAMBDA found, lt : merge_read_item(k, found, lt.items[k]), NoItem, Inputs(logs, req.seq)))
        ELSE req.root[k]]

\* The merge of the range, or of its first part, or an error.
MergeWork(m) ==
    /\ worker[m].st = "work"
    /\ LET req == worker[m].req
           Comp(remain, from, last) ==
              [nr |-> req.nr, start |-> req.start, end |-> req.end, remain |-> remain, from |-> from,
               root |-> btree_merge(req, last), spliced |-> FALSE]
       IN \/ /\ \/ worker' = [worker EXCEPT ![m] = [st |-> "commit", req |-> req, comp |-> Comp(FALSE, req.end, req.end), err |-> FALSE]]
                \/ \E k \in LoggedKeys(logs, req.seq, <<req.start + 1, req.end>>) :
                      worker' = [worker EXCEPT ![m] = [st |-> "commit", req |-> req, comp |-> Comp(TRUE, k, k - 1), err |-> FALSE]]
             /\ UNCHANGED errors
          \/ /\ errors < MaxErrors
             /\ errors' = errors + 1
             /\ worker' = [worker EXCEPT ![m] = [st |-> "commit", req |-> req, comp |-> Comp(FALSE, req.end, 0), err |-> TRUE]]
    /\ UNCHANGED <<seq, locks, logs, fs, cuts, merge, cl, wait, res, icount, failovers, latest>>

\* server_commit_log_merge(): a completion that was processed before has no request.
server_commit_log_merge(m) ==
    /\ worker[m].st = "commit"
    /\ LET w == worker[m] IN
       merge' = IF ~merge.on \/ w.req \notin merge.reqs THEN merge
                ELSE IF w.err
                THEN [merge EXCEPT !.reqs = @ \ {w.req}, !.nreq = @ - 1, !.ranges = @ \cup {<<w.req.start, w.req.end>>}]
                ELSE [merge EXCEPT !.reqs = @ \ {w.req}, !.nreq = @ - 1, !.comps = @ \cup {w.comp}, !.ncomp = @ + 1]
    /\ Respond(m, cl[m], Idle, cl[m])
    /\ UNCHANGED <<seq, locks, logs, fs, cuts, res, icount, errors, latest>>

-----------------------------------------------------------------------------
(* Failures. *)

\* Seeded bug: an evicted mount's requests are still counted.
cancel_log_merge_count(m) ==
    LET reqs == {r \in merge.reqs : r.rid = m} IN
    [merge EXCEPT !.reqs = @ \ reqs, !.ranges = @ \cup {<<r.start, r.end>> : r \in reqs}]

\* cancel_log_merge()
cancel_log_merge(m) ==
    LET reqs == {r \in merge.reqs : r.rid = m} IN
    [merge EXCEPT !.reqs = @ \ reqs, !.nreq = @ - Cardinality(reqs),
                  !.ranges = @ \cup {<<r.start, r.end>> : r \in reqs}]

\* reclaim_open_log_tree()
reclaim_open_log_tree(m) ==
    IF logs[m] = << >> \/ Finalized(Last(logs[m]))
    THEN UNCHANGED <<logs, seq, res>>
    ELSE /\ logs' = Store(logs, m, [Last(logs[m]) EXCEPT !.commit = Last(logs[m]).get, !.fin = seq + 1, !.res = FALSE])
         /\ seq' = seq + 1
         /\ res' = IF Last(logs[m]).res THEN res + 1 ELSE res

\* reclaim_rid() of a mount that is gone, once none of its requests is processed.
Evict(m) ==
    /\ m \in Victims /\ cl[m].pc # "gone" /\ wait[m] = NoLog /\ seq < MaxSeq
    /\ reclaim_open_log_tree(m)
    /\ merge' = cancel_log_merge(m)
    /\ locks' = [l \in LockId |-> [locks[l] EXCEPT ![m] = 0]]
    /\ cl' = [cl EXCEPT ![m].pc = "gone", ![m].dirty = {}]
    /\ worker' = [worker EXCEPT ![m] = Idle]
    /\ UNCHANGED <<fs, cuts, wait, icount, errors, failovers, latest>>

\* The server fails while get_log_trees requests wait.  The next server has what was
\* committed, and the mounts send their requests again.
ServerFail ==
    /\ failovers < MaxFailovers /\ \E m \in Mount : wait[m] # NoLog
    /\ failovers' = failovers + 1
    /\ wait' = [m \in Mount |-> NoLog]
    /\ UNCHANGED <<seq, locks, logs, fs, cuts, merge, cl, worker, res, icount, errors, latest>>

-----------------------------------------------------------------------------
TransStep(m) ==
    server_commit_log_trees(m) \/ server_get_log_trees(m) \/ Rescan(m) \/ WaitTimeout(m)

MergeStep(m) == server_get_log_merge(m) \/ MergeWork(m) \/ server_commit_log_merge(m)

Next ==
    \/ \E m \in Mount : TransStep(m) \/ MergeStep(m) \/ Evict(m)
    \/ \E m \in Mount, K \in KeySets : WriteItems(m, K)
    \/ ServerFail

Spec == Init /\ [][Next]_treeVars

\* Mounts commit when they have dirty items or the server asks for it, as another mount
\* waits for them (SCOUTFS_NET_CMD_SYNC_LOG_TREES).
SyncWhenNeeded ==
    \A m \in Mount : cl[m].pc = "open" /\ cl'[m].pc \in {"commit", "get"} =>
        cl[m].dirty # {} \/ \E n \in Mount : wait[n] # NoLog

\* The inputs of a merge are removed in one commit.
RemovedTogether == merge.on /\ merge'.on => \A m \in Mount : Len(logs'[m]) >= Len(logs[m])

\* A server doesn't fail between saving a merge request and sending it, or while a
\* waiting request has a log tree's allocators.
FailsBetween == failovers' # failovers => merge'.reqs \subseteq merge.reqs /\ \A m \in Mount : ~wait[m].res

-----------------------------------------------------------------------------
(* Properties. *)

\* The log trees that a reader of key k doesn't skip because of their bloom bits.
Visible(k) == SelectSeq(FlattenSeq(logs), LAMBDA lt : LockOf(k) \in lt.bloom)

\* read_page_item(): the newest item that scoutfs_forest_read_items() finds.
ReadItem(k) ==
    FoldLeft(LAMBDA found, lt : IF found.seq >= lt.items[k].seq THEN found ELSE lt.items[k], fs[k], Visible(k))

\* read_xattr_total_item() and scoutfs_ioc_read_xattr_totals()
ReadTotal(k) ==
    LET found == SelectSeq(Visible(k), LAMBDA lt : Present(lt.items[k]))
        fin == SelectSeq(found, Finalized)
        Sum(lts) == FoldLeft(LAMBDA n, lt : n + lt.items[k].val, 0, lts)
        fin_seq == IF fin = << >> THEN 0 ELSE Last(fin).items[k].seq
        apply_fin == \/ Present(fs[k]) /\ fin_seq > fs[k].seq
                     \/ ~Present(fs[k]) /\ Sum(fin) > 0
    IN fs[k].val + (IF apply_fin THEN Sum(fin) ELSE 0) + Sum(SelectSeq(found, LAMBDA lt : ~Finalized(lt)))

\* Items never appear to go back in time ("Finalizing the log btrees for merging needs
\* to be done carefully so that items don't appear to go backwards in time"): readers
\* see what was last committed, whatever was finalized and merged.
ReadsLatest ==
    \A k \in Regular : IF latest[k].val = 0 THEN ReadItem(k).val = 0 ELSE ReadItem(k) = latest[k]

\* Readers of totals see all that was committed exactly once, also while merges write
\* partial results ("This lets us recognize all cases").
TotalsExact == \A k \in Totl : ReadTotal(k) = latest[k].val

\* The inode count of the super block and the log trees (scoutfs_forest_inode_count())
\* is that of the inodes there are.
CountExact ==
    icount + FoldLeft(LAMBDA n, lt : n + lt.count, 0, FlattenSeq(logs)) = Cardinality({k \in Regular : latest[k].val = 1})

\* Two requests or completions of a merge don't have the same parent block, of which one
\* would overwrite the other's items ("make sure next range avoids ranges for parent in
\* use").
ParentsDisjoint ==
    \A a, b \in merge.reqs \cup {c \in merge.comps : ~c.spliced} :
        a # b => Parent(cuts, a.start) \cap Parent(cuts, b.start) = {}

\* The allocators of log trees aren't lost or used twice as log trees are finalized,
\* moved to the next one and reclaimed.
ResourcesKept ==
    res + FoldLeft(LAMBDA n, lt : IF lt.res THEN n + 1 ELSE n, 0, FlattenSeq(logs))
        + Cardinality({m \in Mount : wait[m].res}) = NMounts

\* get_stable_trans_seq(): the last sequence number before those of open transactions.
StableSeq ==
    Min({seq - 1} \cup {x[2].get - 1 : x \in {y \in LastLogs(logs) : Open(y[2])}})

\* "All seqs up to and including this are stable, new client transactions can only have
\* greater seqs": the stable sequence number doesn't go back.
StableAdvances == [][StableSeq' >= StableSeq]_treeVars

\* A merge is finished by the mounts that remain: one of them is merging a range, or can
\* get one or finish the merge.  Readers of items are slow until it is, and log trees
\* aren't finalized.
MergeNotStuck ==
    merge.on => \/ \E m \in Mount : worker[m] # Idle
                \/ \E M \in GetLogMerge(State, 1) : M # State

=============================================================================
