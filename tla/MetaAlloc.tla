----------------------------- MODULE MetaAlloc -----------------------------
(***************************************************************************)
(* Metadata blocks: the double buffered lists of the server's allocator,   *)
(* copy on write of its blocks, the commits that its requests share, and   *)
(* the lists that it prepares for the transactions of a mount.             *)
(*                                                                         *)
(* A block is a number.  A list of blocks (struct scoutfs_alloc_list_head) *)
(* is the sequence of its list blocks, each with its own number and the    *)
(* set of the blocks that it holds; consumers sort a list block, so they   *)
(* take its least block first.  The extents of the core allocators are     *)
(* sets of blocks in a tree of one block.  A record A is what allocation   *)
(* works on: the lists of a struct scoutfs_alloc, whether they have been   *)
(* dirtied in this transaction, the dirty blocks of its block writer, and  *)
(* whether an allocation has run out.                                      *)
(***************************************************************************)
EXTENDS Integers, Sequences, SequencesExt, FiniteSetsExt

CONSTANTS
    NBlocks,        \* the blocks of the metadata device
    ListMax,        \* SCOUTFS_ALLOC_LIST_MAX_BLOCKS
    Budget,         \* COMMIT_HOLD_ALLOC_BUDGET
    Reserved,       \* scoutfs_server_reserved_meta_blocks()
    MaxCommits,     \* bounds the commits that the server starts
    MaxErrors,      \* bounds the writes that fail
    MaxFailovers    \* bounds the servers that fail

VARIABLES
    sup,        \* DIRTY_SUPER_SB: the super block that the server modifies
    stable,     \* the super block on the device, and stable_super
    srv,        \* server->alloc, server->wri, other_ind and the allocator in use
    cusers,     \* struct commit_users; full: the commits in a row for lack of room
    task,       \* the two requests that the server processes at once
    mount,      \* a mount, its open transaction and its allocator
    stack,      \* what an uninitialized local of the allocator holds
    inos,       \* the inode numbers that responses carried, in order
    commits, errors, failovers

vars == <<sup, stable, srv, cusers, task, mount, stack, inos, commits, errors, failovers>>

Blocks == 1 .. NBlocks
Tasks == {"logs", "other"}
NoList == <<>>

\* The lists are filled to what a block holds once they are half empty.
\* (Seeded bug: once they are three quarters empty.)
ListFillTarget == ListMax
ListFillLo_quarter == ListMax \div 4
ListFillLo == ListMax \div 2

\* The blocks that a list holds, and the blocks that the list is made of.
Listed(list) == UNION {list[i].nr : i \in DOMAIN list}
ListBlocks(list) == {list[i].blk : i \in DOMAIN list}
FirstNr(list) == IF list = NoList THEN 0 ELSE Cardinality(list[1].nr)
list_block_space(list) == ListMax - FirstNr(list)

Take(S, n) == {b \in S : Cardinality({c \in S : c < b}) < n}

-----------------------------------------------------------------------------
(***************************************************************************)
(* Allocation in a transaction.                                            *)
(***************************************************************************)

\* The first allocation or free of a transaction dirties the first block of
\* both lists: it takes the blocks to write them to from the list of
\* available blocks, and frees the blocks that they were read from.  A block
\* that is still dirty is used in place and its old location is not set.
dirty_alloc_blocks(A) ==
    LET new_freed == A.freed # NoList /\ list_block_space(A.freed) < ListMax \div 4
        peek == Take(A.avail[1].nr, 2)
        fr == IF A.freed = NoList \/ new_freed THEN [blk |-> 0, nr |-> {}] ELSE A.freed[1]
        rest == IF A.freed = NoList \/ new_freed THEN A.freed ELSE Tail(A.freed)
        fr_dirty == fr.blk \in A.wri
        av_dirty == A.avail[1].blk \in A.wri
        av_old == IF av_dirty THEN stack ELSE A.avail[1].blk
        fr_old == IF fr_dirty THEN stack ELSE fr.blk
        fr_blk == IF fr_dirty THEN fr.blk ELSE Max(peek)
        av_blk == IF av_dirty THEN A.avail[1].blk ELSE Min(peek)
    IN CASE A.dirtied -> A
         [] ~A.dirtied /\ FirstNr(A.avail) < 2 -> [A EXCEPT !.ok = FALSE]
         [] OTHER ->
              [A EXCEPT !.dirtied = TRUE,
                        !.wri = @ \cup {av_blk, fr_blk},
                        !.avail = <<[blk |-> av_blk, nr |-> @[1].nr \ peek]>> \o Tail(@),
                        !.freed = <<[blk |-> fr_blk, nr |-> fr.nr \cup ({av_old, fr_old} \ {0})]>>
                                    \o rest]

\* Lists whose first blocks are dirty give a block or take one.
take_block(D) ==
    IF ~D.ok \/ D.avail[1].nr = {} THEN [D EXCEPT !.ok = FALSE, !.blk = 0]
    ELSE [D EXCEPT !.avail[1].nr = @ \ {Min(@)}, !.blk = Min(D.avail[1].nr)]

put_block(D, b) ==
    IF ~D.ok \/ list_block_space(D.freed) = 0 THEN [D EXCEPT !.ok = FALSE]
    ELSE [D EXCEPT !.freed[1].nr = @ \cup {b}]

\* The number of the block is in A.blk.
scoutfs_alloc_meta(A) == take_block(dirty_alloc_blocks(A))
scoutfs_free_meta(A, b) == put_block(dirty_alloc_blocks(A), b)

\* D.blk is a new block that the transaction writes.
written_block(D) == IF D.ok THEN [D EXCEPT !.wri = @ \cup {D.blk}] ELSE D

\* The block that a reference leads to is dirty already, or is copied to a
\* new block and freed.  A.blk is the new reference.
free_copied(D, b) == IF D.ok /\ b # 0 THEN scoutfs_free_meta(D, b) ELSE D

scoutfs_block_dirty_ref(A, b) ==
    IF b # 0 /\ b \in A.wri THEN [A EXCEPT !.blk = b]
    ELSE free_copied(written_block(scoutfs_alloc_meta(A)), b)

\* An extent modification dirties the tree of the extents: one block here.
extent_mod_blocks == 1

list_has_blocks(A, addl) ==
    LET most == 1 + extent_mod_blocks + addl
    IN FirstNr(A.avail) >= most /\ list_block_space(A.freed) >= most

\* Blocks move from the extents of a root to the first block of a list, once
\* that block is dirty (D) and the tree of the extents is, too (T).
fill_list(D, T, list, root) ==
    LET nr == IF list = NoList THEN {} ELSE list[1].nr
        got == Take(root.ext, ListFillTarget - Cardinality(nr))
        rest == IF list = NoList THEN NoList ELSE Tail(list)
    IN CASE ~D.ok -> [A |-> D, list |-> list, root |-> root, ret |-> -1]
         [] D.ok /\ ~list_has_blocks(D, 0) ->
              [A |-> D, list |-> <<[blk |-> D.blk, nr |-> nr]>> \o rest, root |-> root, ret |-> 0]
         [] OTHER ->
              [A |-> T, list |-> <<[blk |-> D.blk, nr |-> nr \cup got]>> \o rest,
               root |-> [ext |-> root.ext \ got, blk |-> T.blk],
               ret |-> IF Cardinality(nr \cup got) < ListFillTarget THEN -1 ELSE 0]

fill_dirty_list(D, list, root) == fill_list(D, scoutfs_block_dirty_ref(D, root.blk), list, root)

scoutfs_alloc_fill_list(A, list, root) ==
    IF FirstNr(list) >= ListFillLo THEN [A |-> A, list |-> list, root |-> root, ret |-> 0]
    ELSE fill_dirty_list(scoutfs_block_dirty_ref(A, IF list = NoList THEN 0 ELSE list[1].blk), list, root)

\* The blocks of a list are merged into the extents of a root, block by
\* block of the list, and the emptied list blocks are freed.
RECURSIVE scoutfs_alloc_empty_list(_, _, _)

empty_list(D, T, root, list) ==
    scoutfs_alloc_empty_list(T, [ext |-> root.ext \cup list[1].nr, blk |-> T.blk],
                             <<[blk |-> D.blk, nr |-> {}]>> \o Tail(list))

empty_dirty_list(D, root, list) == empty_list(D, scoutfs_block_dirty_ref(D, root.blk), root, list)

scoutfs_alloc_empty_list(A, root, list) ==
    IF list = NoList \/ ~list_has_blocks(A, 1) THEN [A |-> A, list |-> list, root |-> root]
    ELSE IF list[1].nr = {}
    THEN scoutfs_alloc_empty_list(scoutfs_free_meta(A, list[1].blk), root, Tail(list))
    ELSE empty_dirty_list(scoutfs_block_dirty_ref(A, list[1].blk), root, list)

\* Every block of src is dirtied to hang dst on its end.
splice_block(D, list, nr) == [A |-> D, list |-> Append(list, [blk |-> D.blk, nr |-> nr])]
splice_end(R, dst) == [R EXCEPT !.list = @ \o dst]

scoutfs_alloc_splice_list(A, dst, src) ==
    splice_end(FoldLeft(LAMBDA R, lblk : splice_block(scoutfs_block_dirty_ref(R.A, lblk.blk), R.list, lblk.nr),
                        [A |-> A, list |-> NoList], src), dst)

-----------------------------------------------------------------------------
(***************************************************************************)
(* The server's super block and allocator.  avail and freed are the two    *)
(* lists of server_meta_avail and server_meta_freed, meta the roots of     *)
(* meta_alloc, tree a block of the server's other trees, lt the log trees  *)
(* item of the mount: root is a block of its item tree.                    *)
(***************************************************************************)

Other == srv.other_ind
Active == 3 - srv.other_ind
A0 == [avail |-> srv.avail, freed |-> srv.freed, dirtied |-> srv.dirtied, wri |-> srv.wri,
       blk |-> 0, ok |-> srv.ok]
Used(A) == [srv EXCEPT !.avail = A.avail, !.freed = A.freed, !.dirtied = A.dirtied, !.wri = A.wri,
                       !.ok = A.ok]

\* A server starts with the larger of the lists and of the allocators.
scoutfs_server_worker(super) ==
    LET other == IF FirstNr(super.avail[1]) < FirstNr(super.avail[2]) THEN 1 ELSE 2
    IN [avail |-> super.avail[3 - other], freed |-> super.freed[3 - other], dirtied |-> FALSE,
        wri |-> {}, ok |-> TRUE, other_ind |-> other,
        meta_avail |-> IF Cardinality(super.meta[2].ext) > Cardinality(super.meta[1].ext)
                       THEN 2 ELSE 1]

NoTrees == [avail |-> NoList, freed |-> NoList, root |-> 0, get |-> 0, commit |-> 0, final |-> FALSE]

\* A file system that has been in use: the lists of the server are nearly half
\* empty, some blocks were freed, and the allocator in use will run low.
FirstSuper ==
    LET n == ListMax \div 2 + 1
        a1 == 7 .. (6 + n)
        a2 == (7 + n) .. (6 + 2 * n)
        f2 == (7 + 2 * n) .. (10 + 2 * n)
        rest == (11 + 2 * n) .. (10 + 2 * n + ListFillTarget + ListMax \div 2)
    IN [avail |-> <<<<[blk |-> 1, nr |-> a1]>>, <<[blk |-> 2, nr |-> a2]>>>>,
        freed |-> <<NoList, <<[blk |-> 3, nr |-> f2]>>>>,
        meta |-> <<[ext |-> rest, blk |-> 4],
                   [ext |-> (Blocks \ (a1 \cup a2 \cup f2 \cup rest)) \ (1 .. 6), blk |-> 5]>>,
        tree |-> 6, lt |-> NoTrees, next_ino |-> 1]

NoMount == [pc |-> "up", lt |-> NoTrees, A |-> [avail |-> NoList, freed |-> NoList, dirtied |-> FALSE,
            wri |-> {}, blk |-> 0, ok |-> TRUE], root |-> 0, written |-> 0]

Init ==
    /\ sup = FirstSuper
    /\ stable = FirstSuper
    /\ srv = scoutfs_server_worker(FirstSuper)
    /\ cusers = [avail |-> 0, freed |-> 0, committing |-> FALSE, work |-> "idle", full |-> 0]
    /\ task = [t \in Tasks |-> [pc |-> "idle", op |-> "", ret |-> 0, ino |-> 0]]
    /\ mount = NoMount
    /\ stack = 0
    /\ inos = <<>>
    /\ commits = 0 /\ errors = 0 /\ failovers = 0

-----------------------------------------------------------------------------
(***************************************************************************)
(* Requests hold the commit, modify the dirty super, and apply.            *)
(***************************************************************************)

Holding == {t \in Tasks : task[t].pc \in {"hold", "apply"}}
Applying == {t \in Tasks : task[t].pc = "wait"}

Quiet == commits < MaxCommits

Receive(t, op) ==
    /\ task[t].pc = "idle"
    /\ task' = [task EXCEPT ![t] = [pc |-> "blocked", op |-> op, ret |-> 0, ino |-> 0]]

\* Requests that don't come from the modelled mount.
ReceiveOther ==
    /\ Quiet
    /\ \E op \in {"inodes", "tree"} : Receive("other", op)
    /\ UNCHANGED <<sup, stable, srv, cusers, mount, stack, inos, commits, errors, failovers>>

\* For this hold, the others, and the final work of the commit.
hold_budget(nr) == (nr + 2) * Budget

\* The condition that server_hold_commit() waits for.
hold_commit(t) ==
    LET nr == Cardinality(Holding)
        av == IF nr = 0 THEN FirstNr(srv.avail) ELSE cusers.avail
        fr == IF nr = 0 THEN list_block_space(srv.freed) ELSE cusers.freed
        has_room == av >= hold_budget(nr) /\ fr >= hold_budget(nr)
    IN /\ task[t].pc = "blocked"
       /\ \/ /\ ~cusers.committing /\ has_room /\ Applying = {}
             /\ task' = [task EXCEPT ![t].pc = "hold"]
             /\ cusers' = [cusers EXCEPT !.avail = av, !.freed = fr, !.full = 0]
          \/ /\ ~has_room /\ nr = 0 /\ ~cusers.committing
             /\ commits < MaxCommits + 2
             /\ cusers' = [cusers EXCEPT !.committing = TRUE, !.work = "queued"]
             /\ UNCHANGED task
       /\ UNCHANGED <<sup, stable, srv, mount, stack, inos, commits, errors, failovers>>

\* A request has modified the dirty super, or failed to.
Operated(t, A, super, ret) ==
    /\ srv' = Used(A)
    /\ sup' = super
    /\ task' = [task EXCEPT ![t].pc = "apply", ![t].ret = ret,
                            ![t].ino = IF task[t].op = "inodes" THEN sup.next_ino ELSE 0]
    /\ UNCHANGED <<stable, cusers, mount, stack, inos, commits, errors, failovers>>

server_alloc_inodes(t) ==
    /\ task[t].pc = "hold" /\ task[t].op = "inodes"
    /\ Operated(t, A0, [sup EXCEPT !.next_ino = @ + 1], 0)

\* A request that dirties a block of one of the server's trees.
ModifyTree(t) ==
    LET D == scoutfs_block_dirty_ref(A0, sup.tree)
    IN /\ task[t].pc = "hold" /\ task[t].op = "tree"
       /\ Operated(t, D, [sup EXCEPT !.tree = D.blk], 0)

\* The blocks that the mount freed in its last transaction, which is stable,
\* are the server's again, and its list of available blocks is filled.
GetLogs(t, D, S, F) ==
    LET filled == [sup EXCEPT !.tree = D.blk, !.freed[Other] = S.list,
                              !.meta[srv.meta_avail] = F.root,
                              !.lt.freed = NoList, !.lt.avail = F.list]
    IN IF F.ret # 0 THEN Operated(t, F.A, filled, -1)
       ELSE Operated(t, F.A, [filled EXCEPT !.lt.get = @ + 1], 0)

server_get_log_trees(t) ==
    /\ task[t].pc = "hold" /\ task[t].op = "get"
    /\ \/ sup.lt.get > sup.lt.commit /\ Operated(t, A0, sup, 0)
       \/ /\ sup.lt.get = sup.lt.commit
          /\ \E D \in {scoutfs_block_dirty_ref(A0, sup.tree)} :
             \E S \in {scoutfs_alloc_splice_list(D, sup.freed[Other], sup.lt.freed)} :
             \E F \in {scoutfs_alloc_fill_list(S.A, sup.lt.avail, sup.meta[srv.meta_avail])} :
                GetLogs(t, D, S, F)

\* The mount's log trees, with the lists that its transaction used.
Committed == [mount.lt EXCEPT !.avail = mount.A.avail, !.freed = mount.A.freed, !.root = mount.root]

server_commit_log_trees(t) ==
    LET D == scoutfs_block_dirty_ref(A0, sup.tree)
    IN /\ task[t].pc = "hold" /\ task[t].op = "commit"
       /\ \/ sup.lt.get # Committed.get /\ Operated(t, A0, sup, -1)
          \/ /\ sup.lt.get = Committed.get /\ sup.lt.commit = Committed.get
             /\ Operated(t, A0, sup, 0)
          \/ /\ sup.lt.get = Committed.get /\ sup.lt.commit # Committed.get
             /\ Operated(t, D, [sup EXCEPT !.tree = D.blk,
                                           !.lt = [Committed EXCEPT !.commit = Committed.get]], 0)

reclaim_open_log_tree(t) ==
    /\ task[t].pc = "hold" /\ task[t].op = "reclaim"
    /\ \/ sup.lt.final /\ Operated(t, A0, sup, 0)
       \/ /\ ~sup.lt.final
          /\ \E F \in {scoutfs_alloc_splice_list(A0, sup.freed[Other], sup.lt.freed)} :
             \E V \in {scoutfs_alloc_splice_list(F.A, F.list, sup.lt.avail)} :
             \E D \in {scoutfs_block_dirty_ref(V.A, sup.tree)} :
                Operated(t, D, [sup EXCEPT !.freed[Other] = V.list, !.tree = D.blk,
                                           !.lt = [@ EXCEPT !.freed = NoList, !.avail = NoList,
                                                            !.commit = sup.lt.get, !.final = TRUE]], 0)

\* The responses to the requests of the tasks of a set.
Respond(ts, ret) ==
    LET got == "logs" \in ts
        op == task["logs"].op
        fresh == [avail |-> sup.lt.avail, freed |-> sup.lt.freed, dirtied |-> FALSE, wri |-> {},
                  blk |-> 0, ok |-> TRUE]
    IN /\ inos' = IF "other" \in ts /\ task["other"].op = "inodes" /\ ret = 0
                  THEN Append(inos, task["other"].ino) ELSE inos
       /\ mount' = CASE got /\ op = "get" /\ ret = 0 ->
                            [mount EXCEPT !.pc = "open", !.lt = sup.lt, !.A = fresh, !.root = sup.lt.root]
                     [] got /\ op = "get" /\ ret # 0 ->
                            [mount EXCEPT !.pc = IF mount.lt.get = 0 THEN "up" ELSE "commit"]
                     [] got /\ op = "commit" ->
                            [mount EXCEPT !.pc = CASE ret = 0 -> "up"
                                                   [] ret # 0 /\ mount.written = mount.lt.get -> "commit"
                                                   [] OTHER -> "open",
                                          !.written = IF ret = 0 THEN mount.lt.get ELSE @]
                     [] got /\ op = "reclaim" ->
                            [mount EXCEPT !.pc = IF ret = 0 THEN "gone" ELSE "dead"]
                     [] OTHER -> mount

\* Seeded bug: the response is sent before the commit is written.
server_apply_commit_early(t) ==
    /\ task[t].pc = "apply"
    /\ task' = [task EXCEPT ![t].pc = "idle"]
    /\ Respond({t}, task[t].ret)
    /\ cusers' = IF Holding = {t} /\ ~cusers.committing
                 THEN [cusers EXCEPT !.committing = TRUE, !.work = "queued"] ELSE cusers
    /\ UNCHANGED <<sup, stable, srv, stack, commits, errors, failovers>>

\* The last of the holders queues the commit that they all wait for.
server_apply_commit(t) ==
    LET waits == task[t].ret = 0
    IN /\ task[t].pc = "apply"
       /\ task' = [task EXCEPT ![t].pc = IF waits THEN "wait" ELSE "idle"]
       /\ IF waits THEN UNCHANGED <<inos, mount>> ELSE Respond({t}, task[t].ret)
       /\ cusers' = IF Holding = {t} /\ ~cusers.committing /\ (waits \/ Applying # {})
                    THEN [cusers EXCEPT !.committing = TRUE, !.work = "queued"] ELSE cusers
       /\ UNCHANGED <<sup, stable, srv, stack, commits, errors, failovers>>

-----------------------------------------------------------------------------
(***************************************************************************)
(* The commit work.                                                        *)
(***************************************************************************)

commit_end(ret) ==
    /\ Respond(Applying, ret)
    /\ task' = [t \in Tasks |-> IF t \in Applying THEN [task[t] EXCEPT !.pc = "idle"] ELSE task[t]]
    /\ cusers' = [cusers EXCEPT !.committing = FALSE, !.work = "idle",
                                !.full = IF ret = 0 /\ Applying = {} THEN @ + 1 ELSE @]

\* The freed blocks are merged in the allocator that isn't in use.
empty_freed == 3 - srv.meta_avail

\* The lists of the next commit are filled (F) and emptied (E) with the lists
\* of this one, and the dirty blocks are written.
FillAvail == scoutfs_alloc_fill_list(A0, sup.avail[Other], sup.meta[srv.meta_avail])
Filled(F) == [sup EXCEPT !.avail[Other] = F.list, !.meta[srv.meta_avail] = F.root]
EmptyFreed(F) == scoutfs_alloc_empty_list(F.A, Filled(F).meta[empty_freed], sup.freed[Other])

CommitBlocks ==
    /\ cusers.work = "queued"
    /\ commits' = commits + 1
    /\ \E F \in {FillAvail} :
         \/ /\ F.ret # 0
            /\ sup' = Filled(F)
            /\ srv' = Used(F.A)
            /\ commit_end(-1)
         \/ /\ F.ret = 0
            /\ \E E \in {EmptyFreed(F)} :
                 /\ sup' = [Filled(F) EXCEPT !.meta[empty_freed] = E.root, !.freed[Other] = E.list,
                                             !.avail[Active] = E.A.avail, !.freed[Active] = E.A.freed]
                 /\ srv' = [Used(E.A) EXCEPT !.dirtied = FALSE, !.wri = {}]
            /\ cusers' = [cusers EXCEPT !.work = "super"]
            /\ UNCHANGED <<task, mount, inos>>
    /\ UNCHANGED <<stable, stack, errors, failovers>>

\* The lists swap roles, and so do the allocators when the one that is used
\* runs low and the other holds more.
Swizzled ==
    LET total(i) == Cardinality(sup.meta[i].ext)
        low == total(srv.meta_avail) < Reserved * 2 /\ total(3 - srv.meta_avail) > total(srv.meta_avail)
    IN [srv EXCEPT !.other_ind = Active, !.avail = sup.avail[Other], !.freed = sup.freed[Other],
                   !.meta_avail = IF low THEN 3 - @ ELSE @]

CommitSuper ==
    /\ cusers.work = "super"
    /\ stable' = sup
    /\ srv' = Swizzled
    /\ commit_end(0)
    /\ UNCHANGED <<sup, stack, commits, errors, failovers>>

\* Writing the super block fails.
CommitSuperFails ==
    /\ cusers.work = "super"
    /\ errors < MaxErrors
    /\ errors' = errors + 1
    /\ commit_end(-1)
    /\ UNCHANGED <<sup, stable, srv, stack, commits, failovers>>

\* Writing the dirty blocks fails: they stay dirty.  A later call will find
\* nothing, or a block that an earlier call left, in the locals it doesn't set.
CommitBlocksFail ==
    /\ cusers.work = "queued"
    /\ errors < MaxErrors
    /\ errors' = errors + 1
    /\ commits' = commits + 1
    /\ \E F \in {FillAvail} : \E E \in {EmptyFreed(F)} :
         /\ F.ret = 0
         /\ sup' = [Filled(F) EXCEPT !.meta[empty_freed] = E.root, !.freed[Other] = E.list]
         /\ srv' = [Used(E.A) EXCEPT !.dirtied = FALSE]
    /\ stack' \in {0, sup.tree}
    /\ commit_end(-1)
    /\ UNCHANGED <<stable, failovers>>

\* The server fails: another starts from the super block on the device, and
\* the mount sends its request again.
ServerFails ==
    /\ failovers < MaxFailovers
    /\ failovers' = failovers + 1
    /\ sup' = stable
    /\ srv' = scoutfs_server_worker(stable)
    /\ cusers' = [avail |-> 0, freed |-> 0, committing |-> FALSE, work |-> "idle", full |-> 0]
    /\ task' = [t \in Tasks |-> [pc |-> "idle", op |-> "", ret |-> 0, ino |-> 0]]
    /\ UNCHANGED <<stable, mount, stack, inos, commits, errors>>

-----------------------------------------------------------------------------
(***************************************************************************)
(* The mount.  pc: up, it needs the log trees of a transaction; open;      *)
(* commit, its blocks are written and it needs them committed; dead, it    *)
(* was fenced and the server reclaims its log trees; gone.                 *)
(***************************************************************************)

\* Seeded bug: log trees are reclaimed before the mount was fenced.
ReceiveLogs_unfenced ==
    /\ Quiet
    /\ \/ mount.pc = "up" /\ Receive("logs", "get")
       \/ mount.pc = "commit" /\ Receive("logs", "commit")
       \/ mount.pc \in {"open", "dead"} /\ Receive("logs", "reclaim")
    /\ UNCHANGED <<sup, stable, srv, cusers, mount, stack, inos, commits, errors, failovers>>

ReceiveLogs ==
    /\ Quiet
    /\ \/ mount.pc = "up" /\ Receive("logs", "get")
       \/ mount.pc = "commit" /\ Receive("logs", "commit")
       \/ mount.pc = "dead" /\ Receive("logs", "reclaim")
    /\ UNCHANGED <<sup, stable, srv, cusers, mount, stack, inos, commits, errors, failovers>>

\* Items are inserted in the log tree of the mount.
MountDirty ==
    LET D == scoutfs_block_dirty_ref(mount.A, mount.root)
    IN /\ mount.pc = "open"
       /\ mount.root = 0 \/ mount.root \notin mount.A.wri
       /\ mount' = [mount EXCEPT !.A = D, !.root = D.blk]
       /\ UNCHANGED <<sup, stable, srv, cusers, task, stack, inos, commits, errors, failovers>>

MountWrite ==
    /\ mount.pc = "open"
    /\ mount' = [mount EXCEPT !.pc = "commit", !.A.dirtied = FALSE, !.A.wri = {}]
    /\ UNCHANGED <<sup, stable, srv, cusers, task, stack, inos, commits, errors, failovers>>

MountDies ==
    /\ mount.pc \in {"open", "commit"}
    /\ task["logs"].pc = "idle"
    /\ mount' = [mount EXCEPT !.pc = "dead"]
    /\ UNCHANGED <<sup, stable, srv, cusers, task, stack, inos, commits, errors, failovers>>

Next ==
    \/ ReceiveOther \/ ReceiveLogs
    \/ \E t \in Tasks :
          \/ hold_commit(t) \/ server_alloc_inodes(t) \/ ModifyTree(t)
          \/ server_get_log_trees(t) \/ server_commit_log_trees(t) \/ reclaim_open_log_tree(t)
          \/ server_apply_commit(t)
    \/ CommitBlocks \/ CommitSuper \/ CommitSuperFails
    \/ ServerFails
    \/ MountDirty \/ MountWrite \/ MountDies

Spec == Init /\ [][Next]_vars

\* The blocks of the device may also fail to be written.
SpecWrites == Init /\ [][Next \/ CommitBlocksFail]_vars

-----------------------------------------------------------------------------
(***************************************************************************)
(* Properties.                                                             *)
(***************************************************************************)

LiveBlocks(super) ==
    ({super.meta[1].blk, super.meta[2].blk, super.tree, super.lt.root} \ {0})
    \cup UNION {ListBlocks(super.avail[i]) \cup ListBlocks(super.freed[i]) : i \in 1 .. 2}
    \cup ListBlocks(super.lt.avail) \cup ListBlocks(super.lt.freed)

\* A transaction never writes a block that the super block on the device leads
\* to, so that a crash at any point leaves the last commit intact: neither the
\* server's dirty blocks (scoutfs_block_dirty_ref()) nor those of the mount.
StableIntact ==
    /\ srv.wri \cap LiveBlocks(stable) = {}
    /\ mount.pc = "open" => mount.A.wri \cap LiveBlocks(stable) = {}

Places(super, avail, freed) ==
    LET lists == <<avail, freed, super.avail[Other], super.freed[Other], super.lt.avail, super.lt.freed>>
    IN FlattenSeq([i \in 1 .. Len(lists) |-> <<Listed(lists[i]), ListBlocks(lists[i])>>])
         \o <<super.meta[1].ext, super.meta[2].ext, {super.meta[1].blk}, {super.meta[2].blk},
              {super.tree}, {super.lt.root} \ {0}>>

\* Every block is in exactly one place, a list, the extents of an allocator or
\* a tree: moving blocks between the server's two pairs of lists, the
\* allocators and the mount's item neither leaks one nor frees one twice.
BlocksAccounted ==
    LET places == Places(sup, srv.avail, srv.freed)
    IN /\ UNION {places[i] : i \in DOMAIN places} = Blocks
       /\ FoldLeft(LAMBDA n, S : n + Cardinality(S), 0, places) = NBlocks

\* While a mount's transaction is open the blocks that it may write, or that
\* it has written, are not in any list that the server allocates from, even
\* once another server has taken over.
MountOwns ==
    LET own == Listed(mount.A.avail) \cup ListBlocks(mount.A.avail) \cup ListBlocks(mount.A.freed)
                 \cup ({mount.root} \ {0})
    IN mount.pc \in {"open", "commit"} /\ mount.written # mount.lt.get =>
         own \cap (Listed(srv.avail) \cup srv.wri \cup sup.meta[1].ext \cup sup.meta[2].ext
                     \cup Listed(sup.avail[Other]) \cup Listed(sup.freed[Other])) = {}

\* A hold that finds no room starts a commit to use the next lists: it finds
\* room in one of the two pairs of lists that the server swaps between, it
\* never has to start a third commit in a row.  Nor do the server and the mount
\* run out of blocks in a transaction ("shouldn't happen, transaction should
\* commit first").
HoldsFindRoom == cusers.full <= 2 /\ srv.ok /\ mount.A.ok

\* A response that reports success describes what is on the device: the
\* transaction that the mount was told is committed, and inode numbers that
\* will not be handed out again, whatever server fails.
AppliedIsStable ==
    /\ mount.written <= stable.lt.commit
    /\ \A i \in DOMAIN inos : inos[i] < stable.next_ino
    /\ IsInjective(inos)

=============================================================================
