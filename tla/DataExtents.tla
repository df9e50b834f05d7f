---------------------------- MODULE DataExtents ----------------------------
(***************************************************************************)
(* The data extents of files (data.c) and the free extents that they are   *)
(* allocated from and freed to (alloc.c), for one mount.                   *)
(*                                                                         *)
(* Data is offline when an archive has the only copy.  Blocks are released *)
(* after they were archived, and staged before they can be used, as long   *)
(* as the file's data_version is the one that was archived.  Tasks that    *)
(* need offline data wait for it.                                          *)
(*                                                                         *)
(* Operations on a file exclude each other.  Truncation, preallocation and *)
(* moving of blocks change a few extents in each transaction, so that a    *)
(* step here changes one extent, and a commit can follow each of them.     *)
(* Blocks that are freed in a transaction can't be allocated again until   *)
(* it has committed, when the server moves them to its free extents and    *)
(* fills the mount's allocator.                                            *)
(*                                                                         *)
(* Sizes are in blocks, and allocation zones are left out.                 *)
(***************************************************************************)
EXTENDS Extents

CONSTANTS
    Files,          \* the regular files
    Archived,       \* the files that the agent archives or restores
    NBlocks,        \* logical blocks of a file
    NData,          \* data blocks of the device
    DataStart,      \* SCOUTFS_DATA_DEV_START_BLKNO, the first of them
    Prealloc,       \* data_prealloc_blocks
    ContigOnly,     \* the values of data_prealloc_contig_only
    LgThresh,       \* SCOUTFS_ALLOC_DATA_LG_THRESH
    FillLo,         \* SCOUTFS_SERVER_DATA_FILL_LO
    FillTarget,     \* SCOUTFS_SERVER_DATA_FILL_TARGET
    WholeFile,      \* writes wait for all of the file, as with KC_LINUX_HAVE_FOP_AIO_READ
    OrderLen,       \* the order of free extents of length n is log n to this base
    DataOps,        \* bounds operations
    DataErrors      \* bounds failing operations

VARIABLES
    file,           \* each file: extents, counts of blocks, size, truncate flag
    arch,           \* whether a file's data_version is zero, not archived, current in the archive, or newer
    avail,          \* data_alloc's root of free extents
    cached,         \* data_alloc's cached free extent
    freed,          \* data_freed
    sdata,          \* the server's data_alloc
    kept,           \* blocks that are mapped by the last commit
    op,             \* the operation that has the inode locks between its transactions
    waiter,         \* a task that waits for offline data
    dops,
    derrors

dataVars == <<file, arch, avail, cached, freed, sdata, kept, op, waiter, dops, derrors>>

OFFLINE == "offline"
UNWRITTEN == "unwritten"

IBlock == 0..(NBlocks - 1)
LastBlock == NBlocks + Prealloc - 1
NoWaiter == [file |-> "none", iblock |-> 0]
NoOp == [kind |-> "none"]

Init ==
    /\ file = [f \in Files |-> [ext |-> {}, on |-> 0, off |-> 0, size |-> 0, trunc |-> FALSE, changed |-> TRUE]]
    /\ arch = [f \in Files |-> "zero"]
    /\ avail = {Ext(DataStart, NData, 0, {})}
    /\ cached = NoExt
    /\ freed = {}
    /\ sdata = {}
    /\ kept = {}
    /\ op = NoOp
    /\ waiter = NoWaiter
    /\ dops = 0
    /\ derrors = 0

-----------------------------------------------------------------------------
(* Extents of files. *)

online(e) == e.map # 0 /\ UNWRITTEN \notin e.flags

\* Seeded bug: waiting tasks are woken when all of the file is online.
wake_last(F, off) == off < 0 /\ F.off + off = 0

\* scoutfs_inode_add_onoff() wakes when offline blocks decrease.
wake(F, off) == off < 0

\* data_ext_insert() and data_ext_remove() with add_onoff(): offline blocks that are removed
\* wake the waiting tasks.
data_ext_change(F, c) ==
    LET len == IF c.ins THEN c.ext.len ELSE -c.ext.len
        on == IF online(c.ext) THEN len ELSE 0
        off == IF ~online(c.ext) /\ OFFLINE \in c.ext.flags THEN len ELSE 0
    IN [F EXCEPT !.ext = ChangeItem(@, c), !.on = @ + on, !.off = @ + off, !.changed = @ \/ wake(F, off)]

FileBlocks(F) == UNION {e.map..(e.map + e.len - 1) : e \in {x \in F.ext : x.map # 0}}

OfflineBlocks(F) == {b \in 0..LastBlock : OFFLINE \in BlockOf(F.ext, b).flags}

-----------------------------------------------------------------------------
(* Free extents of allocators. *)

free_insert(E, start, len) == apply_changes(E, scoutfs_ext_insert(E, start, len, 0, {}).chg, FALSE)

\* The order index has the extents with the largest order first.
free_extent_order(len) == Max({n \in 0..NData : n = 0 \/ OrderLen ^ n <= len})
order_next(E) ==
    CHOOSE e \in E : \A x \in E \ {e} :
        \/ free_extent_order(e.len) > free_extent_order(x.len)
        \/ free_extent_order(e.len) = free_extent_order(x.len) /\ ext_last(e) < ext_last(x)

\* scoutfs_alloc_data(): a result with the remaining free extents.
Alloced(start, len, av, ca) == [ok |-> TRUE, blkno |-> start, count |-> len, avail |-> av, cached |-> ca]
NoSpace(av, ca) == [ok |-> FALSE, blkno |-> 0, count |-> 0, avail |-> av, cached |-> ca]

alloc_found(av, found, n) ==
    [ext |-> Ext(found.start, Min({found.len, n}), 0, {}),
     avail |-> apply_changes(av, scoutfs_ext_alloc(found, n).chg, FALSE)]

alloc_large(t, ca) == Alloced(t.ext.start, t.ext.len, t.avail, ca)

alloc_small(t, len) ==
    Alloced(t.ext.start, len, t.avail,
            IF t.ext.len = len THEN NoExt ELSE Ext(t.ext.start + len, t.ext.len - len, 0, {}))

\* Small allocations are made from a cached extent.
alloc_cached(t, count) == alloc_small(t, Min({count, t.ext.len}))

scoutfs_alloc_data(av, ca, count) ==
    IF av = {} /\ (count >= LgThresh \/ ca.len = 0) THEN NoSpace(av, ca)
    ELSE IF count >= LgThresh THEN alloc_large(alloc_found(av, order_next(av), count), ca)
    ELSE IF ca.len = 0 THEN alloc_cached(alloc_found(av, order_next(av), LgThresh), count)
    ELSE alloc_cached([ext |-> ca, avail |-> av], count)

\* Seeded bug: freed blocks can be allocated at once.
scoutfs_free_data_avail(S, blkno, len) == [S EXCEPT !.avail = free_insert(@, blkno, len)]

\* Freed extents become available after the transaction.
scoutfs_free_data(S, blkno, len) == [S EXCEPT !.freed = free_insert(@, blkno, len)]

\* scoutfs_alloc_move() of at most n extents with at most total blocks.
RECURSIVE scoutfs_alloc_move(_, _, _, _)

move_extent(dst, src, start, len, total, n) ==
    scoutfs_alloc_move(free_insert(dst, start, len),
                       apply_changes(src, scoutfs_ext_remove(src, start, len).chg, FALSE), total - len, n - 1)

scoutfs_alloc_move(dst, src, total, n) ==
    IF total = 0 \/ n = 0 \/ src = {} THEN <<dst, src>>
    ELSE LET found == order_next(src) IN move_extent(dst, src, found.start, Min({found.len, total}), total, n)

-----------------------------------------------------------------------------
(* Changes of a file and of the allocators in a transaction. *)

\* The state that an operation on file f changes, and whether it succeeds.
Start(f) == [ok |-> TRUE, f |-> f, F |-> file[f], avail |-> avail, cached |-> cached, freed |-> freed]

Fails(S) == [S EXCEPT !.ok = FALSE]

\* The file with changed extents, or the same file after an error.
Changed(F, res, fail) == IF res.ok THEN FoldLeft(data_ext_change, F, performed(res.chg, fail)) ELSE F

ext_changed(S, res, fail) == [S EXCEPT !.ok = res.ok /\ ~fail, !.F = Changed(@, res, fail)]

\* scoutfs_ext_set() of the file's extents, which can fail.
ext_set(S, start, len, map, flags, fail) ==
    ext_changed(S, scoutfs_ext_set(S.F.ext, start, len, map, flags), fail)

\* The state after an allocation.
Allocated(S, a) == [S EXCEPT !.ok = a.ok, !.avail = a.avail, !.cached = a.cached]

\* The region that alloc_block() tries to allocate for a write to block i.
prealloc_region(F, ext, i, contig) ==
    LET first == i - (i % Prealloc)
        found == ext_next(F.ext, first)
        before == found.len > 0 /\ found.start < i
        start == IF before THEN i ELSE first
        end == first + Prealloc
        after == IF before THEN ext_next(F.ext, i) ELSE found
        next == ext_next(F.ext, i)
    IN IF ext.len > 0
       THEN [start |-> i, count |-> Min({ext.len - (i - ext.start), Prealloc})]
       ELSE IF contig
       THEN [start |-> i,
             count |-> IF i > 1 /\ i = F.on
                       THEN Min({i, Prealloc, IF next.len > 0 /\ next.start > i THEN next.start - i ELSE Prealloc})
                       ELSE 1]
       ELSE [start |-> start,
             count |-> (IF after.len > 0 /\ after.start > start /\ after.start < end THEN after.start ELSE end) - start]

undo_pre(S, start, count, flags) == IF count > 1 THEN ext_set(S, start, count, 0, flags, FALSE) ELSE S

\* alloc_block() of blocks a from start on: the preallocated blocks are unwritten (P), and
\* the block that is written is not (W).
map_pre(A, a, start, flags, fail) ==
    IF a.count > 1
    THEN ext_set(A, start, a.count, a.blkno, flags \cup {UNWRITTEN}, fail = "pre")
    ELSE IF fail = "pre" THEN Fails(A) ELSE A

map_undone(P, W, a, start, flags) ==
    IF ~P.ok THEN Fails(scoutfs_free_data(P, a.blkno, a.count))
    ELSE IF ~W.ok THEN Fails(scoutfs_free_data(undo_pre(W, start, a.count, flags), a.blkno, a.count))
    ELSE W

map_written(P, a, start, i, flags, fail) ==
    map_undone(P, ext_set(P, i, 1, a.blkno + (i - start), {}, fail = "set"), a, start, flags)

alloc_at(A, a, start, i, flags, fail) == map_written(map_pre(A, a, start, flags, fail), a, start, i, flags, fail)

alloc_in(S, a, start, i, flags, fail) ==
    IF ~a.ok THEN Allocated(S, a)
    ELSE alloc_at(Allocated(S, a), a, IF start + a.count <= i THEN i - a.count + 1 ELSE start, i, flags, fail)

alloc_region(S, region, i, flags, fail) ==
    alloc_in(S, scoutfs_alloc_data(S.avail, S.cached, region.count), region.start, i, flags, fail)

alloc_block(S, ext, i, contig, fail) ==
    alloc_region(S, prealloc_region(S.F, ext, i, contig), i, IF ext.len > 0 THEN ext.flags ELSE {}, fail)

\* scoutfs_get_block() for a write to block i.
get_block(S, ext, i, staging, contig, fail) ==
    IF ext.map # 0 /\ OFFLINE \in ext.flags /\ ~staging
    THEN Fails(S)
    ELSE IF ext.map # 0 /\ UNWRITTEN \in ext.flags
    THEN ext_set(S, i, 1, ext.map + (i - ext.start), {}, fail # "none")
    ELSE IF ext.map = 0
    THEN alloc_block(S, ext, i, contig, fail)
    ELSE S

scoutfs_get_block(S, i, staging, contig, fail) ==
    LET next == ext_next(S.F.ext, i)
    IN get_block(S, IF next.len = 0 \/ next.start > i THEN NoExt ELSE next, i, staging, contig, fail)

-----------------------------------------------------------------------------
(* Operations. *)

\* An operation on a file ends a transaction with state S.
Update(S) ==
    /\ file' = [file EXCEPT ![S.f] = S.F]
    /\ avail' = S.avail /\ cached' = S.cached /\ freed' = S.freed

Fail(fails) == {"none"} \cup (IF derrors < DataErrors THEN fails ELSE {})
Failed(fail) == derrors' = IF fail = "none" THEN derrors ELSE derrors + 1

\* scoutfs_inode_inc_data_version(): the archived copy is old.
Newer(version) == CASE version = "zero" -> "none" [] version = "current" -> "old" [] OTHER -> version
inc_data_version(f) == arch' = [arch EXCEPT ![f] = Newer(@)]

\* scoutfs_data_wait_check() of the blocks in range.
data_wait_check(F, range) == F.off # 0 /\ OfflineBlocks(F) \cap range # {}

\* The task waits for the first offline block of the range.
scoutfs_data_wait(f, range) ==
    /\ waiter = NoWaiter
    /\ waiter' = [file |-> f, iblock |-> Min(OfflineBlocks(file[f]) \cap range)]
    /\ file' = [file EXCEPT ![f].changed = FALSE]
    /\ UNCHANGED <<arch, avail, cached, freed, sdata, kept, op, derrors>>

\* scoutfs_file_aio_read(): only the check of the extents, which moving blocks doesn't exclude.
Read(f, i) ==
    /\ op.kind \in {"none", "move"}
    /\ i < file[f].size
    /\ data_wait_check(file[f], {i})
    /\ scoutfs_data_wait(f, {i})

\* The waiting task tries again, or it returns an error.
WaitDone ==
    /\ waiter # NoWaiter
    /\ file[waiter.file].changed
    /\ waiter' = NoWaiter
    /\ UNCHANGED <<file, arch, avail, cached, freed, sdata, kept, op, derrors>>

\* The file's lock is invalidated, or the agent returns an error to the waiting task.
scoutfs_data_wait_changed(f) ==
    /\ op = NoOp /\ waiter.file = f
    /\ file' = [file EXCEPT ![f].changed = TRUE]
    /\ UNCHANGED <<arch, avail, cached, freed, sdata, kept, op, waiter, derrors>>

\* The agent reads the file's data.
Archive(f) ==
    /\ op = NoOp /\ f \in Archived /\ file[f].size > 0 /\ ~data_wait_check(file[f], 0..(file[f].size - 1))
    /\ arch[f] \in {"none", "old"}
    /\ arch' = [arch EXCEPT ![f] = "current"]
    /\ UNCHANGED <<file, avail, cached, freed, sdata, kept, op, waiter, derrors>>

\* A write to a block.
Write(f, i) ==
    LET F == file[f] IN
    LET check == IF WholeFile THEN 0..(F.size - 1) ELSE {i} IN
    /\ op = NoOp /\ ~F.trunc
    /\ IF data_wait_check(F, check)
       THEN scoutfs_data_wait(f, check)
       ELSE \E fail \in Fail({"pre", "set"}), contig \in ContigOnly :
            \E S \in {scoutfs_get_block(Start(f), i, FALSE, contig, fail)} :
            /\ IF S.ok
               THEN Update([S EXCEPT !.F.size = Max({@, i + 1})]) /\ inc_data_version(f)
               ELSE Update(S) /\ UNCHANGED arch
            /\ Failed(fail)
            /\ UNCHANGED <<sdata, kept, op, waiter>>

\* scoutfs_ioc_stage() of a block: the archive's data_version matches.
scoutfs_ioc_stage(f, i) ==
    /\ op = NoOp /\ arch[f] = "current" /\ i < file[f].size
    /\ \E fail \in Fail({"pre", "set"}), contig \in ContigOnly :
         /\ Update(scoutfs_get_block(Start(f), i, TRUE, contig, fail))
         /\ Failed(fail)
    /\ UNCHANGED <<arch, sdata, kept, op, waiter>>

\* scoutfs_ioc_setattr_more() of a file that is restored with offline data.  An error of
\* scoutfs_data_init_offline_extent() isn't returned.
scoutfs_ioc_setattr_more(f, n) ==
    LET F == file[f]
        res == scoutfs_ext_insert(F.ext, 0, n, 0, {OFFLINE})
    IN /\ op = NoOp /\ f \in Archived /\ arch[f] = "zero" /\ F.on = 0 /\ F.off = 0
       /\ file' = [file EXCEPT ![f] = [FoldLeft(data_ext_change, F, res.chg) EXCEPT !.size = n]]
       /\ arch' = [arch EXCEPT ![f] = "current"]
       /\ UNCHANGED <<avail, cached, freed, sdata, kept, op, waiter, derrors>>

\* The first block that has no bytes inside the size.
truncate_from(size) == size

Truncate(f, first, last, offline, then) ==
    [kind |-> "truncate", f |-> f, iblock |-> first, last |-> last, offline |-> offline, then |-> then]

\* scoutfs_setattr() of the size, and set_inode_size().
scoutfs_setattr(f, n) ==
    LET F == file[f] IN
    /\ op = NoOp /\ ~F.trunc
    /\ IF n > 0 /\ n # F.size /\ data_wait_check(F, 0..(n - 1))
       THEN scoutfs_data_wait(f, 0..(n - 1))
       ELSE /\ file' = [file EXCEPT ![f].size = n, ![f].trunc = F.size >= n]
            /\ IF n = F.size THEN UNCHANGED arch ELSE inc_data_version(f)
            /\ op' = IF F.size >= n THEN Truncate(f, truncate_from(n), LastBlock, FALSE, "clear") ELSE NoOp
            /\ UNCHANGED <<avail, cached, freed, sdata, kept, waiter, derrors>>

\* scoutfs_complete_truncate() before a write or a change of the size.
scoutfs_complete_truncate(f) ==
    /\ op = NoOp /\ file[f].trunc
    /\ op' = Truncate(f, truncate_from(file[f].size), LastBlock, FALSE, "clear")
    /\ UNCHANGED <<file, arch, avail, cached, freed, sdata, kept, waiter, derrors>>

\* scoutfs_ioc_release(): the archive's data_version matches.
scoutfs_ioc_release(f, first, last) ==
    /\ op = NoOp /\ arch[f] = "current"
    /\ op' = Truncate(f, first, last, TRUE, "release")
    /\ UNCHANGED <<file, arch, avail, cached, freed, sdata, kept, waiter, derrors>>

\* The part of an extent that is truncated.
Truncated(ext, first, last) ==
    LET start == Max({ext.start, first})
    IN Ext(start, Min({ext_last(ext), last}) - start + 1, ext_map_add(ext.map, start - ext.start), ext.flags)

\* truncate_extents() of the next extent: on errors the mapping is restored.
truncated(T, tr, fail) ==
    IF ~T.ok \/ tr.map = 0 THEN T
    ELSE IF fail = "free" THEN Fails(ext_set(T, tr.start, tr.len, tr.map, tr.flags, FALSE))
    ELSE scoutfs_free_data(T, tr.map, tr.len)

truncate_extent(S, tr, fail) ==
    truncated(ext_set(S, tr.start, tr.len, 0, IF op.offline THEN {OFFLINE} ELSE {}, fail = "set"), tr, fail)

truncate_extents ==
    /\ op.kind = "truncate"
    /\ \E ext \in {ext_next(file[op.f].ext, op.iblock)} :
         IF op.iblock > op.last \/ ext.len = 0 \/ ext.start > op.last
         THEN /\ op' = [kind |-> op.then, f |-> op.f, ok |-> TRUE]
              /\ UNCHANGED <<file, avail, cached, freed, derrors>>
         ELSE IF op.offline /\ OFFLINE \in ext.flags /\ ext.map = 0
         THEN /\ op' = [op EXCEPT !.iblock = ext.start + ext.len]
              /\ UNCHANGED <<file, avail, cached, freed, derrors>>
         ELSE \E fail \in Fail({"set", "free"}), tr \in {Truncated(ext, op.iblock, op.last)} :
              \E R \in {truncate_extent(Start(op.f), tr, fail)} :
                 /\ Update(R)
                 /\ Failed(fail)
                 /\ op' = IF R.ok THEN [op EXCEPT !.iblock = tr.start + tr.len]
                          ELSE [kind |-> op.then, f |-> op.f, ok |-> FALSE]
    /\ UNCHANGED <<arch, sdata, kept, waiter>>

\* clear_truncate_flag(), also after errors.
clear_truncate_flag ==
    /\ op.kind = "clear"
    /\ op' = NoOp
    /\ \E fail \in Fail({"clear"}) :
         /\ file' = IF fail = "clear" THEN file ELSE [file EXCEPT ![op.f].trunc = FALSE]
         /\ Failed(fail)
    /\ UNCHANGED <<arch, avail, cached, freed, sdata, kept, waiter>>

\* A file that has no online blocks left is truncated.
ReleaseEnd ==
    /\ op.kind = "release"
    /\ LET F == file[op.f]
       IN op' = IF op.ok /\ F.on = 0 /\ F.size > 0 THEN Truncate(op.f, truncate_from(F.size), LastBlock, FALSE, "none") ELSE NoOp
    /\ UNCHANGED <<file, arch, avail, cached, freed, sdata, kept, waiter, derrors>>

\* scoutfs_fallocate() of blocks in a file.
scoutfs_fallocate(f, first, last, keep) ==
    /\ op = NoOp
    /\ op' = [kind |-> "fallocate", f |-> f, iblock |-> first, last |-> last, keep |-> keep]
    /\ UNCHANGED <<file, arch, avail, cached, freed, sdata, kept, waiter, derrors>>

\* The blocks from iblock that fallocate_extents() skips or allocates next.
fallocate_count(ext, iblock, last) ==
    LET count == last - iblock + 1
    IN IF ext.len = 0 THEN count
       ELSE IF ext.start <= iblock THEN Min({count, ext.len - (iblock - ext.start)})
       ELSE Min({count, ext.start - iblock})

\* fallocate_extents() of the next extent, and the new size.  When nothing can be allocated
\* then it fails, or tries again after a commit.
fallocated(S, n) ==
    /\ IF ~op.keep /\ op.iblock + n > S.F.size
       THEN Update([S EXCEPT !.F.size = op.iblock + n]) /\ inc_data_version(op.f)
       ELSE Update(S) /\ UNCHANGED arch
    /\ op' = IF op.iblock + n > op.last THEN NoOp ELSE [op EXCEPT !.iblock = @ + n]

fallocate_extents ==
    /\ op.kind = "fallocate"
    /\ \E S \in {Start(op.f)}, ext \in {ext_next(file[op.f].ext, op.iblock)} :
       \E count \in {fallocate_count(ext, op.iblock, op.last)}, in \in {ext.len > 0 /\ ext.start <= op.iblock} :
       \E a \in {scoutfs_alloc_data(avail, cached, count)} :
         IF in /\ ext.map # 0
         THEN fallocated(S, count) /\ UNCHANGED derrors
         ELSE IF ~a.ok
         THEN op' = NoOp /\ UNCHANGED <<file, arch, avail, cached, freed, derrors>>
         ELSE \E fail \in Fail({"set"}) :
              \E T \in {ext_set(Allocated(S, a), op.iblock, a.count, a.blkno,
                                (IF in THEN ext.flags ELSE {}) \cup {UNWRITTEN}, fail = "set")} :
                 /\ IF T.ok THEN fallocated(T, a.count)
                    ELSE Update(scoutfs_free_data(T, a.blkno, a.count)) /\ op' = NoOp /\ UNCHANGED arch
                 /\ Failed(fail)
    /\ UNCHANGED <<sdata, kept, waiter>>

\* scoutfs_ioc_move_blocks(): count blocks move from file f to file g.
scoutfs_ioc_move_blocks(f, g, from, count, to, stage) ==
    /\ op = NoOp /\ f # g
    /\ from < file[f].size
    /\ file[f].off = 0
    /\ IF stage THEN arch[g] = "current" ELSE file[g].off = 0
    /\ op' = [kind |-> "move", f |-> f, g |-> g, from |-> from, count |-> Min({count, file[f].size - from}),
              to |-> to, start |-> from, stage |-> stage]
    /\ UNCHANGED <<file, arch, avail, cached, freed, sdata, kept, waiter, derrors>>

\* The error path of the removal from the source.
unmove(F, start, len, stage, flags) ==
    Changed(F, IF stage THEN scoutfs_ext_set(F.ext, start, len, 0, flags)
               ELSE scoutfs_ext_remove(F.ext, start, len), FALSE)

\* What scoutfs_data_move_blocks() moves next: len blocks from start, which are mapped to map,
\* to block "to" of file g, where the extent off is.
moved_part(ext, start) ==
    [start |-> start, map |-> ext.map + (start - ext.start), flags |-> ext.flags, to |-> op.to + (start - op.from),
     len |-> Min({op.from + op.count, ext.start + ext.len}) - start,
     off |-> ext_next(file[op.g].ext, op.to + (start - op.from))]

\* It is inserted, or replaces an offline extent.
move_insert(mv) ==
    IF ~op.stage THEN scoutfs_ext_insert(file[op.g].ext, mv.to, mv.len, mv.map, mv.flags)
    ELSE IF mv.off.len > 0 /\ scoutfs_ext_inside(mv.to, mv.len, mv.off) /\ OFFLINE \in mv.off.flags
    THEN scoutfs_ext_set(file[op.g].ext, mv.to, mv.len, mv.map, mv.flags)
    ELSE EINVAL

move_source(mv, ins, fail) ==
    IF ins.ok /\ fail # "insert"
    THEN Changed(file[op.f], scoutfs_ext_set(file[op.f].ext, mv.start, mv.len, 0, {}), fail = "remove")
    ELSE file[op.f]

move_dest(mv, G, ok, fail) ==
    IF ~ok THEN G
    ELSE IF fail = "none"
    THEN [G EXCEPT !.size = Max({@, mv.to + mv.len - Max({0, mv.start + mv.len - file[op.f].size})})]
    ELSE IF fail = "remove" THEN unmove(G, mv.to, mv.len, op.stage, mv.off.flags)
    ELSE G

\* scoutfs_data_move_blocks() of the next extent.  The data_versions also change on errors.
scoutfs_data_move_blocks ==
    /\ op.kind = "move"
    /\ \E ext \in {ext_next(file[op.f].ext, op.start)} :
         IF ext.len = 0 \/ ext.start >= op.from + op.count
         THEN op' = NoOp /\ UNCHANGED <<file, derrors>>
         ELSE \E mv \in {moved_part(ext, Max({ext.start, op.from}))}, fail \in Fail({"insert", "remove"}) :
              \E ins \in {move_insert(mv)} :
                 /\ file' = [file EXCEPT ![op.g] = move_dest(mv, Changed(@, ins, fail = "insert"), ins.ok, fail),
                                         ![op.f] = move_source(mv, ins, fail)]
                 /\ op' = IF ins.ok /\ fail = "none" THEN [op EXCEPT !.start = mv.start + mv.len] ELSE NoOp
                 /\ Failed(fail)
    /\ arch' = [arch EXCEPT ![op.f] = Newer(@), ![op.g] = IF op.stage THEN @ ELSE Newer(@)]
    /\ UNCHANGED <<avail, cached, freed, sdata, kept, waiter>>

-----------------------------------------------------------------------------
(* Commits. *)

\* scoutfs_dalloc_return_cached()
scoutfs_dalloc_return_cached(av, ca) == IF ca.len = 0 THEN av ELSE free_insert(av, ca.start, ca.len)

\* The transaction commits.  As the next one starts the server moves some or all of the
\* freed extents to its allocator, and fills the mount's allocator when it is low.
fill_avail(av, E, total) ==
    IF total >= FillLo THEN <<av, E>> ELSE scoutfs_alloc_move(av, E, FillTarget - total, NData)

Commit ==
    \E n \in {1, NData}, returned \in {scoutfs_dalloc_return_cached(avail, cached)} :
    \E empty \in {scoutfs_alloc_move(sdata, freed, NData, n)} :
    \E fill \in {fill_avail(returned, empty[1], Cardinality(Blocks(returned)))} :
        /\ kept' = UNION {FileBlocks(file[f]) : f \in Files}
        /\ cached' = NoExt
        /\ avail' = fill[1] /\ sdata' = fill[2] /\ freed' = empty[2]
        /\ UNCHANGED <<file, arch, op, waiter, derrors>>

\* The start of an operation by a task or by the agent.
Operation ==
    /\ dops < DataOps
    /\ dops' = dops + 1
    /\ \E f \in Files :
        \/ \E i \in IBlock : Write(f, i) \/ scoutfs_ioc_stage(f, i)
        \/ \E n \in 0..NBlocks : scoutfs_setattr(f, n)
        \/ \E n \in 1..NBlocks : scoutfs_ioc_setattr_more(f, n)
        \/ \E i, last \in IBlock :
            /\ i <= last
            /\ \/ scoutfs_ioc_release(f, i, last)
               \/ \E keep \in BOOLEAN : scoutfs_fallocate(f, i, last, keep)
        \/ \E g \in Files, from, to \in IBlock, count \in 1..NBlocks, stage \in BOOLEAN :
            /\ from + count <= NBlocks /\ to + count <= NBlocks
            /\ scoutfs_ioc_move_blocks(f, g, from, count, to, stage)

Next ==
    \/ Operation
    \/ /\ UNCHANGED dops
       /\ \/ \E f \in Files : \/ \E i \in IBlock : Read(f, i)
                             \/ scoutfs_data_wait_changed(f) \/ Archive(f) \/ scoutfs_complete_truncate(f)
          \/ WaitDone \/ truncate_extents \/ clear_truncate_flag \/ ReleaseEnd
          \/ fallocate_extents \/ scoutfs_data_move_blocks \/ Commit

\* Blocks aren't staged by moving them to a range with preallocated blocks.
MovesUnmapped ==
    op.kind = "move" /\ op.stage =>
        \A e \in file[op.g].ext : ext_overlap(e, op.to, op.count) => OFFLINE \notin e.flags \/ e.map = 0

Spec == Init /\ [][Next]_dataVars
SpecMoves == Init /\ [][Next /\ MovesUnmapped]_dataVars

-----------------------------------------------------------------------------
(* Properties. *)

\* Every data block is free in one of the allocators, or is mapped by one block of one file,
\* also after errors of any of the steps of an operation.
BlocksOwned ==
    LET free == <<Blocks(avail), IF cached.len = 0 THEN {} ELSE Blocks({cached}), Blocks(freed), Blocks(sdata)>>
        mapped == {<<f, b>> \in Files \X (0..LastBlock) : BlockOf(file[f].ext, b).map # 0}
        used == {BlockOf(file[p[1]].ext, p[2]).map : p \in mapped}
    IN /\ \A i, j \in 1..4 : i # j => free[i] \cap free[j] = {}
       /\ Cardinality(used) = Cardinality(mapped)
       /\ used \cap UNION {free[i] : i \in 1..4} = {}
       /\ used \cup UNION {free[i] : i \in 1..4} = DataStart..(DataStart + NData - 1)

\* Blocks that the last commit maps can't be allocated, so that their data is still there when
\* the transaction doesn't commit.
CommittedKept == kept \cap (Blocks(avail) \cup Blocks({cached}) \cup Blocks(sdata)) = {}

\* A file's counts of online and offline blocks, which decide if tasks check for offline
\* data and if a released file is truncated, are those of its extents.
OnOffExact ==
    \A f \in Files :
        /\ file[f].off = Cardinality(OfflineBlocks(file[f]))
        /\ file[f].on = Cardinality({b \in 0..LastBlock : LET m == BlockOf(file[f].ext, b)
                                                          IN m.map # 0 /\ UNWRITTEN \notin m.flags})

\* A task only waits for a block that is still offline, or has been woken.
WaiterWoken ==
    waiter # NoWaiter => \/ file[waiter.file].changed
                         \/ waiter.iblock \in OfflineBlocks(file[waiter.file])

\* Without errors, a file that isn't being truncated has no written blocks past its size.
NoStaleTail ==
    derrors = 0 =>
        \A f \in Files : file[f].trunc \/ op.kind # "none" \/
            \A b \in file[f].size..LastBlock : LET m == BlockOf(file[f].ext, b) IN m.map = 0 \/ UNWRITTEN \in m.flags

\* Offline data can be staged: the file's data_version is the one that was archived.
OfflineCurrent == \A f \in Files : file[f].off > 0 => arch[f] = "current"

\* scoutfs_ext_set() of an extent that is truncated or moved, "with the magical property that
\* extents with map and flags set to 0 are removed", doesn't remove other extents.
RemovesOnlyRange ==
    \A f \in Files : \A e \in file[f].ext :
        LET R == apply_changes(file[f].ext, scoutfs_ext_set(file[f].ext, e.start, e.len, 0, {}).chg, FALSE)
        IN \A b \in (0..LastBlock) \ (e.start..ext_last(e)) : BlockOf(R, b) = BlockOf(file[f].ext, b)
=============================================================================
