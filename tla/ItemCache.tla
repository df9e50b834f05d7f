----------------------------- MODULE ItemCache -----------------------------
(***************************************************************************)
(* The item cache of a mount (item.c): pages that cache ranges of keys,    *)
(* which readers fill from the persistent items without locking the cache, *)
(* operations change under a cluster lock, transactions write, the         *)
(* shrinker drops, and the invalidation of the lock drops.  The keys are   *)
(* those of one cluster lock; other mounts change them while we don't have *)
(* the lock.                                                               *)
(***************************************************************************)
EXTENDS Integers, Sequences, SequencesExt, FiniteSetsExt

CONSTANTS
    NKeys,               \* the keys of the lock, in order
    Room,                \* the items that a page has room for
    MaxItemSeq           \* bound on the sequence number

VARIABLES
    iseq,                \* the server's sequence number
    trans,               \* the sequence number of the open transaction
    writing,             \* the step of the commit of the transaction
    lock,                \* the mode and write_seq of the lock
    pages,               \* cinf->pg_root
    unlinked,            \* dropped pages that per-cpu references would still use
    reader,              \* a read_pages() call
    shrinker,            \* the first reader's seq that the shrinker saw, or 0
    disk,                \* the persistent items
    written              \* what was last written for each key, committed or not

itemVars == <<iseq, trans, writing, lock, pages, unlinked, reader, shrinker, disk, written>>

Keys == 1..NKeys

\* A persistent item, or its deletion, with its seq.
Absent == [seq |-> 0, del |-> TRUE]

\* A cached item.  A page has the items of some of its keys; off counts the item slots
\* that were used, and erased tells if some of them were freed.
NewPage(start, end) == [start |-> start, end |-> end, items |-> << >>, max_seq |-> 0, off |-> 0, erased |-> FALSE]
PageKeys(pg) == pg.start..pg.end
Cached == UNION {PageKeys(pg) : pg \in pages}
PageOf(k) == CHOOSE pg \in pages : k \in PageKeys(pg)
ItemKeys(pg) == DOMAIN pg.items
DirtyKeys(pg) == {k \in ItemKeys(pg) : pg.items[k].dirty}
Found(pg, k) == k \in ItemKeys(pg) /\ ~pg.items[k].del

NoReader == [pc |-> "idle"]

Init ==
    /\ iseq = 1 /\ trans = 1
    /\ writing = "no"
    /\ lock = [mode |-> "null", write_seq |-> 0]
    /\ pages = {} /\ unlinked = {}
    /\ reader = NoReader
    /\ shrinker = 0
    /\ \E item \in {Absent, [seq |-> 1, del |-> FALSE]} : disk = [k \in Keys |-> item]
    /\ written = disk

-----------------------------------------------------------------------------
(* Items in pages. *)

\* page_has_room(): an empty page starts again.
Fresh(pg) == IF ItemKeys(pg) = {} THEN [pg EXCEPT !.off = 0] ELSE pg
page_has_room(pg) == Fresh(pg).off < Room

\* alloc_item() and its insertion.
alloc_item(pg, k, item) ==
    LET p == Fresh(pg) IN
    [p EXCEPT !.items = [x \in ItemKeys(p) \cup {k} |-> IF x = k THEN item ELSE @[x]],
              !.off = @ + 1,
              !.erased = @ \/ k \in ItemKeys(p),
              !.max_seq = Max({@, item.seq})]

erase_item(pg, k) ==
    [pg EXCEPT !.items = [x \in ItemKeys(pg) \ {k} |-> @[x]], !.erased = TRUE]

\* compact_page_items() packs the items if erasing has left enough room.
compact_page_items(pg) ==
    IF ~pg.erased THEN pg ELSE [pg EXCEPT !.off = Cardinality(ItemKeys(pg)), !.erased = FALSE]

\* move_page_items() to a page with keys start to end.
move_page_items(pg, start, end) ==
    LET ks == ItemKeys(pg) \cap start..end IN
    [NewPage(start, end) EXCEPT !.items = [k \in ks |-> pg.items[k]],
                                !.off = Cardinality(ks),
                                !.max_seq = pg.max_seq]

\* set_split_keys() of a page of equally large items: the middle one is the right
\* page's first.
SplitKey(pg) ==
    LET ks == SetToSortSeq(ItemKeys(pg), <) IN ks[Len(ks) \div 2 + 1]

\* The two pages that a page is split into.
Halves(pg) ==
    LET mid == SplitKey(pg) IN {move_page_items(pg, pg.start, mid - 1), move_page_items(pg, mid, pg.end)}

\* The pages that try_split_page() leaves for page pg that has no room for key k.  It
\* adds an empty page if k is after the last item.
try_split_page(pg, k) ==
    LET p == compact_page_items(pg) IN
    IF page_has_room(p) THEN {p}
    ELSE IF k > Max(ItemKeys(p))
    THEN {[p EXCEPT !.end = k - 1], NewPage(k, p.end)}
    ELSE Halves(p)

\* invalidate_pcpu_page(): a page that is dropped has no keys, so that per-cpu references
\* to it aren't used.
invalidate_pcpu_page(pg) == {}

-----------------------------------------------------------------------------
(* Reading. *)

\* read_pages() starts with the sequence number of the open transaction ("set active
\* reader seq before reading persistent roots").
ReadStart(k) ==
    /\ lock.mode \in {"read", "write"} /\ reader.pc = "idle" /\ k \notin Cached
    /\ reader' = [pc |-> "read", key |-> k, seq |-> trans]
    /\ UNCHANGED <<iseq, trans, writing, lock, pages, unlinked, shrinker, disk, written>>

\* scoutfs_forest_read_items(): the items of the blocks around the key.
ReadItems ==
    /\ reader.pc = "read"
    /\ \E start \in 1..reader.key, end \in reader.key..NKeys :
          reader' = [pc |-> "insert", seq |-> reader.seq, start |-> start, end |-> end,
                     items |-> [k \in start..end |-> disk[k]]]
    /\ UNCHANGED <<iseq, trans, writing, lock, pages, unlinked, shrinker, disk, written>>

\* read_page_item() in private pages, that are split when they are full.
read_page_item(pgs, k, found) ==
    LET pg == CHOOSE p \in pgs : k \in PageKeys(p)
        item == [seq |-> found.seq, del |-> found.del, dirty |-> FALSE, pers |-> TRUE]
        ps == IF page_has_room(pg) THEN {pg} ELSE Halves(pg)
        to == CHOOSE p \in ps : k \in PageKeys(p)
    IN IF found = Absent THEN pgs ELSE (pgs \ {pg}) \cup (ps \ {to}) \cup {alloc_item(to, k, item)}

\* The pages of the items that were read, without deletion items.
ReadPages ==
    LET ks == [i \in 1..(reader.end - reader.start + 1) |-> reader.start + i - 1]
        pgs == FoldLeft(LAMBDA ps, k : read_page_item(ps, k, reader.items[k]), {NewPage(reader.start, reader.end)}, ks)
        Del(pg) == {k \in ItemKeys(pg) : pg.items[k].del}
    IN {FoldSet(LAMBDA k, p : erase_item(p, k), pg, Del(pg)) : pg \in pgs}

\* trim_page_intersection() with every cached page: the parts of pg that aren't cached.
Uncached(pg) ==
    LET runs == {<<s, e>> \in PageKeys(pg) \X PageKeys(pg) :
                    /\ s <= e /\ s..e \cap Cached = {}
                    /\ s = pg.start \/ (s - 1) \in Cached
                    /\ e = pg.end \/ (e + 1) \in Cached}
    IN {move_page_items(pg, r[1], r[2]) : r \in runs}

ReadInserted == pages \cup UNION {Uncached(pg) : pg \in ReadPages}

\* The end of read_pages(), under the cache's lock.
ReadInsert ==
    /\ reader.pc = "insert"
    /\ pages' = ReadInserted
    /\ reader' = NoReader
    /\ UNCHANGED <<iseq, trans, writing, lock, unlinked, shrinker, disk, written>>

\* cache_empty_page(): with a write only lock nothing is read.
cache_empty_page(k) ==
    /\ lock.mode = "write_only" /\ writing = "no" /\ k \notin Cached
    /\ LET start == Max({1} \cup {x + 1 : x \in {y \in Cached : y < k}})
           end == Min({NKeys} \cup {x - 1 : x \in {y \in Cached : y > k}})
       IN pages' = pages \cup {NewPage(start, end)}
    /\ UNCHANGED <<iseq, trans, writing, lock, unlinked, reader, shrinker, disk, written>>

-----------------------------------------------------------------------------
(* Operations on items, by tasks that hold the transaction. *)

\* item_seq()
item_seq == Max({trans, lock.write_seq})

\* get_cached_page() with room for an item: the page that is found in the tree or by a
\* per-cpu reference, and the pages after it was split.
Usable(k) == {pg \in pages \cup unlinked : k \in PageKeys(pg)}
WithRoom(pg, k) ==
    LET ps == IF page_has_room(pg) THEN {pg} ELSE try_split_page(pg, k)
        to == CHOOSE p \in ps : k \in PageKeys(p)
        qs == IF page_has_room(to) THEN {to} ELSE try_split_page(to, k)
    IN (ps \ {to}) \cup qs

\* The pages if page pg is split for key k and its new page is changed by Op.
Changed(pg, k, Op(_)) ==
    LET ps == WithRoom(pg, k)
        to == CHOOSE p \in ps : k \in PageKeys(p)
    IN (pages \ {pg}) \cup (ps \ {to}) \cup {Op(to)}

\* A task splits a page and hasn't inserted its item yet.
TrySplitPage(k) ==
    /\ lock.mode \in {"write", "write_only"} /\ writing = "no"
    /\ \E pg \in pages : /\ k \in PageKeys(pg) /\ ~page_has_room(pg)
                         /\ pages' = (pages \ {pg}) \cup try_split_page(pg, k)
    /\ UNCHANGED <<iseq, trans, writing, lock, unlinked, reader, shrinker, disk, written>>

\* item_create(): what it replaces tells if the item is persistent.
item_create(k, force) ==
    /\ \E pg \in Usable(k) :
          /\ force \/ ~Found(pg, k)
          /\ LET Op(p) == alloc_item(p, k, [seq |-> item_seq, del |-> FALSE, dirty |-> TRUE,
                                            pers |-> force \/ (k \in ItemKeys(p) /\ p.items[k].pers)])
             IN pages' = Changed(pg, k, Op)
    /\ written' = [written EXCEPT ![k] = [seq |-> item_seq, del |-> FALSE]]

\* scoutfs_item_update() with a value that is larger, and scoutfs_item_dirty() or an
\* update with one that isn't.
item_update(k, larger) ==
    /\ \E pg \in Usable(k) :
          /\ Found(pg, k)
          /\ LET new == [pg.items[k] EXCEPT !.seq = item_seq, !.dirty = TRUE]
                 Op(p) == IF larger THEN alloc_item(p, k, new)
                          ELSE [p EXCEPT !.items[k] = new, !.max_seq = Max({@, item_seq})]
             IN pages' = IF larger THEN Changed(pg, k, Op) ELSE (pages \ {pg}) \cup {Op(pg)}
    /\ written' = [written EXCEPT ![k] = [seq |-> item_seq, del |-> FALSE]]

\* item_delete(): an item that isn't persistent is forgotten, and a deletion item is
\* written for one that is.
item_delete(k, force) ==
    /\ \E pg \in Usable(k) :
          /\ force \/ Found(pg, k)
          /\ LET del == [seq |-> item_seq, del |-> TRUE, dirty |-> TRUE, pers |-> TRUE]
                 Op(p) == IF k \notin ItemKeys(p) THEN alloc_item(p, k, del)
                          ELSE IF ~force /\ ~p.items[k].pers THEN erase_item(p, k)
                          ELSE [p EXCEPT !.items[k] = del, !.max_seq = Max({@, item_seq})]
             IN pages' = IF force THEN Changed(pg, k, Op) ELSE (pages \ {pg}) \cup {Op(pg)}
    /\ written' = [written EXCEPT ![k] = [seq |-> item_seq, del |-> TRUE]]

Operation(k) ==
    /\ writing = "no"
    /\ \/ lock.mode = "write" /\ (item_create(k, FALSE) \/ (\E b \in BOOLEAN : item_update(k, b)) \/ item_delete(k, FALSE))
       \/ lock.mode = "write_only" /\ (item_create(k, TRUE) \/ item_delete(k, TRUE))
    /\ UNCHANGED <<iseq, trans, writing, lock, unlinked, reader, shrinker, disk>>

-----------------------------------------------------------------------------
(* The commit of a transaction (scoutfs_trans_write_func()). *)

\* scoutfs_item_write_dirty() and the commit of the log tree that it writes to.
WriteDirty ==
    /\ writing = "no" /\ iseq < MaxItemSeq
    /\ \E pg \in pages : DirtyKeys(pg) # {}
    /\ disk' = [k \in Keys |->
          IF \E pg \in pages : k \in DirtyKeys(pg)
          THEN LET item == PageOf(k).items[k] IN [seq |-> item.seq, del |-> item.del]
          ELSE disk[k]]
    /\ writing' = "done"
    /\ UNCHANGED <<iseq, trans, lock, pages, unlinked, reader, shrinker, written>>

\* scoutfs_item_write_done() of a page: deletion items are freed.
CleanPage(pg) ==
    LET clean == [pg EXCEPT !.items = [k \in ItemKeys(pg) |->
                                          IF @[k].dirty THEN [@[k] EXCEPT !.dirty = FALSE, !.pers = TRUE] ELSE @[k]]]
    IN FoldSet(LAMBDA k, p : erase_item(p, k), clean, {k \in DirtyKeys(pg) : pg.items[k].del})

WriteDone ==
    /\ writing = "done"
    /\ pages' = {CleanPage(pg) : pg \in pages}
    /\ writing' = "get"
    /\ UNCHANGED <<iseq, trans, lock, unlinked, reader, shrinker, disk, written>>

\* scoutfs_trans_get_log_trees() opens the next transaction.
NextTrans ==
    /\ writing = "get"
    /\ iseq' = iseq + 1 /\ trans' = iseq + 1
    /\ writing' = "no"
    /\ UNCHANGED <<lock, pages, unlinked, reader, shrinker, disk, written>>

-----------------------------------------------------------------------------
(* Dropping pages. *)

\* first_active_reader_seq(), where more than any seq stands for no reader.
first_active_reader_seq == IF reader.pc = "idle" THEN MaxItemSeq + 1 ELSE reader.seq

\* item_cache_scan_objects() looks at the readers, and later drops a page.
ShrinkStart ==
    /\ shrinker = 0 /\ pages # {}
    /\ shrinker' = first_active_reader_seq
    /\ UNCHANGED <<iseq, trans, writing, lock, pages, unlinked, reader, disk, written>>

\* Seeded bug: the readers aren't looked at.
Shrinkable_any(pg, first) == DirtyKeys(pg) = {}

\* A page that isn't dirty and whose items all readers can see.
Shrinkable(pg, first) == first > pg.max_seq /\ DirtyKeys(pg) = {}

ShrinkPage ==
    /\ shrinker # 0
    /\ \/ \E pg \in pages : /\ Shrinkable(pg, shrinker)
                            /\ pages' = pages \ {pg}
                            /\ unlinked' = unlinked \cup invalidate_pcpu_page(pg)
       \/ UNCHANGED <<pages, unlinked>>
    /\ shrinker' = 0
    /\ UNCHANGED <<iseq, trans, writing, lock, reader, disk, written>>

\* The server grants the lock with a new write_seq.  Nothing of its range is cached
\* (scoutfs_item_range_cached()).
LockGrant(mode) ==
    /\ lock.mode = "null" /\ iseq < MaxItemSeq
    /\ lock' = [mode |-> mode, write_seq |-> iseq + 1]
    /\ iseq' = iseq + 1
    /\ UNCHANGED <<trans, writing, pages, unlinked, reader, shrinker, disk, written>>

\* The lock is invalidated when nobody uses it, its dirty items are committed and
\* scoutfs_item_invalidate() has dropped its pages.
scoutfs_item_invalidate ==
    /\ lock.mode # "null" /\ reader.pc = "idle"
    /\ writing = "no" /\ \A pg \in pages : DirtyKeys(pg) = {}
    /\ lock' = [mode |-> "null", write_seq |-> 0]
    /\ pages' = {}
    /\ unlinked' = unlinked \cup UNION {invalidate_pcpu_page(pg) : pg \in pages}
    /\ UNCHANGED <<iseq, trans, writing, reader, shrinker, disk, written>>

\* Another mount has the lock and writes an item.
OthersWrite(k) ==
    /\ lock.mode = "null" /\ iseq < MaxItemSeq
    /\ iseq' = iseq + 1
    /\ \E del \in BOOLEAN : disk' = [disk EXCEPT ![k] = [seq |-> iseq + 1, del |-> del]]
    /\ written' = disk'
    /\ UNCHANGED <<trans, writing, lock, pages, unlinked, reader, shrinker>>

Next ==
    \/ \E k \in Keys : ReadStart(k) \/ cache_empty_page(k) \/ TrySplitPage(k) \/ Operation(k) \/ OthersWrite(k)
    \/ ReadItems \/ ReadInsert
    \/ WriteDirty \/ WriteDone \/ NextTrans
    \/ ShrinkStart \/ ShrinkPage
    \/ (\E mode \in {"read", "write", "write_only"} : LockGrant(mode)) \/ scoutfs_item_invalidate

Spec == Init /\ [][Next]_itemVars

\* The shrinker isn't preempted between its looks at the readers and at the pages, and
\* doesn't drop a page that was split off and never used.
ShrinksCurrent ==
    shrinker # 0 => shrinker' = 0 /\ \A pg \in pages \ pages' : pg.max_seq > 0

-----------------------------------------------------------------------------
(* Properties. *)

\* verify_page_rbtree(): pages don't overlap and have the items of their keys, and no
\* more than there is room for.
PagesSane ==
    /\ \A p, q \in pages : p # q => PageKeys(p) \cap PageKeys(q) = {}
    /\ \A pg \in pages : pg.start <= pg.end /\ ItemKeys(pg) \subseteq PageKeys(pg) /\ pg.off <= Room

\* What is cached under a lock that can be read is what was last written, even when a
\* reader that started before a commit inserts its pages after it ("The old stale items
\* will be inserted in their place, effectively corrupting by having the dirty items
\* disappear").
CacheCurrent ==
    lock.mode \in {"read", "write"} =>
        \A pg \in pages \cup unlinked : \A k \in PageKeys(pg) :
            IF written[k].del THEN ~Found(pg, k) ELSE Found(pg, k) /\ pg.items[k].seq = written[k].seq

\* Everything that was written is persistent once no item is dirty: items aren't
\* forgotten when they are deleted, replaced or moved to other pages.
CommitComplete ==
    (\A pg \in pages : DirtyKeys(pg) = {}) => \A k \in Keys : disk[k].del = written[k].del

=============================================================================
