------------------------------ MODULE MCStore ------------------------------
(***************************************************************************)
(* What is stored: directory entries, the extents of files, the cache of   *)
(* the items that both are made of, and the metadata blocks of the device  *)
(* that commits write.  Each behaviour is of one of the models, and the    *)
(* variables of the others are Off.                                        *)
(***************************************************************************)
EXTENDS Integers, TLC

CONSTANTS
    NKeys, Room, MaxItemSeq,
    Files, Archived, NBlocks, NData, DataStart, Prealloc, ContigOnly, LgThresh, FillLo, FillTarget,
    WholeFile, OrderLen, DataOps, DataErrors,
    NsMounts, Names, MaxIno, NsOps, NsFailures, NsErrors,
    NMeta, ListMax, Budget, Reserved, MaxCommits, MaxErrors, MaxFailovers

VARIABLES
    model,
    iseq, trans, writing, lock, pages, unlinked, reader, shrinker, disk, written,
    file, arch, avail, cached, freed, sdata, kept, op, waiter, dops, derrors,
    ents, refs, inode, orphans, lost, dcache, dead, call, rename_lock, nsops, nserrs,
    sup, stable, srv, cusers, task, mount, stack, inos, commits, errors, failovers

Cache == INSTANCE ItemCache
Data == INSTANCE DataExtents
Dirs == INSTANCE Namespace
Meta == INSTANCE MetaAlloc WITH NBlocks <- NMeta

itemVars == <<iseq, trans, writing, lock, pages, unlinked, reader, shrinker, disk, written>>
dataVars == <<file, arch, avail, cached, freed, sdata, kept, op, waiter, dops, derrors>>
nsVars == <<ents, refs, inode, orphans, lost, dcache, dead, call, rename_lock, nsops, nserrs>>
metaVars == <<sup, stable, srv, cusers, task, mount, stack, inos, commits, errors, failovers>>

Off == "off"

CacheOff ==
    /\ iseq = Off /\ trans = Off /\ writing = Off /\ lock = Off /\ pages = Off
    /\ unlinked = Off /\ reader = Off /\ shrinker = Off /\ disk = Off /\ written = Off

DataOff ==
    /\ file = Off /\ arch = Off /\ avail = Off /\ cached = Off /\ freed = Off /\ sdata = Off
    /\ kept = Off /\ op = Off /\ waiter = Off /\ dops = Off /\ derrors = Off

DirsOff ==
    /\ ents = Off /\ refs = Off /\ inode = Off /\ orphans = Off /\ lost = Off /\ dcache = Off
    /\ dead = Off /\ call = Off /\ rename_lock = Off /\ nsops = Off /\ nserrs = Off

MetaOff ==
    /\ sup = Off /\ stable = Off /\ srv = Off /\ cusers = Off /\ task = Off /\ mount = Off
    /\ stack = Off /\ inos = Off /\ commits = Off /\ errors = Off /\ failovers = Off

Init ==
    \/ model = "items" /\ Cache!Init /\ DataOff /\ DirsOff /\ MetaOff
    \/ model = "data" /\ CacheOff /\ Data!Init /\ DirsOff /\ MetaOff
    \/ model = "dirs" /\ CacheOff /\ DataOff /\ Dirs!Init /\ MetaOff
    \/ model = "meta" /\ CacheOff /\ DataOff /\ DirsOff /\ Meta!Init

\* What the code doesn't survive is left out: see the observations of the README.
Next ==
    \/ model = "items" /\ Cache!Next /\ Cache!ShrinksCurrent /\ UNCHANGED <<model, dataVars, nsVars, metaVars>>
    \/ model = "data" /\ Data!Next /\ Data!MovesUnmapped /\ UNCHANGED <<model, itemVars, nsVars, metaVars>>
    \/ model = "dirs" /\ Dirs!Next /\ UNCHANGED <<model, itemVars, dataVars, metaVars>>
    \/ model = "meta" /\ Meta!Next /\ UNCHANGED <<model, itemVars, dataVars, nsVars>>

Spec == Init /\ [][Next]_<<model, itemVars, dataVars, nsVars, metaVars>>

\* Mounts and names are alike.
Symmetry == Permutations(NsMounts) \cup Permutations(Names)

-----------------------------------------------------------------------------
(* Properties. *)

\* Cached items are what was last written, even when a reader that started before a
\* commit inserts its pages after it (read_pages(), item_cache_scan_objects()), in pages
\* that don't overlap (verify_page_rbtree()); and everything that was written is
\* persistent once no item is dirty (scoutfs_item_write_dirty()).
ItemsCurrent == model = "items" => Cache!PagesSane /\ Cache!CacheCurrent /\ Cache!CommitComplete

\* Every data block is free or mapped by one block of a file, also after errors
\* (alloc_block(), scoutfs_data_move_blocks(), scoutfs_ext_set()), and those that the
\* last commit maps can't be allocated (scoutfs_free_data()).
DataBlocksKept == model = "data" => Data!BlocksOwned /\ Data!CommittedKept

\* A file's counts of online and offline blocks are those of its extents
\* (scoutfs_inode_add_onoff()), a task only waits for a block that is still offline or has
\* been woken (scoutfs_data_wait()), and without errors a file that isn't being truncated
\* has no written blocks past its size (scoutfs_complete_truncate()).
FilesExact == model = "data" => Data!OnOffExact /\ Data!WaiterWoken /\ Data!NoStaleTail

\* A directory has one entry with a name, also when mounts race to create or rename to it
\* (validate_dentry()); backref items, link counts and sizes are those of the entries,
\* also after a rename that fails half way (scoutfs_rename_common()); and inodes that
\* have no entries left, and no others, have orphan items.
DirsExact ==
    model = "dirs" => Dirs!NamesUnique /\ Dirs!BackrefsExact /\ Dirs!LinksExact /\ Dirs!OrphansExact

\* A dentry that is valid is what the items have (scoutfs_d_revalidate()).
DentriesCurrent == model = "dirs" => Dirs!DentriesCurrent

\* A response of the server that reports success describes what is on the device, and
\* inode numbers aren't handed out twice (server_apply_commit()).
AppliedIsStable == model = "meta" => Meta!AppliedIsStable

\* No metadata block is leaked or freed twice (alloc.c), a transaction never writes a
\* block that the super block on the device leads to (scoutfs_block_dirty_ref()), and the
\* server allocates no block that an open transaction of a mount may write
\* (server_get_log_trees(), reclaim_open_log_tree()).
MetaBlocksKept == model = "meta" => Meta!BlocksAccounted /\ Meta!StableIntact /\ Meta!MountOwns

\* server_hold_commit() never commits a third time for lack of room, and no transaction
\* runs out of blocks.
HoldsFindRoom == model = "meta" => Meta!HoldsFindRoom

=============================================================================
