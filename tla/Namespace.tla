----------------------------- MODULE Namespace -----------------------------
(***************************************************************************)
(* Directories and their entries (dir.c), changed by the tasks of several  *)
(* mounts.                                                                 *)
(*                                                                         *)
(* The vfs looks up dentries, locks the directories in its mount and       *)
(* checks the arguments of an operation before it calls the filesystem,    *)
(* which only then locks the inodes in the cluster.  Other mounts can have *)
(* changed the directories in between.  A dentry records the refresh_gen   *)
(* of the lock of its directory, and is valid while the mount has that     *)
(* lock.  Operations validate their dentries under the locks, and rename   *)
(* also checks the ancestors of its directories.                           *)
(*                                                                         *)
(* An operation runs in one transaction under write locks of all of its    *)
(* inodes, so that it is a step here.  An entry has a dirent and a readdir *)
(* item in the directory and a backref item in the inode.  The dirent and  *)
(* the readdir item are changed together and are one here.                 *)
(***************************************************************************)
EXTENDS Integers, Sequences, FiniteSetsExt

CONSTANTS
    NsMounts,       \* the mounts
    Names,          \* names of entries
    MaxIno,         \* inode numbers are allocated up to this one
    NsOps,          \* bounds operations
    NsFailures,     \* the item operations that can fail
    NsErrors        \* bounds failing item operations

VARIABLES
    ents,           \* dirent items: directory, name, position and inode
    refs,           \* link backref items: inode, directory and position
    inode,          \* inode items, by number
    orphans,        \* orphan items
    lost,           \* inodes whose creation failed after their item was created
    dcache,         \* the dentries that each mount has cached
    dead,           \* directories that the mount itself has removed
    call,           \* the operation that the task of each mount is in
    rename_lock,    \* the mount that has the rename lock
    nsops,
    nserrs

nsVars == <<ents, refs, inode, orphans, lost, dcache, dead, call, rename_lock, nsops, nserrs>>

ROOT == 1
NoMount == "none"
NoCall == [op |-> "none"]
NoEnt == [dir |-> 0, name |-> "", pos |-> 0, ino |-> 0]

Inode(type) == [type |-> type, nlink |-> 1, size |-> 0, next_pos |-> 1]

Init ==
    /\ ents = {} /\ refs = {}
    /\ inode = <<[Inode("dir") EXCEPT !.nlink = 2]>>
    /\ orphans = {} /\ lost = {}
    /\ dcache = [m \in NsMounts |-> {}]
    /\ dead = [m \in NsMounts |-> {}]
    /\ call = [m \in NsMounts |-> NoCall]
    /\ rename_lock = NoMount
    /\ nsops = 0 /\ nserrs = 0

isdir(ino) == ino # 0 /\ inode[ino].type = "dir"

-----------------------------------------------------------------------------
(* Dentries. *)

\* The first entry with the name.
lookup_dirent(E, dir, name) ==
    LET found == {e \in E : e.dir = dir /\ e.name = name}
    IN IF found = {} THEN NoEnt ELSE CHOOSE e \in found : \A x \in found : e.pos <= x.pos

\* A dentry that d_revalidate finds to be valid, or that is looked up again.
Dentry(m, dir, name) ==
    LET has == {d \in dcache[m] : d.dir = dir /\ d.name = name /\ d.valid}
    IN IF has # {} THEN CHOOSE d \in has : TRUE
       ELSE [dir |-> dir, name |-> name, ino |-> lookup_dirent(ents, dir, name).ino, valid |-> TRUE]

NoDentry == [dir |-> 0, name |-> "", ino |-> 0, valid |-> TRUE]

\* validate_dentry() for an operation that has the lock of the directory.
validate_dentry(d) == d.valid \/ d.ino = lookup_dirent(ents, d.dir, d.name).ino

\* Dentries in directories that another mount has locked.
Invalidate(d, locked) == IF d.dir \in locked THEN [d EXCEPT !.valid = FALSE] ELSE d
InvalidateCall(c, locked) ==
    IF c = NoCall THEN c ELSE [c EXCEPT !.old = Invalidate(@, locked), !.new = Invalidate(@, locked)]

-----------------------------------------------------------------------------
(* Items, in records with the state of a transaction. *)

Items == [ents |-> ents, refs |-> refs, inode |-> inode, orphans |-> orphans, ok |-> TRUE]

Err(S) == [S EXCEPT !.ok = FALSE]

add_entry_items(S, e, fail) ==
    IF ~S.ok THEN S
    ELSE IF fail THEN Err(S)
    ELSE [S EXCEPT !.ents = @ \cup {e}, !.refs = @ \cup {[ino |-> e.ino, dir |-> e.dir, pos |-> e.pos]}]

\* All items are dirtied before they are deleted.
del_entry_items(S, e, fail) ==
    LET r == [ino |-> e.ino, dir |-> e.dir, pos |-> e.pos]
    IN IF ~S.ok THEN S
       ELSE IF fail \/ e \notin S.ents \/ r \notin S.refs THEN Err(S)
       ELSE [S EXCEPT !.ents = @ \ {e}, !.refs = @ \ {r}]

should_orphan(ino) == ino # 0 /\ inode[ino].nlink = (IF isdir(ino) THEN 2 ELSE 1)

scoutfs_inode_orphan_create(S, ino, fail) ==
    IF ~S.ok THEN S ELSE IF fail THEN Err(S) ELSE [S EXCEPT !.orphans = @ \cup {ino}]

\* The nlink and size of directories and inodes.
add_link(S, dir, ino) ==
    [S EXCEPT !.inode[dir].size = @ + 1, !.inode[dir].nlink = IF isdir(ino) THEN @ + 1 ELSE @]
drop_link(S, dir, ino) ==
    [S EXCEPT !.inode[dir].size = @ - 1, !.inode[dir].nlink = IF isdir(ino) THEN @ - 1 ELSE @]
drop_nlink(S, ino) == [S EXCEPT !.inode[ino].nlink = IF isdir(ino) THEN @ - 2 ELSE @ - 1]
next_pos(S, dir) == [S EXCEPT !.inode[dir].next_pos = @ + 1]

-----------------------------------------------------------------------------
(* Calls of the vfs. *)

Dirs(m) == {d \in DOMAIN inode : isdir(d) /\ inode[d].nlink > 0 /\ d \notin dead[m]}

\* The directories from one to the root, by the first backref of each.
RECURSIVE Path(_, _)
Path(ino, n) ==
    LET up == {r \in refs : r.ino = ino}
    IN IF ino = ROOT THEN <<ROOT>>
       ELSE IF up = {} \/ n = 0 THEN << >>
       ELSE LET r == CHOOSE x \in up : \A y \in up : x.dir < y.dir \/ (x.dir = y.dir /\ x.pos <= y.pos)
                rest == Path(r.dir, n - 1)
            IN IF rest = << >> THEN << >> ELSE <<ino>> \o rest

Above(ino) == LET path == Path(ino, MaxIno) IN {path[i] : i \in DOMAIN path}

Call(m, op, type, old, new) ==
    /\ nsops' = nsops + 1
    /\ call' = [call EXCEPT ![m] = [op |-> op, type |-> type, old |-> old, new |-> new,
                                    checked |-> op # "rename" \/ old.dir = new.dir]]
    /\ UNCHANGED <<ents, refs, inode, orphans, lost, dcache, dead, rename_lock, nserrs>>

CallMknod(m, dir, name, type) ==
    LET d == Dentry(m, dir, name)
    IN Len(inode) < MaxIno /\ d.ino = 0 /\ Call(m, "mknod", type, NoDentry, d)

CallTmpfile(m, dir) == Len(inode) < MaxIno /\ Call(m, "tmpfile", "file", NoDentry, [NoDentry EXCEPT !.dir = dir])

CallLink(m, dir1, name1, dir2, name2) ==
    LET old == Dentry(m, dir1, name1)
        new == Dentry(m, dir2, name2)
    IN old.ino # 0 /\ ~isdir(old.ino) /\ new.ino = 0 /\ Call(m, "link", "file", old, new)

CallUnlink(m, dir, name) ==
    LET d == Dentry(m, dir, name)
    IN d.ino # 0 /\ Call(m, "unlink", "file", d, NoDentry)

\* The vfs checks the types, and the ancestors in its dcache.
CallRename(m, dir1, name1, dir2, name2) ==
    LET old == Dentry(m, dir1, name1)
        new == Dentry(m, dir2, name2)
    IN /\ old.ino # 0 /\ <<dir1, name1>> # <<dir2, name2>>
       /\ new.ino # 0 => new.ino # old.ino /\ isdir(new.ino) = isdir(old.ino)
       /\ old.ino \notin Above(dir2) /\ (new.ino # 0 => new.ino \notin Above(dir1))
       /\ Call(m, "rename", "file", old, new)

-----------------------------------------------------------------------------
(* Operations. *)

\* The operation of a mount has locked inodes and ends with the items in S and with dentries
\* and removed directories in the mount's caches.
Done(m, locked, S, dentries, removed, fail) ==
    /\ ents' = S.ents /\ refs' = S.refs /\ inode' = S.inode /\ orphans' = S.orphans
    /\ dcache' = [n \in NsMounts |-> IF n = m THEN dentries ELSE {Invalidate(d, locked) : d \in dcache[n]}]
    /\ call' = [n \in NsMounts |-> IF n = m THEN NoCall ELSE InvalidateCall(call[n], locked)]
    /\ dead' = [dead EXCEPT ![m] = @ \cup removed]
    /\ rename_lock' = IF rename_lock = m THEN NoMount ELSE rename_lock
    /\ nserrs' = IF fail = "none" THEN nserrs ELSE nserrs + 1
    /\ UNCHANGED nsops

NsFail(fails) == {"none"} \cup (IF nserrs < NsErrors THEN fails \cap NsFailures ELSE {})

Ready(m, op) == call[m].op = op

\* scoutfs_mknod() and scoutfs_symlink(): the inode item isn't deleted after errors.
scoutfs_mknod(m) ==
    /\ Ready(m, "mknod")
    /\ LET c == call[m]
           d == c.new
           ino == Len(inode) + 1
           N == [Items EXCEPT !.inode = Append(@, Inode(c.type))]
           ent == [dir |-> d.dir, name |-> d.name, pos |-> inode[d.dir].next_pos, ino |-> ino]
       IN \E fail \in NsFail({"add"}) :
          LET A == add_entry_items(N, ent, fail = "add")
              S == [A EXCEPT !.inode[d.dir].size = @ + 1, !.inode[d.dir].next_pos = @ + 1,
                             !.inode[d.dir].nlink = IF c.type = "dir" THEN @ + 1 ELSE @,
                             !.inode[ino].nlink = IF c.type = "dir" THEN 2 ELSE 1]
              ok == validate_dentry(d) /\ A.ok
          IN /\ IF ok THEN Done(m, {d.dir}, S, {[d EXCEPT !.ino = ino, !.valid = TRUE]}, {}, fail)
                ELSE Done(m, {d.dir}, N, {d}, {}, fail)
             /\ lost' = IF ok THEN lost ELSE lost \cup {ino}

scoutfs_tmpfile(m) ==
    /\ Ready(m, "tmpfile")
    /\ LET ino == Len(inode) + 1
           N == [Items EXCEPT !.inode = Append(@, Inode("file"))]
       IN \E fail \in NsFail({"orphan"}) :
          LET A == scoutfs_inode_orphan_create(N, ino, fail = "orphan")
          IN /\ Done(m, {call[m].new.dir}, IF A.ok THEN [A EXCEPT !.inode[ino].nlink = 0] ELSE N, {}, {}, fail)
             /\ lost' = IF A.ok THEN lost ELSE lost \cup {ino}

\* scoutfs_link(): linking an inode again deletes its orphan item.
scoutfs_link(m) ==
    /\ Ready(m, "link")
    /\ LET d == call[m].new
           ino == call[m].old.ino
           ent == [dir |-> d.dir, name |-> d.name, pos |-> inode[d.dir].next_pos, ino |-> ino]
       IN \E fail \in NsFail({"add"}) :
          LET S == add_entry_items([Items EXCEPT !.orphans = @ \ {ino}], ent, fail = "add")
          IN IF validate_dentry(d) /\ S.ok
             THEN Done(m, {d.dir, ino}, [next_pos(add_link(S, d.dir, ino), d.dir) EXCEPT !.inode[ino].nlink = @ + 1],
                       {[d EXCEPT !.ino = ino, !.valid = TRUE]}, {}, fail)
             ELSE Done(m, {d.dir, ino}, Items, {d}, {}, fail)
    /\ UNCHANGED lost

\* scoutfs_unlink().  When the entry can't be deleted then the error is replaced by the result
\* of deleting the orphan item, and the vfs can find that it was unlinked.
scoutfs_unlink(m) ==
    /\ Ready(m, "unlink")
    /\ LET d == call[m].old
           orphan == should_orphan(d.ino)
           removed == IF isdir(d.ino) THEN {d.ino} ELSE {}
           deleted == {[d EXCEPT !.ino = 0]}
       IN \E fail \in NsFail({"orphan", "del"}) :
          LET O == IF orphan THEN scoutfs_inode_orphan_create(Items, d.ino, fail = "orphan") ELSE Items
              S == del_entry_items(O, lookup_dirent(ents, d.dir, d.name), fail = "del")
          IN IF ~validate_dentry(d) \/ (isdir(d.ino) /\ inode[d.ino].size # 0) \/ ~O.ok
             THEN Done(m, {d.dir, d.ino}, Items, {d}, {}, fail)
             ELSE IF ~S.ok
             THEN Done(m, {d.dir, d.ino}, Items, IF orphan THEN deleted ELSE {d}, IF orphan THEN removed ELSE {}, fail)
             ELSE Done(m, {d.dir, d.ino}, drop_nlink(drop_link(S, d.dir, d.ino), d.ino),
                       {[d EXCEPT !.ino = 0, !.valid = TRUE]}, removed, fail)
    /\ UNCHANGED lost

-----------------------------------------------------------------------------
(* Rename. *)

\* A rename between directories first locks out all others.
scoutfs_lock_rename(m) ==
    /\ Ready(m, "rename") /\ ~call[m].checked
    /\ rename_lock = NoMount
    /\ rename_lock' = m
    /\ UNCHANGED <<ents, refs, inode, orphans, lost, dcache, dead, call, nsops, nserrs>>

\* item_d_ancestor(), with the directories that lead to p2 in the order in which they are
\* listed, which is from the root down.  Without a path it fails.
item_d_ancestor(p1, p2) ==
    LET path == Path(p2, MaxIno)
        dirs == [i \in 1..(Len(path) - 1) |-> path[Len(path) + 1 - i]]
        found == {i \in DOMAIN dirs : dirs[i] = p1}
    IN IF path = << >> THEN [ok |-> FALSE, p |-> 0]
       ELSE [ok |-> TRUE, p |-> IF found = {} THEN 0 ELSE IF Min(found) = 1 THEN p2 ELSE dirs[Min(found) - 1]]

verify_ancestors(p1, p2, old_ino, new_ino) ==
    LET down == item_d_ancestor(p1, p2)
        res == IF down.ok /\ down.p = 0 THEN item_d_ancestor(p2, p1) ELSE down
    IN res.ok /\ ~(res.p # 0 /\ res.p \in {old_ino, new_ino})

RenameVerify(m) ==
    /\ Ready(m, "rename") /\ ~call[m].checked
    /\ rename_lock = m
    /\ LET c == call[m]
           ok == verify_ancestors(c.old.dir, c.new.dir, c.old.ino, c.new.ino)
       IN /\ call' = [call EXCEPT ![m] = IF ok THEN [c EXCEPT !.checked = TRUE] ELSE NoCall]
          /\ rename_lock' = IF ok THEN m ELSE NoMount
    /\ UNCHANGED <<ents, refs, inode, orphans, lost, dcache, dead, nsops, nserrs>>

\* Seeded bug: the replaced entry isn't restored.
rename_undo_old(S, old_ent, new_ent, ent) ==
    [S EXCEPT !.ents = (@ \ {ent}) \cup {old_ent}]

\* The error path after some entries have been deleted and created.
rename_undo(S, old_ent, new_ent, ent) ==
    LET A == IF old_ent \in S.ents THEN [S EXCEPT !.ok = TRUE] ELSE add_entry_items([S EXCEPT !.ok = TRUE], old_ent, FALSE)
        B == IF ent \in A.ents THEN del_entry_items(A, ent, FALSE) ELSE A
    IN IF new_ent = NoEnt \/ new_ent \in B.ents THEN B ELSE add_entry_items(B, new_ent, FALSE)

\* Seeded bug: the directory that the entry moves from isn't locked for writing.
rename_locks_new(c) == {c.new.dir, c.old.ino, c.new.ino}

rename_locks(c) == {c.old.dir, c.new.dir, c.old.ino, c.new.ino}

\* scoutfs_rename_common() once it has locked the inodes.
scoutfs_rename_common(m) ==
    /\ Ready(m, "rename") /\ call[m].checked
    /\ LET c == call[m]
           old_ent == lookup_dirent(ents, c.old.dir, c.old.name)
           new_ent == IF c.new.ino = 0 THEN NoEnt ELSE lookup_dirent(ents, c.new.dir, c.new.name)
           ent == [dir |-> c.new.dir, name |-> c.new.name, pos |-> inode[c.new.dir].next_pos, ino |-> c.old.ino]
           valid == validate_dentry(c.old) /\ validate_dentry(c.new)
           empty == ~isdir(c.new.ino) \/ inode[c.new.ino].size = 0
       IN \E fail \in NsFail({"del_new", "add", "del_old", "orphan"}), noreplace \in BOOLEAN :
          LET D == IF c.new.ino = 0 THEN Items ELSE del_entry_items(Items, new_ent, fail = "del_new")
              A == add_entry_items(D, ent, fail = "add")
              R == del_entry_items(A, old_ent, fail = "del_old")
              S == IF should_orphan(c.new.ino) THEN scoutfs_inode_orphan_create(R, c.new.ino, fail = "orphan") ELSE R
              L == add_link(drop_link(next_pos(S, c.new.dir), c.old.dir, c.old.ino), c.new.dir, c.old.ino)
              N == IF c.new.ino = 0 THEN L ELSE drop_nlink(drop_link(L, c.new.dir, c.new.ino), c.new.ino)
          IN IF ~valid \/ ~empty \/ (noreplace /\ c.new.ino # 0)
             THEN Done(m, rename_locks(c), Items, {c.old, c.new}, {}, fail)
             ELSE IF ~S.ok
             THEN Done(m, rename_locks(c), rename_undo(S, old_ent, new_ent, ent), {c.old, c.new}, {}, fail)
             ELSE Done(m, rename_locks(c), N, {[c.new EXCEPT !.ino = c.old.ino, !.valid = TRUE]},
                       IF isdir(c.new.ino) THEN {c.new.ino} ELSE {}, fail)
    /\ UNCHANGED lost

-----------------------------------------------------------------------------
(* Specification. *)

Calls(m) ==
    /\ call[m] = NoCall /\ nsops < NsOps
    /\ \E dir \in Dirs(m) :
        \/ CallTmpfile(m, dir)
        \/ \E name \in Names :
            \/ CallMknod(m, dir, name, "file") \/ CallMknod(m, dir, name, "dir")
            \/ CallUnlink(m, dir, name)
            \/ \E dir2 \in Dirs(m), name2 \in Names :
                CallLink(m, dir, name, dir2, name2) \/ CallRename(m, dir, name, dir2, name2)

Next ==
    \E m \in NsMounts :
        \/ Calls(m)
        \/ scoutfs_mknod(m) \/ scoutfs_tmpfile(m) \/ scoutfs_link(m) \/ scoutfs_unlink(m)
        \/ scoutfs_lock_rename(m) \/ RenameVerify(m) \/ scoutfs_rename_common(m)

Spec == Init /\ [][Next]_nsVars

-----------------------------------------------------------------------------
(* Properties. *)

\* A directory has one entry with a name, also when mounts race to create or rename to it.
NamesUnique == \A e, x \in ents : e.dir = x.dir /\ e.name = x.name => e = x

\* Every entry has its backref item, which ancestors are found with, and there are no others.
BackrefsExact == refs = {[ino |-> e.ino, dir |-> e.dir, pos |-> e.pos] : e \in ents}

\* The links of an inode, on which its deletion depends, and the size of a directory, which
\* decides if it can be removed, are those of the entries.
LinksExact ==
    \A i \in DOMAIN inode \ lost :
        LET links == {e \in ents : e.ino = i}
            in == {e \in ents : e.dir = i}
        IN IF isdir(i)
           THEN /\ inode[i].size = Cardinality(in)
                /\ inode[i].nlink = Cardinality({e \in in : isdir(e.ino)}) + (IF i = ROOT \/ links # {} THEN 2 ELSE 0)
           ELSE inode[i].nlink = Cardinality(links)

\* Inodes that have no entries left have orphan items, so that they are found and deleted.
OrphansExact == orphans = {i \in DOMAIN inode \ lost : i # ROOT /\ ~\E e \in ents : e.ino = i}

\* A dentry that is valid is what the items have.
DentriesCurrent ==
    \A m \in NsMounts : \A d \in dcache[m] \cup (IF call[m] = NoCall THEN {} ELSE {call[m].old, call[m].new}) :
        d.valid /\ d.name # "" => d.ino = lookup_dirent(ents, d.dir, d.name).ino

\* "Parent dirs couldn't have been unlinked while they still had entries".
UnlinkedEmpty == \A i \in orphans : ~\E e \in ents : e.dir = i

\* A directory isn't moved below itself by renames of different mounts.
NoLoops ==
    ~\E D \in SUBSET {i \in DOMAIN inode : isdir(i)} :
        D # {} /\ \A d \in D : \E r \in refs : r.ino = d /\ r.dir \in D
=============================================================================
