------------------------------ MODULE Extents ------------------------------
(***************************************************************************)
(* The extent algorithms of ext.c.  An extent maps len blocks from start   *)
(* to len blocks from map, with flags, and extents without a mapping have  *)
(* map 0.  Files store their data extents in items, and the allocators     *)
(* store free extents without mapping or flags in btree items.  Both are   *)
(* sorted by the last block of the extent.                                 *)
(*                                                                         *)
(* Every operation finds the extents that it changes, and lists the        *)
(* removals and insertions that apply_changes() then makes one at a time.  *)
(***************************************************************************)
EXTENDS Integers, Sequences, SequencesExt, FiniteSetsExt

Ext(start, len, map, flags) == [start |-> start, len |-> len, map |-> map, flags |-> flags]

NoExt == Ext(0, 0, 0, {})

ext_last(e) == e.start + e.len - 1

ext_map_add(map, diff) == IF map = 0 THEN 0 ELSE map + diff

ext_overlap(e, start, len) == e.start < start + len /\ start < e.start + e.len

scoutfs_ext_inside(start, len, out) == start >= out.start /\ start + len - 1 <= ext_last(out)

scoutfs_ext_can_merge(left, right) ==
    /\ left.start + left.len = right.start
    /\ (left.map = 0 /\ right.map = 0) \/ left.map + left.len = right.map
    /\ left.flags = right.flags

\* What is left of an extent on both sides of an interior range.
Left(e, start) == IF e.len > 0 /\ e.start < start THEN [e EXCEPT !.len = start - e.start] ELSE NoExt
Right(e, start, len) ==
    IF e.start + e.len > start + len
    THEN Ext(start + len, e.start + e.len - start - len, ext_map_add(e.map, start + len - e.start), e.flags)
    ELSE NoExt

\* Extents are found by their last block.
ext_next(E, start) ==
    LET found == {e \in E : ext_last(e) >= start}
    IN IF found = {} THEN NoExt ELSE CHOOSE e \in found : \A x \in found : ext_last(e) <= ext_last(x)

\* add_change(): empty extents are neither removed nor inserted.
Removal(e) == IF e.len = 0 THEN << >> ELSE <<[ins |-> FALSE, ext |-> e]>>
Insertion(e) == IF e.len = 0 THEN << >> ELSE <<[ins |-> TRUE, ext |-> e]>>

\* Every operation either has an error, or the changes to make.
EINVAL == [ok |-> FALSE, chg |-> << >>]
Changes(chg) == [ok |-> TRUE, chg |-> chg]

\* A neighbour is removed to be merged with the extent that is inserted.
Merges(left, right) == left.len > 0 /\ right.len > 0 /\ scoutfs_ext_can_merge(left, right)
RemoveLeft(left, ins) == Removal(IF Merges(left, ins) THEN left ELSE NoExt)
RemoveRight(ins, right) == Removal(IF Merges(ins, right) THEN right ELSE NoExt)
MergeLeft(left, ins) == IF Merges(left, ins) THEN [left EXCEPT !.len = @ + ins.len] ELSE ins
MergeRight(ins, right) == IF Merges(ins, right) THEN [ins EXCEPT !.len = @ + right.len] ELSE ins

ext_prev(E, start) == IF start > 0 THEN ext_next(E, start - 1) ELSE NoExt

insert_between(left, ins, right) ==
    IF right.len > 0 /\ ext_overlap(ins, right.start, right.len) THEN EINVAL
    ELSE Changes(RemoveRight(ins, right) \o RemoveLeft(left, MergeRight(ins, right))
                 \o Insertion(MergeLeft(left, MergeRight(ins, right))))

scoutfs_ext_insert(E, start, len, map, flags) ==
    insert_between(ext_prev(E, start), Ext(start, len, map, flags), ext_next(E, start))

remove_inside(found, start, len) ==
    IF found.len = 0 \/ ~scoutfs_ext_inside(start, len, found) THEN EINVAL
    ELSE Changes(Removal(found) \o Insertion(Left(found, start)) \o Insertion(Right(found, start, len)))

scoutfs_ext_remove(E, start, len) == remove_inside(ext_next(E, start), start, len)

\* scoutfs_ext_alloc() of the extent found by its caller's search.
scoutfs_ext_alloc(found, count) ==
    Changes(Removal(found)
            \o (IF found.len > count
                THEN Insertion(Ext(found.start + count, found.len - count, ext_map_add(found.map, count), found.flags))
                ELSE << >>))

\* Extents without mapping and flags are removed.
set_insertion(set) == Insertion(IF set.flags = {} /\ set.map = 0 THEN NoExt ELSE set)

\* The extent that is set is inside of the one that was found, of which left and right
\* remain, or next to neighbours that it is merged with.
set_between(found, left, nleft, set, nright, right) ==
    Changes(Removal(found)
            \o Insertion(left) \o RemoveLeft(nleft, set)
            \o Insertion(right) \o RemoveRight(MergeLeft(nleft, set), nright)
            \o set_insertion(MergeRight(MergeLeft(nleft, set), nright)))

set_split(E, found, left, set, right) ==
    set_between(found, left, IF left.len = 0 THEN ext_prev(E, set.start) ELSE NoExt, set,
                IF right.len = 0 THEN ext_next(E, set.start + set.len) ELSE NoExt, right)

set_found(E, found, set) ==
    IF found.len = 0 \/ ~ext_overlap(found, set.start, set.len) THEN set_split(E, NoExt, NoExt, set, NoExt)
    ELSE IF ~scoutfs_ext_inside(set.start, set.len, found) THEN EINVAL
    ELSE set_split(E, found, Left(found, set.start), set, Right(found, set.start, set.len))

scoutfs_ext_set(E, start, len, map, flags) ==
    set_found(E, ext_next(E, start), Ext(start, len, map, flags))

\* The changes that apply_changes() makes: all of them, or if the last one fails those
\* before it which are then undone.
performed(chg, fail) ==
    LET done == SubSeq(chg, 1, Len(chg) - 1)
    IN IF fail THEN done \o [i \in DOMAIN done |-> LET c == Reverse(done)[i] IN [c EXCEPT !.ins = ~@]] ELSE chg

ChangeItem(E, c) == IF c.ins THEN E \cup {c.ext} ELSE E \ {c.ext}

apply_changes(E, chg, fail) == FoldLeft(ChangeItem, E, performed(chg, fail))

-----------------------------------------------------------------------------
(* The meaning of a set of extents: what each block is mapped to. *)

BlockOf(E, b) ==
    LET has == {e \in E : e.start <= b /\ b <= ext_last(e)}
    IN IF has = {} THEN [map |-> 0, flags |-> {}]
       ELSE LET e == CHOOSE x \in has : TRUE IN [map |-> ext_map_add(e.map, b - e.start), flags |-> e.flags]

\* The blocks of a set of free extents.
Blocks(E) == UNION {e.start..ext_last(e) : e \in E}
=============================================================================
