----------------------------- MODULE LockModes -----------------------------
(***************************************************************************)
(* The cluster lock modes and the relations between them that the lock     *)
(* client (lock.c) and the lock server (lock_server.c) evaluate.           *)
(*                                                                         *)
(*   "null"   SCOUTFS_LOCK_NULL         nothing is granted                 *)
(*   "read"   SCOUTFS_LOCK_READ         items may be read and cached       *)
(*   "write"  SCOUTFS_LOCK_WRITE        items may be read and dirtied      *)
(*   "wonly"  SCOUTFS_LOCK_WRITE_ONLY   items may be dirtied, not read     *)
(***************************************************************************)
EXTENDS Integers

Mode == {"null", "read", "write", "wonly"}

\* The modes a caller can ask to use a lock in.
UseMode == Mode \ {"null"}

\* A client has no entry on one of the server's lists.
NoEntry == "none"

Entry == Mode \cup {NoEntry}

lock_mode_can_read(m) == m \in {"read", "write"}

lock_mode_can_write(m) == m \in {"write", "wonly"}

\* A lock granted in one mode satisfies a caller that wants the other.
lock_modes_match(granted, requested) ==
    \/ granted = requested
    \/ granted = "write" /\ requested = "read"

\* Every mode that is in use is satisfied by the given mode.
lock_counts_match(granted, counts) ==
    \A m \in UseMode : counts[m] > 0 => lock_modes_match(granted, m)

\* A grant of mode g to client c can stay while client r is granted mode m.
client_entries_compatible(c, g, r, m) ==
    \/ g = m /\ g \in {"read", "wonly"}
    \/ c = r /\ g = "read" /\ m = "write"

\* The mode a grant is brought down to for an incompatible request.
invalidation_mode(granted, requested) ==
    IF granted = "write" /\ requested = "read" THEN "read" ELSE "null"

(***************************************************************************)
(* What the modes mean, independently of how the code compares them.       *)
(***************************************************************************)

\* Two mounts may use these modes at the same time.
Compatible(a, b) ==
    \/ {a, b} \cap {"null", NoEntry} # {}
    \/ a = b /\ a \in {"read", "wonly"}

\* Whoever is known to hold a is allowed to use b.
Covers(a, b) ==
    \/ b \in {"null", NoEntry}
    \/ a = b
    \/ a = "write" /\ b = "read"

=============================================================================
