--------------------------- MODULE ExclusiveModes ---------------------------
(***************************************************************************)
(* What the cluster lock promises to the rest of the filesystem: mounts    *)
(* use a lock in modes that go together, and only those.  There is no      *)
(* server here, there are no messages and nothing waits; LockSystem is     *)
(* shown to implement this.                                                *)
(***************************************************************************)
EXTENDS LockModes

CONSTANT Client          \* the mounts that share the lock

VARIABLE using           \* per mount, the modes that it uses the lock in

Init == using = [c \in Client |-> {}]

\* A mount starts to use a mode that goes with what every other mount uses.
Acquire(c, m) ==
    /\ m \notin using[c]
    /\ \A d \in Client \ {c} : \A n \in using[d] : Compatible(m, n)
    /\ using' = [using EXCEPT ![c] = @ \cup {m}]

\* The last user of a mode unlocks.
Release(c, m) ==
    /\ m \in using[c]
    /\ using' = [using EXCEPT ![c] = @ \ {m}]

\* A mount ends, fenced or unmounted, with all that it used.
Leave(c) == using' = [using EXCEPT ![c] = {}]

Next ==
    \E c \in Client :
       \/ \E m \in UseMode : Acquire(c, m) \/ Release(c, m)
       \/ Leave(c)

Spec == Init /\ [][Next]_using

=============================================================================
