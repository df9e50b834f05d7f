--------------------------- MODULE MCLockFailover ---------------------------
(* Instances of LockFailover for TLC.                                      *)
EXTENDS LockFailover, TLC

CONSTANT Writer

\* All callers of all mounts ask for the same modes.
ReadWrite == [c \in Client |-> {"read", "write"}]

\* One mount writes what the others read.
OneWriter == [c \in Client |-> IF c = Writer THEN {"write"} ELSE {"read"}]

Symmetry == Permutations(Client)

=============================================================================
