---------------------------- MODULE MCLockSystem ----------------------------
(* Instances of LockSystem for TLC.                                        *)
EXTENDS LockSystem, TLC

CONSTANT Writer

\* All callers of all mounts ask for the same modes.
ReadWrite == [c \in Client |-> {"read", "write"}]

\* One mount reads and writes what the others read.
OneWriter == [c \in Client |-> IF c = Writer THEN {"read", "write"} ELSE {"read"}]

\* All mounts write without reading, one of them also reads.
WriteOnly == [c \in Client |-> IF c = Writer THEN {"read", "wonly"} ELSE {"wonly"}]

=============================================================================
