------------------------------ MODULE MCTrees ------------------------------
(***************************************************************************)
(* The log trees of mounts, which the server finalizes and has merged, and *)
(* the connections on which mounts ask it to, which deliver each request   *)
(* once and in order.  LogTrees takes that delivery for granted; NetConn   *)
(* shows it.  Each behaviour is of one of the models: the other one stays  *)
(* in its initial state.                                                   *)
(***************************************************************************)
EXTENDS Integers

CONSTANTS
    NMounts, NKeys, Totl, KeySets, Batch, MaxSeq, Victims, MaxErrors,
    MaxRequests, MaxSocks,
    MaxFailovers

VARIABLES
    model,
    seq, locks, logs, fs, cuts, merge, cl, wait, worker, res, icount, errors, failovers, latest,
    client, acc, toS, toC, term, received, handled, done

Trees == INSTANCE LogTrees
Connection == INSTANCE NetConn WITH cl <- client

treeVars == <<seq, locks, logs, fs, cuts, merge, cl, wait, worker, res, icount, errors, failovers, latest>>
netVars == <<client, acc, toS, toC, term, received, handled, done>>

Init == /\ Trees!Init /\ Connection!Init
        /\ model = "trees" \/ (model = "net" /\ cuts = {})

\* What the code doesn't survive is left out: see the observations of the README.
TreesStep == Trees!Next /\ Trees!SyncWhenNeeded /\ Trees!RemovedTogether /\ Trees!FailsBetween
ConnectionStep == Connection!Next /\ Connection!SubmitsInOrder /\ Connection!FirstGreetingArrives

Next ==
    \/ model = "trees" /\ TreesStep /\ UNCHANGED <<model, netVars>>
    \/ model = "net" /\ ConnectionStep /\ UNCHANGED <<model, treeVars>>

Spec == Init /\ [][Next]_<<model, treeVars, netVars>>

-----------------------------------------------------------------------------
(* Properties. *)

\* Readers see what was last committed, whatever was finalized and merged meanwhile
\* (scoutfs_forest_read_items()): items don't appear to go backwards in time.
ReadsLatest == Trees!ReadsLatest

\* The inode counts of the super block and the log trees add up to the inodes there are
\* (scoutfs_forest_inode_count()), and the allocators of log trees aren't lost or used
\* twice as log trees are finalized, moved to the next one and reclaimed.
NothingLost == Trees!CountExact /\ Trees!ResourcesKept

\* No two ranges that are merged at once have the same parent block
\* (server_get_log_merge()).
ParentsDisjoint == Trees!ParentsDisjoint

\* The mounts that remain can finish a merge (server_commit_log_merge(),
\* reclaim_log_trees()).
MergeNotStuck == Trees!MergeNotStuck

\* get_stable_trans_seq() doesn't go back.
StableAdvances == Trees!StableAdvances

\* A server processes a request once, however many times it is sent; what is dropped as
\* a duplicate was received, so that no request is skipped when the client sends its
\* messages again; and the response is kept until the client has it, also by a
\* connection that replaces the one on which the request came.
DeliversOnce == Connection!HandledOnce /\ Connection!NoneSkipped /\ Connection!ResponseKept

=============================================================================
