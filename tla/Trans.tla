------------------------------- MODULE Trans -------------------------------
(***************************************************************************)
(* The transactions of a mount (trans.c): tasks hold the transaction while *)
(* they make changes, a worker waits for them, writes the transaction and  *)
(* opens the next one, and syncs wait for a commit.                        *)
(***************************************************************************)
EXTENDS Integers, FiniteSets

CONSTANTS
    Tasks,
    MaxDirty,            \* bound on the changes that are made
    MaxSyncs,            \* bound on the syncs
    MaxRetries           \* bound on commits that fail and are tried again

ASSUME TasksAssumption == IsFiniteSet(Tasks)

VARIABLES
    task,                \* the state of each task
    holders,             \* the count of tri->holders
    writer,              \* TRANS_HOLDERS_WRITE_FUNC_BIT
    work,                \* write_work is queued "now", or its timer will ("later")
    wpc,                 \* the step of scoutfs_trans_write_func()
    tseq,                \* sbi->trans_seq
    write_count,
    low,                 \* the transaction's allocators are low
    dirtied, committed,  \* how many changes were made and committed
    syncs, retries

transVars == <<task, holders, writer, work, wpc, tseq, write_count, low, dirtied, committed, syncs, retries>>

IdleTask == [pc |-> "run", depth |-> 0, sample |-> 0, target |-> 0]

Init ==
    /\ task = [t \in Tasks |-> IdleTask]
    /\ holders = 0 /\ writer = FALSE
    /\ work = "later" /\ wpc = "idle"
    /\ tseq = 1 /\ write_count = 0
    /\ low = FALSE
    /\ dirtied = 0 /\ committed = 0
    /\ syncs = 0 /\ retries = 0

-----------------------------------------------------------------------------
(* Holding the transaction. *)

\* scoutfs_hold_trans() without a caller that holds it: inc_holders_unless_writer(), and
\* a transaction whose allocators are low is committed first (commit_before_hold()).
HoldTrans(t) ==
    /\ task[t].pc = "run" /\ task[t].depth = 0 /\ ~writer
    /\ IF low
       THEN /\ task' = [task EXCEPT ![t].pc = "queue", ![t].sample = tseq]
            /\ UNCHANGED holders
       ELSE /\ task' = [task EXCEPT ![t].depth = 1]
            /\ holders' = holders + 1
    /\ UNCHANGED <<writer, work, wpc, tseq, write_count, low, dirtied, committed, syncs, retries>>

\* The task released its hold and queues the commit that it waits for.
HoldQueue(t) ==
    /\ task[t].pc = "queue"
    /\ work' = "now"
    /\ task' = [task EXCEPT ![t].pc = "hold_wait"]
    /\ UNCHANGED <<holders, writer, wpc, tseq, write_count, low, dirtied, committed, syncs, retries>>

HoldWoken(t) ==
    /\ task[t].pc = "hold_wait" /\ tseq # task[t].sample
    /\ task' = [task EXCEPT ![t] = IdleTask]
    /\ UNCHANGED <<holders, writer, work, wpc, tseq, write_count, low, dirtied, committed, syncs, retries>>

\* A nested hold (inc_journal_info_holders()) doesn't wait for the writer.
HoldNested(t) ==
    /\ task[t].pc = "run" /\ task[t].depth = 1
    /\ task' = [task EXCEPT ![t].depth = 2]
    /\ holders' = holders + 1
    /\ UNCHANGED <<writer, work, wpc, tseq, write_count, low, dirtied, committed, syncs, retries>>

\* A task changes items or allocates, which can leave the allocators low.
Dirty(t) ==
    /\ task[t].depth > 0 /\ dirtied < MaxDirty
    /\ dirtied' = dirtied + 1
    /\ low' \in {low, TRUE}
    /\ UNCHANGED <<task, holders, writer, work, wpc, tseq, write_count, committed, syncs, retries>>

\* scoutfs_release_trans()
scoutfs_release_trans(t) ==
    /\ task[t].depth > 0
    /\ task' = [task EXCEPT ![t].depth = @ - 1]
    /\ holders' = holders - 1
    /\ UNCHANGED <<writer, work, wpc, tseq, write_count, low, dirtied, committed, syncs, retries>>

-----------------------------------------------------------------------------
(* scoutfs_trans_sync(). *)

\* The count of commits is read before a commit is queued.
SyncStart(t) ==
    /\ task[t].pc = "run" /\ task[t].depth = 0 /\ syncs < MaxSyncs
    /\ syncs' = syncs + 1
    /\ task' = [task EXCEPT ![t].pc = "sync_queue", ![t].sample = write_count, ![t].target = dirtied]
    /\ UNCHANGED <<holders, writer, work, wpc, tseq, write_count, low, dirtied, committed, retries>>

SyncQueue(t) ==
    /\ task[t].pc = "sync_queue"
    /\ work' = "now"
    /\ task' = [task EXCEPT ![t].pc = "sync_wait"]
    /\ UNCHANGED <<holders, writer, wpc, tseq, write_count, low, dirtied, committed, syncs, retries>>

\* Seeded bug: any commit that was done is enough.
write_attempted_any(t) == write_count >= task[t].sample

\* write_attempted(): "There can already be one in flight that we end up waiting for the
\* completion of".
write_attempted(t) == write_count > task[t].sample

SyncReturn(t) ==
    /\ task[t].pc = "sync_wait" /\ write_attempted(t)
    /\ task' = [task EXCEPT ![t].pc = "synced"]
    /\ UNCHANGED <<holders, writer, work, wpc, tseq, write_count, low, dirtied, committed, syncs, retries>>

SyncDone(t) ==
    /\ task[t].pc = "synced"
    /\ task' = [task EXCEPT ![t] = IdleTask]
    /\ UNCHANGED <<holders, writer, work, wpc, tseq, write_count, low, dirtied, committed, syncs, retries>>

-----------------------------------------------------------------------------
(* The writer. *)

\* The timer of the delayed work, after TRANS_SYNC_DELAY, when there is a reason for a
\* commit.
TimerFires ==
    /\ work = "later" /\ wpc = "idle"
    /\ \/ dirtied > committed
       \/ \E t \in Tasks : \/ task[t].pc = "sync_wait" /\ ~write_attempted(t)
                           \/ task[t].pc = "hold_wait" /\ tseq = task[t].sample
    /\ work' = "now"
    /\ UNCHANGED <<task, holders, writer, wpc, tseq, write_count, low, dirtied, committed, syncs, retries>>

\* scoutfs_trans_write_func() starts and waits for holders.
WriteStart ==
    /\ wpc = "idle" /\ work = "now"
    /\ work' = "none" /\ wpc' = "drain" /\ writer' = TRUE
    /\ UNCHANGED <<task, holders, tseq, write_count, low, dirtied, committed, syncs, retries>>

\* Seeded bug: the writer doesn't wait for tasks that hold the transaction.
drained_holders_any == TRUE

drained_holders == holders = 0

WriteDrained ==
    /\ wpc = "drain" /\ drained_holders
    /\ wpc' = "write"
    /\ UNCHANGED <<task, holders, writer, work, tseq, write_count, low, dirtied, committed, syncs, retries>>

\* The items, the blocks and the log trees are committed, or a step fails and all is
\* tried again.
WriteCommit ==
    /\ wpc = "write"
    /\ \/ /\ committed' = dirtied /\ wpc' = "get"
          /\ UNCHANGED retries
       \/ /\ retries < MaxRetries /\ retries' = retries + 1
          /\ UNCHANGED <<committed, wpc>>
    /\ UNCHANGED <<task, holders, writer, work, tseq, write_count, low, dirtied, syncs>>

\* scoutfs_trans_get_log_trees()
GetLogTrees ==
    /\ wpc = "get"
    /\ \/ /\ tseq' = tseq + 1 /\ low' = FALSE /\ wpc' = "count"
          /\ UNCHANGED retries
       \/ /\ retries < MaxRetries /\ retries' = retries + 1
          /\ wpc' = "write"
          /\ UNCHANGED <<tseq, low>>
    /\ UNCHANGED <<task, holders, writer, work, write_count, dirtied, committed, syncs>>

WriteCount ==
    /\ wpc = "count"
    /\ write_count' = write_count + 1
    /\ wpc' = "wake"
    /\ UNCHANGED <<task, holders, writer, work, tseq, low, dirtied, committed, syncs, retries>>

\* sub_holders_and_wake()
WriteWake ==
    /\ wpc = "wake"
    /\ writer' = FALSE /\ wpc' = "restart"
    /\ UNCHANGED <<task, holders, work, tseq, write_count, low, dirtied, committed, syncs, retries>>

\* Seeded bug: the writer doesn't queue itself again.
restart_sync_deadline_never == "none"

\* scoutfs_trans_restart_sync_deadline(): mod_delayed_work() also delays work that was
\* queued meanwhile.
restart_sync_deadline == "later"

WriteFinish ==
    /\ wpc = "restart"
    /\ work' = restart_sync_deadline
    /\ wpc' = "idle"
    /\ UNCHANGED <<task, holders, writer, tseq, write_count, low, dirtied, committed, syncs, retries>>

\* All is done.
Finished ==
    /\ dirtied = MaxDirty /\ committed = dirtied /\ syncs = MaxSyncs
    /\ wpc = "idle" /\ \A t \in Tasks : task[t] = IdleTask
    /\ UNCHANGED transVars

TaskStep(t) ==
    \/ HoldTrans(t) \/ HoldQueue(t) \/ HoldWoken(t) \/ HoldNested(t) \/ Dirty(t) \/ scoutfs_release_trans(t)
    \/ SyncStart(t) \/ SyncQueue(t) \/ SyncReturn(t) \/ SyncDone(t)

WriterStep ==
    WriteStart \/ WriteDrained \/ WriteCommit \/ GetLogTrees \/ WriteCount \/ WriteWake \/ WriteFinish

Next == (\E t \in Tasks : TaskStep(t)) \/ TimerFires \/ WriterStep \/ Finished

Spec == Init /\ [][Next]_transVars

\* The work queue runs the writer and the timer of its delayed work expires.  Tasks go on
\* until they wait, and release their holds: the holds that an operation nests are finite.
Fairness ==
    /\ WF_transVars(WriterStep) /\ WF_transVars(TimerFires)
    /\ \A t \in Tasks : /\ WF_transVars(HoldQueue(t) \/ HoldWoken(t) \/ SyncQueue(t) \/ SyncReturn(t))
                       /\ SF_transVars(scoutfs_release_trans(t) /\ task[t].depth = 1)
                       /\ WF_transVars(scoutfs_release_trans(t))

FairSpec == Spec /\ Fairness

-----------------------------------------------------------------------------
(* Properties. *)

\* A sync returns once all that was dirty before it started is committed: "There's no
\* way that there could have been dirty data before the caller got here that wouldn't
\* be covered by a commit that's in flight".
SyncCovers == \A t \in Tasks : task[t].pc = "synced" => committed >= task[t].target

\* Nothing changes in a transaction while it is written: what is dirty was committed
\* when the next transaction opens.
WriteExclusive ==
    wpc \in {"get", "count", "wake"} => committed = dirtied /\ \A t \in Tasks : task[t].depth = 0

\* The variables have their types.
TypeOK ==
    /\ task \in [Tasks -> [pc : {"run", "queue", "hold_wait", "sync_queue", "sync_wait", "synced"},
                         depth : 0..2, sample : Nat, target : Nat]]
    /\ holders \in Int /\ writer \in BOOLEAN
    /\ work \in {"none", "now", "later"}
    /\ wpc \in {"idle", "drain", "write", "get", "count", "wake", "restart"}
    /\ tseq \in Nat /\ write_count \in Nat
    /\ dirtied \in Nat /\ committed \in Nat

\* The tasks that hold the transaction, and those that hold it twice.
Holds(n) == {t \in Tasks : task[t].depth >= n}

\* tri->holders counts each hold, and a task that waits has none.
HoldersCounted ==
    /\ holders = Cardinality(Holds(1)) + Cardinality(Holds(2))
    /\ \A t \in Tasks : task[t].pc # "run" => task[t].depth = 0

\* The write bit is set from the start of the writer until the next transaction is open,
\* and nobody holds a transaction that is written.
WriterAlone ==
    /\ writer <=> wpc \in {"drain", "write", "get", "count", "wake"}
    /\ wpc \in {"write", "get", "count", "wake"} => \A t \in Tasks : task[t].depth = 0
    /\ wpc \in {"get", "count", "wake"} => committed = dirtied
    /\ committed <= dirtied

\* A commit that is counted after a sync sampled the count covers what the sync waits for.
SyncSampled ==
    \A t \in Tasks : task[t].pc \in {"sync_queue", "sync_wait", "synced"} =>
        /\ task[t].target <= dirtied
        /\ task[t].sample < write_count => task[t].target <= committed
        /\ task[t].sample <= write_count
        /\ task[t].pc = "synced" => task[t].sample < write_count

\* What SyncCovers and WriteExclusive rest on, inductively.
TransInv == TypeOK /\ HoldersCounted /\ WriterAlone /\ SyncSampled

\* A task that waits for a commit isn't forgotten: neither a sync, nor a task that found
\* the allocators low, whatever work was queued while the writer ran, which delays it
\* again as it finishes.
WaitersReturn ==
    \A t \in Tasks : /\ task[t].pc = "sync_queue" ~> task[t].pc = "synced"
                     /\ task[t].pc = "queue" ~> task[t].pc = "run"

=============================================================================
