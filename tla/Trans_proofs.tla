---------------------------- MODULE Trans_proofs ----------------------------
(***************************************************************************)
(* The proofs about Trans: what a sync returned for is committed, and      *)
(* nothing changes in a transaction while it is written.                   *)
(***************************************************************************)
EXTENDS Trans, FiniteSetTheorems, TLAPS

PC == {"run", "queue", "hold_wait", "sync_queue", "sync_wait", "synced"}
TaskRec == [pc : PC, depth : 0..2, sample : Nat, target : Nat]

-----------------------------------------------------------------------------
(* The count of holders. *)

\* The tasks that hold the transaction are finitely many.
LEMMA HoldsFinite ==
    ASSUME NEW n \in Nat
    PROVE  IsFiniteSet(Holds(n)) /\ Cardinality(Holds(n)) \in Nat
<1>1. Holds(n) \in SUBSET Tasks BY DEF Holds
<1>2. IsFiniteSet(Holds(n)) BY <1>1, FS_Subset, TasksAssumption, Zenon
<1>3. QED BY <1>2, FS_CardinalityType, Zenon

\* drained_holders(): when the count is 0, no task holds the transaction.
LEMMA DrainedHolders ==
    ASSUME TypeOK, HoldersCounted, holders = 0
    PROVE  \A t \in Tasks : task[t].depth = 0
<1>1. IsFiniteSet(Holds(1)) /\ Cardinality(Holds(1)) \in Nat BY HoldsFinite
<1>2. Cardinality(Holds(2)) \in Nat BY HoldsFinite
<1>3. Cardinality(Holds(1)) = 0 BY <1>1, <1>2 DEF HoldersCounted
<1>4. Holds(1) = {} BY <1>1, <1>3, FS_EmptySet, Zenon
<1>5. SUFFICES ASSUME NEW t \in Tasks PROVE task[t].depth = 0 OBVIOUS
<1>6. task[t].depth \in 0..2 BY DEF TypeOK
<1>7. ~(task[t].depth >= 1) BY <1>4 DEF Holds
<1>8. QED BY <1>6, <1>7

\* A task that takes its hold n, or gives it back, is counted once.
LEMMA HoldCounted ==
    ASSUME NEW S, IsFiniteSet(S), NEW t
    PROVE  /\ t \notin S => Cardinality(S \cup {t}) = Cardinality(S) + 1
           /\ t \in S => Cardinality(S \ {t}) = Cardinality(S) - 1
BY FS_AddElement, FS_RemoveElement, Zenon

\* The count is unchanged by a step that leaves the depth of every task.
LEMMA HoldersSame ==
    ASSUME TypeOK, TypeOK', HoldersCounted, holders' = holders,
           \A t \in Tasks : task'[t].depth = task[t].depth,
           \A t \in Tasks : task'[t].pc # "run" => task'[t].depth = 0
    PROVE  HoldersCounted'
<1>1. Holds(1)' = Holds(1) /\ Holds(2)' = Holds(2) BY DEF Holds
<1>2. QED BY <1>1, Zenon DEF HoldersCounted

\* A step that takes the depth of one task from d to d + 1.
LEMMA HoldersUp ==
    ASSUME TypeOK, HoldersCounted, NEW t \in Tasks, NEW d \in 0..1, NEW e, e = d + 1,
           task[t].pc = "run", task[t].depth = d,
           task' = [task EXCEPT ![t].depth = e], holders' = holders + 1
    PROVE  HoldersCounted'
<1>1. task \in [Tasks -> TaskRec] BY DEF TypeOK, TaskRec, PC
<1>2. /\ task'[t].depth = d + 1 /\ task'[t].pc = "run"
      /\ \A o \in Tasks : o # t => task'[o] = task[o]
      BY <1>1 DEF TaskRec
<1>3. \A o \in Tasks : task[o].depth \in 0..2 BY <1>1 DEF TaskRec
<1>f. /\ IsFiniteSet(Holds(1)) /\ Cardinality(Holds(1)) \in Nat
      /\ IsFiniteSet(Holds(2)) /\ Cardinality(Holds(2)) \in Nat
      BY HoldsFinite
<1>4. \A o \in Tasks : task'[o].pc # "run" => task'[o].depth = 0
      BY <1>2, Zenon DEF HoldersCounted
<1>5. CASE d = 0
  <2>1. t \notin Holds(1) BY <1>5 DEF Holds
  <2>2. Holds(1)' = Holds(1) \cup {t} BY <1>2, <1>5 DEF Holds
  <2>3. Holds(2)' = Holds(2) BY <1>2, <1>5 DEF Holds
  <2>4. Cardinality(Holds(1)') = Cardinality(Holds(1)) + 1
        BY <2>1, <2>2, <1>f, HoldCounted, Zenon
  <2>5. QED BY <2>3, <2>4, <1>4, <1>f DEF HoldersCounted
<1>6. CASE d = 1
  <2>1. t \notin Holds(2) BY <1>6 DEF Holds
  <2>2. Holds(2)' = Holds(2) \cup {t} BY <1>2, <1>6 DEF Holds
  <2>3. Holds(1)' = Holds(1) BY <1>2, <1>6 DEF Holds
  <2>4. Cardinality(Holds(2)') = Cardinality(Holds(2)) + 1
        BY <2>1, <2>2, <1>f, HoldCounted, Zenon
  <2>5. QED BY <2>3, <2>4, <1>4, <1>f DEF HoldersCounted
<1>7. QED BY <1>5, <1>6

\* A step that takes the depth of one task from d + 1 to d.
LEMMA HoldersDown ==
    ASSUME TypeOK, HoldersCounted, NEW t \in Tasks, NEW d \in 0..1,
           task[t].depth = d + 1,
           task' = [task EXCEPT ![t].depth = d], holders' = holders - 1
    PROVE  HoldersCounted'
<1>1. task \in [Tasks -> TaskRec] BY DEF TypeOK, TaskRec, PC
<1>2. /\ task'[t].depth = d /\ task'[t].pc = task[t].pc
      /\ \A o \in Tasks : o # t => task'[o] = task[o]
      BY <1>1 DEF TaskRec
<1>f. /\ IsFiniteSet(Holds(1)) /\ Cardinality(Holds(1)) \in Nat
      /\ IsFiniteSet(Holds(2)) /\ Cardinality(Holds(2)) \in Nat
      BY HoldsFinite
<1>3. task[t].pc = "run" BY DEF HoldersCounted
<1>4. \A o \in Tasks : task'[o].pc # "run" => task'[o].depth = 0
      BY <1>2, <1>3, Zenon DEF HoldersCounted
<1>5. CASE d = 0
  <2>1. t \in Holds(1) BY <1>5 DEF Holds
  <2>2. Holds(1)' = Holds(1) \ {t} BY <1>2, <1>5 DEF Holds
  <2>3. Holds(2)' = Holds(2) BY <1>2, <1>5 DEF Holds
  <2>4. Cardinality(Holds(1)') = Cardinality(Holds(1)) - 1
        BY <2>1, <2>2, <1>f, HoldCounted, Zenon
  <2>5. QED BY <2>3, <2>4, <1>4, <1>f DEF HoldersCounted
<1>6. CASE d = 1
  <2>1. t \in Holds(2) BY <1>6 DEF Holds
  <2>2. Holds(2)' = Holds(2) \ {t} BY <1>2, <1>6 DEF Holds
  <2>3. Holds(1)' = Holds(1) BY <1>2, <1>6 DEF Holds
  <2>4. Cardinality(Holds(2)') = Cardinality(Holds(2)) - 1
        BY <2>1, <2>2, <1>f, HoldCounted, Zenon
  <2>5. QED BY <2>3, <2>4, <1>4, <1>f DEF HoldersCounted
<1>7. QED BY <1>5, <1>6

-----------------------------------------------------------------------------
(* The steps of the tasks. *)

\* A step of a task that changes at most its own record, outside of a transaction that
\* is written, and counts its holds, keeps the invariant if it keeps what a sync sampled.
LEMMA TaskKeeps ==
    ASSUME TransInv, NEW t \in Tasks, NEW new \in TaskRec,
           task' = [task EXCEPT ![t] = new],
           HoldersCounted', holders' \in Int,
           new.depth > task[t].depth => wpc \notin {"write", "get", "count", "wake"},
           new.pc \in {"sync_queue", "sync_wait", "synced"} =>
               /\ new.target <= dirtied
               /\ new.sample < write_count => new.target <= committed
               /\ new.sample <= write_count
               /\ new.pc = "synced" => new.sample < write_count,
           work' \in {"none", "now", "later"},
           UNCHANGED <<writer, wpc, tseq, write_count, dirtied, committed>>
    PROVE  TransInv'
<1>1. task \in [Tasks -> TaskRec] BY DEF TransInv, TypeOK, TaskRec, PC
<1>2. /\ task' \in [Tasks -> TaskRec] /\ task'[t] = new
      /\ \A o \in Tasks : o # t => task'[o] = task[o]
      BY <1>1
<1>3. TypeOK' BY <1>2 DEF TransInv, TypeOK, TaskRec, PC
<1>4. WriterAlone'
  <2>1. ASSUME wpc \in {"write", "get", "count", "wake"}, NEW o \in Tasks
        PROVE  task'[o].depth = 0
    <3>1. task[o].depth = 0 /\ task[t].depth = 0 BY <2>1 DEF TransInv, WriterAlone
    <3>2. new.depth \in 0..2 BY DEF TaskRec
    <3>3. new.depth = 0 BY <2>1, <3>1, <3>2
    <3>4. QED BY <3>1, <3>3, <1>2
  <2>2. QED BY <2>1 DEF TransInv, WriterAlone
<1>5. SyncSampled'
  <2>1. SUFFICES ASSUME NEW o \in Tasks, task'[o].pc \in {"sync_queue", "sync_wait", "synced"}
                 PROVE  /\ task'[o].target <= dirtied
                        /\ task'[o].sample < write_count => task'[o].target <= committed
                        /\ task'[o].sample <= write_count
                        /\ task'[o].pc = "synced" => task'[o].sample < write_count
        BY Zenon DEF SyncSampled
  <2>2. CASE o = t BY <2>1, <2>2, <1>2
  <2>3. CASE o # t BY <2>1, <2>3, <1>2 DEF TransInv, SyncSampled
  <2>4. QED BY <2>2, <2>3
<1>6. QED BY <1>3, <1>4, <1>5, Zenon DEF TransInv

\* Every step of a task keeps the invariant.
LEMMA TaskStepInv ==
    ASSUME TransInv, NEW t \in Tasks, TaskStep(t)
    PROVE  TransInv'
<1> USE DEF TransInv
<1>t. task \in [Tasks -> TaskRec] BY DEF TypeOK, TaskRec, PC
<1>r. task[t] \in TaskRec BY <1>t
<1>f. /\ task[t].pc \in PC /\ task[t].depth \in 0..2
      /\ task[t].sample \in Nat /\ task[t].target \in Nat
      BY <1>r DEF TaskRec
<1>i. IdleTask \in TaskRec /\ IdleTask.pc = "run" /\ IdleTask.depth = 0 BY DEF IdleTask, TaskRec, PC
<1>s. holders \in Int /\ work \in {"none", "now", "later"} /\ dirtied \in Nat /\ write_count \in Nat
      /\ committed \in Nat /\ tseq \in Nat
      BY DEF TypeOK
\* A step that changes the record of the task and leaves its depth.
<1>k. ASSUME NEW new \in TaskRec, task' = [task EXCEPT ![t] = new],
             new.depth = task[t].depth, new.pc # "run" => new.depth = 0,
             UNCHANGED <<holders, writer, wpc, tseq, write_count, dirtied, committed>>,
             work' \in {"none", "now", "later"},
             new.pc \in {"sync_queue", "sync_wait", "synced"} =>
               /\ new.target <= dirtied
               /\ new.sample < write_count => new.target <= committed
               /\ new.sample <= write_count
               /\ new.pc = "synced" => new.sample < write_count
      PROVE  TransInv'
  <2>1. /\ task' \in [Tasks -> TaskRec] /\ task'[t] = new
        /\ \A o \in Tasks : o # t => task'[o] = task[o]
        BY <1>k, <1>t
  <2>2. TypeOK' BY <1>k, <2>1 DEF TypeOK, TaskRec, PC
  <2>3. \A o \in Tasks : task'[o].depth = task[o].depth BY <1>k, <2>1, Zenon
  <2>4. \A o \in Tasks : task'[o].pc # "run" => task'[o].depth = 0
        BY <1>k, <2>1, Zenon DEF HoldersCounted
  <2>5. HoldersCounted' BY <1>k, <2>2, <2>3, <2>4, HoldersSame, Zenon
  <2>6. ~(new.depth > task[t].depth) BY <1>k, <1>f
  <2>7. holders' \in Int BY <1>k, <1>s
  <2>8. QED BY <1>k, <2>5, <2>6, <2>7, TaskKeeps, Zenon
\* A step that only changes the depth.
<1>d. ASSUME NEW d \in 0..2, task' = [task EXCEPT ![t].depth = d], task[t].pc = "run",
             HoldersCounted', holders' \in Int,
             d > task[t].depth => wpc \notin {"write", "get", "count", "wake"},
             UNCHANGED <<writer, work, wpc, tseq, write_count, dirtied, committed>>
      PROVE  TransInv'
  <2> DEFINE new == [task[t] EXCEPT !.depth = d]
  <2>1. new \in TaskRec /\ new.depth = d /\ new.pc = "run" BY <1>d, <1>r DEF TaskRec
  <2>2. task' = [task EXCEPT ![t] = new] BY <1>d, <1>t
  <2> HIDE DEF new
  <2>3. new.pc \notin {"sync_queue", "sync_wait", "synced"} BY <2>1
  <2>4. QED BY <1>d, <1>s, <2>1, <2>2, <2>3, TaskKeeps, Zenon
<1>1. CASE HoldTrans(t)
  <2>1. CASE low
    <3> DEFINE new == [task[t] EXCEPT !.pc = "queue", !.sample = tseq]
    <3>1. new \in TaskRec /\ new.depth = task[t].depth /\ new.pc = "queue"
          BY Zenon, <1>r, <1>s DEF TaskRec, PC
    <3>2. task' = [task EXCEPT ![t] = new] BY Zenon, <1>1, <2>1, <1>t DEF HoldTrans
    <3>3. task[t].depth = 0 /\ UNCHANGED <<holders, writer, work, wpc, tseq, write_count, dirtied, committed>>
          BY <1>1, <2>1, Zenon DEF HoldTrans
    <3> HIDE DEF new
    <3>4. QED BY Zenon, <1>k, <1>s, <3>1, <3>2, <3>3
  <2>2. CASE ~low
    <3>1. /\ task' = [task EXCEPT ![t].depth = 1] /\ holders' = holders + 1
          /\ task[t].pc = "run" /\ task[t].depth = 0 /\ ~writer
          /\ UNCHANGED <<writer, work, wpc, tseq, write_count, dirtied, committed>>
          BY <1>1, <2>2, Zenon DEF HoldTrans
    <3>2. HoldersCounted'
      <4>1. 0 \in 0..1 /\ 1 = 0 + 1 OBVIOUS
      <4>2. QED BY <3>1, <4>1, HoldersUp, Zenon
    <3>3. wpc \notin {"write", "get", "count", "wake"} BY <3>1 DEF WriterAlone
    <3>4. holders' \in Int BY <3>1, <1>s
    <3>5. QED BY <1>d, <3>1, <3>2, <3>3, <3>4
  <2>3. QED BY <2>1, <2>2
<1>2. CASE HoldQueue(t)
  <2> DEFINE new == [task[t] EXCEPT !.pc = "hold_wait"]
  <2>1. new \in TaskRec /\ new.depth = task[t].depth /\ new.pc = "hold_wait"
        BY <1>r DEF TaskRec, PC
  <2>2. task' = [task EXCEPT ![t] = new] BY <1>2, <1>t DEF HoldQueue
  <2>3. task[t].depth = 0 BY <1>2 DEF HoldQueue, HoldersCounted
  <2>4. work' = "now" /\ UNCHANGED <<holders, writer, wpc, tseq, write_count, dirtied, committed>>
        BY <1>2, Zenon DEF HoldQueue
  <2> HIDE DEF new
  <2>5. QED BY Zenon, <1>k, <2>1, <2>2, <2>3, <2>4
<1>3. CASE HoldWoken(t)
  <2>1. task[t].depth = 0 BY <1>3 DEF HoldWoken, HoldersCounted
  <2>2. /\ task' = [task EXCEPT ![t] = IdleTask]
        /\ UNCHANGED <<holders, writer, work, wpc, tseq, write_count, dirtied, committed>>
        BY <1>3, Zenon DEF HoldWoken
  <2>3. QED BY Zenon, <1>k, <1>i, <1>s, <2>1, <2>2
<1>4. CASE HoldNested(t)
  <2>1. /\ task' = [task EXCEPT ![t].depth = 2] /\ holders' = holders + 1
        /\ task[t].pc = "run" /\ task[t].depth = 1
        /\ UNCHANGED <<writer, work, wpc, tseq, write_count, dirtied, committed>>
        BY <1>4, Zenon DEF HoldNested
  <2>2. HoldersCounted'
    <3>1. 1 \in 0..1 /\ 2 = 1 + 1 OBVIOUS
    <3>2. QED BY <2>1, <3>1, HoldersUp, Zenon
  <2>3. wpc \notin {"write", "get", "count", "wake"} BY <2>1 DEF WriterAlone
  <2>4. holders' \in Int BY <2>1, <1>s
  <2>5. QED BY <1>d, <2>1, <2>2, <2>3, <2>4
<1>5. CASE Dirty(t)
  <2>1. /\ task[t].depth > 0 /\ dirtied' = dirtied + 1
        /\ UNCHANGED <<task, holders, writer, work, wpc, tseq, write_count, committed>>
        BY <1>5, Zenon DEF Dirty
  <2>2. wpc \notin {"write", "get", "count", "wake"} BY <2>1 DEF WriterAlone
  <2>3. TypeOK' BY <2>1 DEF TypeOK
  <2>4. HoldersCounted' BY <2>1 DEF HoldersCounted, Holds
  <2>5. WriterAlone' BY <2>1, <2>2, <1>s DEF WriterAlone
  <2>6. SyncSampled'
    <3>1. \A o \in Tasks : task[o].target \in Nat BY <1>t DEF TaskRec
    <3>2. QED BY <2>1, <1>s, <3>1 DEF SyncSampled
  <2>7. QED BY <2>3, <2>4, <2>5, <2>6, Zenon
<1>6. CASE scoutfs_release_trans(t)
  <2> DEFINE d == task[t].depth - 1
  <2>1. /\ task' = [task EXCEPT ![t].depth = d] /\ holders' = holders - 1
        /\ task[t].depth > 0
        /\ UNCHANGED <<writer, work, wpc, tseq, write_count, dirtied, committed>>
        BY <1>6, <1>t DEF scoutfs_release_trans
  <2>2. d \in 0..1 /\ task[t].depth = d + 1 /\ ~(d > task[t].depth) /\ d \in 0..2 BY <2>1, <1>f
  <2>3. task[t].pc = "run" BY <2>1 DEF HoldersCounted
  <2> HIDE DEF d
  <2>4. HoldersCounted' BY Zenon, <2>1, <2>2, HoldersDown
  <2>5. holders' \in Int BY <2>1, <1>s
  <2>6. QED BY Zenon, <1>d, <2>1, <2>2, <2>3, <2>4, <2>5
<1>7. CASE SyncStart(t)
  <2> DEFINE new == [task[t] EXCEPT !.pc = "sync_queue", !.sample = write_count, !.target = dirtied]
  <2>1. /\ new \in TaskRec /\ new.depth = task[t].depth /\ new.pc = "sync_queue"
        /\ new.sample = write_count /\ new.target = dirtied
        BY Zenon, <1>r, <1>s DEF TaskRec, PC
  <2>2. task' = [task EXCEPT ![t] = new] BY Zenon, <1>7, <1>t DEF SyncStart
  <2>3. /\ task[t].depth = 0
        /\ UNCHANGED <<holders, writer, work, wpc, tseq, write_count, dirtied, committed>>
        BY <1>7, Zenon DEF SyncStart
  <2> HIDE DEF new
  <2>4. new.target <= dirtied /\ ~(new.sample < write_count) /\ new.sample <= write_count BY <2>1, <1>s
  <2>5. QED BY Zenon, <1>k, <1>s, <2>1, <2>2, <2>3, <2>4
<1>8. CASE SyncQueue(t)
  <2> DEFINE new == [task[t] EXCEPT !.pc = "sync_wait"]
  <2>1. /\ new \in TaskRec /\ new.depth = task[t].depth /\ new.pc = "sync_wait"
        /\ new.sample = task[t].sample /\ new.target = task[t].target
        BY <1>r DEF TaskRec, PC
  <2>2. task' = [task EXCEPT ![t] = new] BY <1>8, <1>t DEF SyncQueue
  <2>3. task[t].depth = 0 BY <1>8 DEF SyncQueue, HoldersCounted
  <2>4. /\ work' = "now" /\ task[t].pc = "sync_queue"
        /\ UNCHANGED <<holders, writer, wpc, tseq, write_count, dirtied, committed>>
        BY <1>8, Zenon DEF SyncQueue
  <2> HIDE DEF new
  <2>5. /\ new.target <= dirtied /\ (new.sample < write_count => new.target <= committed)
        /\ new.sample <= write_count
        BY <2>1, <2>4 DEF SyncSampled
  <2>6. QED BY Zenon, <1>k, <2>1, <2>2, <2>3, <2>4, <2>5
<1>9. CASE SyncReturn(t)
  <2> DEFINE new == [task[t] EXCEPT !.pc = "synced"]
  <2>1. /\ new \in TaskRec /\ new.depth = task[t].depth /\ new.pc = "synced"
        /\ new.sample = task[t].sample /\ new.target = task[t].target
        BY <1>r DEF TaskRec, PC
  <2>2. task' = [task EXCEPT ![t] = new] BY <1>9, <1>t DEF SyncReturn
  <2>3. task[t].depth = 0 BY <1>9 DEF SyncReturn, HoldersCounted
  <2>4. /\ task[t].pc = "sync_wait" /\ write_count > task[t].sample
        /\ UNCHANGED <<holders, writer, work, wpc, tseq, write_count, dirtied, committed>>
        BY <1>9, Zenon DEF SyncReturn, write_attempted
  <2> HIDE DEF new
  <2>5. /\ new.target <= dirtied /\ (new.sample < write_count => new.target <= committed)
        /\ new.sample <= write_count /\ new.sample < write_count
        BY <2>1, <2>4, <1>f, <1>s DEF SyncSampled
  <2>6. QED BY Zenon, <1>k, <1>s, <2>1, <2>2, <2>3, <2>4, <2>5
<1>10. CASE SyncDone(t)
  <2>1. task[t].depth = 0 BY <1>10 DEF SyncDone, HoldersCounted
  <2>2. /\ task' = [task EXCEPT ![t] = IdleTask]
        /\ UNCHANGED <<holders, writer, work, wpc, tseq, write_count, dirtied, committed>>
        BY <1>10, Zenon DEF SyncDone
  <2>3. QED BY Zenon, <1>k, <1>i, <1>s, <2>1, <2>2
<1>11. QED
  BY <1>1, <1>2, <1>3, <1>4, <1>5, <1>6, <1>7, <1>8, <1>9, <1>10, Zenon DEF TaskStep

-----------------------------------------------------------------------------
(* The steps of the writer. *)

\* Every step of the writer and its timer keeps the invariant.
LEMMA WriterStepInv ==
    ASSUME TransInv, WriterStep \/ TimerFires
    PROVE  TransInv'
<1> USE DEF TransInv
<1>t. task \in [Tasks -> TaskRec] BY DEF TypeOK, TaskRec, PC
<1>s. /\ dirtied \in Nat /\ write_count \in Nat /\ committed \in Nat /\ tseq \in Nat
      /\ \A o \in Tasks : task[o].target \in Nat /\ task[o].sample \in Nat
      BY <1>t DEF TypeOK, TaskRec
<1>u. UNCHANGED <<task, holders>>
      BY Zenon DEF WriterStep, TimerFires, WriteStart, WriteDrained, WriteCommit, GetLogTrees,
                   WriteCount, WriteWake, WriteFinish
<1>h. HoldersCounted' BY <1>u DEF HoldersCounted, Holds
<1>1. CASE TimerFires
  <2>1. TypeOK' BY <1>1 DEF TypeOK, TimerFires
  <2>2. WriterAlone' BY <1>1 DEF WriterAlone, TimerFires
  <2>3. SyncSampled' BY <1>1 DEF SyncSampled, TimerFires
  <2>4. QED BY <2>1, <2>2, <2>3, <1>h
<1>2. CASE WriteStart
  <2>1. TypeOK' BY <1>2 DEF TypeOK, WriteStart
  <2>2. WriterAlone' BY <1>2 DEF WriterAlone, WriteStart
  <2>3. SyncSampled' BY <1>2 DEF SyncSampled, WriteStart
  <2>4. QED BY <2>1, <2>2, <2>3, <1>h
<1>3. CASE WriteDrained
  <2>1. TypeOK' BY <1>3 DEF TypeOK, WriteDrained
  <2>2. \A t \in Tasks : task[t].depth = 0
        BY <1>3, DrainedHolders, Zenon DEF WriteDrained, drained_holders
  <2>3. WriterAlone' BY <1>3, <2>2 DEF WriterAlone, WriteDrained
  <2>4. SyncSampled' BY <1>3 DEF SyncSampled, WriteDrained
  <2>5. QED BY <2>1, <2>3, <2>4, <1>h
<1>4. CASE WriteCommit
  <2>1. TypeOK' BY <1>4 DEF TypeOK, WriteCommit
  <2>2. WriterAlone' BY <1>4, <1>s DEF WriterAlone, WriteCommit
  <2>3. committed <= committed' /\ UNCHANGED <<task, write_count, dirtied>>
        BY <1>4, <1>s DEF WriterAlone, WriteCommit
  <2>4. committed' \in Nat BY <2>1 DEF TypeOK
  <2>5. SyncSampled' BY <2>3, <2>4, <1>s DEF SyncSampled
  <2>6. QED BY <2>1, <2>2, <2>5, <1>h
<1>5. CASE GetLogTrees
  <2>1. TypeOK' BY <1>5 DEF TypeOK, GetLogTrees
  <2>2. WriterAlone' BY <1>5 DEF WriterAlone, GetLogTrees
  <2>3. SyncSampled' BY <1>5 DEF SyncSampled, GetLogTrees
  <2>4. QED BY <2>1, <2>2, <2>3, <1>h
<1>6. CASE WriteCount
  <2>1. TypeOK' BY <1>6 DEF TypeOK, WriteCount
  <2>2. WriterAlone' BY <1>6 DEF WriterAlone, WriteCount
  <2>3. /\ committed = dirtied /\ write_count' = write_count + 1
        /\ UNCHANGED <<task, committed, dirtied>>
        BY <1>6 DEF WriterAlone, WriteCount
  <2>4. SyncSampled' BY <2>3, <1>s DEF SyncSampled
  <2>5. QED BY <2>1, <2>2, <2>4, <1>h
<1>7. CASE WriteWake
  <2>1. TypeOK' BY Zenon, <1>7 DEF TypeOK, WriteWake
  <2>2. WriterAlone' BY <1>7 DEF WriterAlone, WriteWake
  <2>3. SyncSampled' BY <1>7 DEF SyncSampled, WriteWake
  <2>4. QED BY <2>1, <2>2, <2>3, <1>h
<1>8. CASE WriteFinish
  <2>1. TypeOK' BY <1>8 DEF TypeOK, WriteFinish, restart_sync_deadline
  <2>2. WriterAlone' BY <1>8 DEF WriterAlone, WriteFinish
  <2>3. SyncSampled' BY <1>8 DEF SyncSampled, WriteFinish
  <2>4. QED BY <2>1, <2>2, <2>3, <1>h
<1>9. QED BY <1>1, <1>2, <1>3, <1>4, <1>5, <1>6, <1>7, <1>8, Zenon DEF WriterStep

-----------------------------------------------------------------------------
(* The theorems. *)

\* The invariant holds at first.
LEMMA TransInit ==
    ASSUME Init
    PROVE  TransInv
<1>1. \A t \in Tasks : task[t] = IdleTask BY DEF Init
<1>2. TypeOK
  <2>1. IdleTask \in TaskRec BY DEF IdleTask, TaskRec, PC
  <2>2. task \in [Tasks -> TaskRec] BY <2>1, Zenon DEF Init
  <2>3. writer \in BOOLEAN BY Zenon DEF Init
  <2>4. /\ holders \in Int /\ tseq \in Nat /\ write_count \in Nat /\ dirtied \in Nat /\ committed \in Nat
        /\ work \in {"none", "now", "later"}
        /\ wpc \in {"idle", "drain", "write", "get", "count", "wake", "restart"}
        BY DEF Init
  <2>5. QED BY <2>2, <2>3, <2>4, Zenon DEF TypeOK, TaskRec, PC
<1>3. HoldersCounted
  <2>1. Holds(1) = {} /\ Holds(2) = {} BY <1>1 DEF Holds, IdleTask
  <2>2. Cardinality(Holds(1)) = 0 /\ Cardinality(Holds(2)) = 0 BY <2>1, FS_EmptySet, Zenon
  <2>3. QED BY <1>1, <2>2 DEF HoldersCounted, Init, IdleTask
<1>4. WriterAlone BY DEF Init, WriterAlone
<1>5. SyncSampled BY <1>1 DEF SyncSampled, IdleTask
<1>6. QED BY <1>2, <1>3, <1>4, <1>5 DEF TransInv

\* The count of holders, the write bit and the samples of syncs fit together in every
\* reachable state of the transactions of a mount, for any number of tasks.
THEOREM TransInvariant == Spec => []TransInv
<1>1. Init => TransInv BY TransInit
<1>2. TransInv /\ [Next]_transVars => TransInv'
  <2>1. SUFFICES ASSUME TransInv, [Next]_transVars PROVE TransInv' OBVIOUS
  <2>2. CASE UNCHANGED transVars
        BY <2>1, <2>2 DEF TransInv, TypeOK, HoldersCounted, Holds, WriterAlone, SyncSampled, transVars
  <2>3. CASE Finished BY <2>1, <2>2, <2>3, Zenon DEF Finished
  <2>4. QED BY <2>1, <2>2, <2>3, TaskStepInv, WriterStepInv, Zenon DEF Next
<1>3. QED BY <1>1, <1>2, PTL DEF Spec

\* scoutfs_trans_sync() returns after everything that was dirty when it was called is
\* committed, whatever commit was in flight and however many tasks change items.
THEOREM SyncsCover == Spec => []SyncCovers
<1>1. TransInv => SyncCovers
  <2>1. SUFFICES ASSUME TransInv, NEW t \in Tasks, task[t].pc = "synced"
                 PROVE  committed >= task[t].target
        BY DEF SyncCovers
  <2>2. task[t].target \in Nat /\ committed \in Nat BY <2>1 DEF TransInv, TypeOK
  <2>3. task[t].target <= committed BY <2>1 DEF TransInv, SyncSampled
  <2>4. QED BY <2>2, <2>3
<1>2. QED BY <1>1, TransInvariant, PTL

\* scoutfs_trans_write_func() has the transaction to itself: no task holds it, and nothing
\* becomes dirty between the commit and the opening of the next transaction.
THEOREM WritesExclusive == Spec => []WriteExclusive
<1>1. TransInv => WriteExclusive BY DEF TransInv, WriterAlone, WriteExclusive
<1>2. QED BY <1>1, TransInvariant, PTL

=============================================================================
