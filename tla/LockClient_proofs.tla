------------------------- MODULE LockClient_proofs -------------------------
(***************************************************************************)
(* LockSystem keeps the types of its state, for any number of mounts and   *)
(* callers.  The steps of a mount keep LockInv, the inductive invariant    *)
(* behind mode exclusion: what its callers and its shrink work do, how it  *)
(* is granted modes, how it carries out invalidations, and how it leaves.  *)
(***************************************************************************)
EXTENDS LockSystem, TLAPS


-----------------------------------------------------------------------------
(* Queues                                                                  *)

\* A message is put behind those already in a queue.
LEMMA AppendProperties ==
  ASSUME NEW S, NEW q \in Seq(S), NEW e \in S
  PROVE  /\ Append(q, e) \in Seq(S)
         /\ Append(q, e) # <<>>
         /\ Len(Append(q, e)) = Len(q) + 1
         /\ \A i \in 1..Len(q) : Append(q, e)[i] = q[i]
         /\ Append(q, e)[Len(q) + 1] = e
  OBVIOUS

\* The first message is taken and the others move up.
LEMMA HeadTailProperties ==
  ASSUME NEW S, NEW q \in Seq(S), q # <<>>
  PROVE  /\ Head(q) \in S
         /\ Tail(q) \in Seq(S)
         /\ Len(Tail(q)) = Len(q) - 1
         /\ \A i \in 1..Len(Tail(q)) : Tail(q)[i] = q[i + 1]
  OBVIOUS

-----------------------------------------------------------------------------
(* Types                                                                   *)

\* put_lock() makes a lock of a lock.
LEMMA PutLockType == \A l \in Lock : put_lock(l) \in Lock
  BY DEF put_lock, Lock, NoLock, Nobody, Mode, UseMode, Inval

\* A caller that starts or stops waiting for, or using, a mode leaves a lock.
LEMMA CountType ==
  ASSUME NEW l \in Lock, NEW m \in UseMode
  PROVE  /\ [l EXCEPT !.have = TRUE, !.waiters[m] = @ + 1] \in Lock
         /\ l.waiters[m] > 0 => [l EXCEPT !.waiters[m] = @ - 1] \in Lock
         /\ l.waiters[m] > 0 =>
              [l EXCEPT !.waiters[m] = @ - 1, !.users[m] = @ + 1] \in Lock
         /\ \A w \in BOOLEAN : l.users[m] > 0 =>
              [l EXCEPT !.users[m] = @ - 1, !.wrote = @ \/ w] \in Lock
  <1>1. l.waiters \in [UseMode -> Nat] /\ l.users \in [UseMode -> Nat]
    BY Zenon DEF Lock
  <1>2. [l.waiters EXCEPT ![m] = @ + 1] \in [UseMode -> Nat]
    BY <1>1
  <1>3. [l.users EXCEPT ![m] = @ + 1] \in [UseMode -> Nat]
    BY <1>1
  <1>4. l.waiters[m] > 0 => [l.waiters EXCEPT ![m] = @ - 1] \in [UseMode -> Nat]
    BY <1>1
  <1>5. l.users[m] > 0 => [l.users EXCEPT ![m] = @ - 1] \in [UseMode -> Nat]
    BY <1>1
  <1>6. [l EXCEPT !.have = TRUE, !.waiters[m] = @ + 1] \in Lock
    BY Zenon, <1>1, <1>2 DEF Lock
  <1>7. l.waiters[m] > 0 => [l EXCEPT !.waiters[m] = @ - 1] \in Lock
    BY Zenon, <1>1, <1>4 DEF Lock
  <1>8. l.waiters[m] > 0 =>
              [l EXCEPT !.waiters[m] = @ - 1, !.users[m] = @ + 1] \in Lock
    BY Zenon, <1>1, <1>3, <1>4 DEF Lock
  <1>9. \A w \in BOOLEAN : l.users[m] > 0 =>
              [l EXCEPT !.users[m] = @ - 1, !.wrote = @ \/ w] \in Lock
    BY Zenon, <1>1, <1>5 DEF Lock
  <1> QED
    BY Zenon, <1>6, <1>7, <1>8, <1>9

\* The other changes of a lock leave a lock.
LEMMA UpdateType ==
  ASSUME NEW l \in Lock
  PROVE  /\ [l EXCEPT !.pend = TRUE] \in Lock
         /\ [l EXCEPT !.pend = TRUE, !.shrink = TRUE] \in Lock
         /\ [l EXCEPT !.shrink = FALSE, !.pend = FALSE] \in Lock
         /\ [l EXCEPT !.shrink = FALSE] \in Lock
         /\ [l EXCEPT !.wrote = FALSE] \in Lock
         /\ \A m \in Mode, b \in BOOLEAN :
               [l EXCEPT !.pend = FALSE, !.mode = m, !.gen = @ \/ b] \in Lock
         /\ \A m \in Mode : [l EXCEPT !.inving = l.mode, !.mode = m] \in Lock
         /\ \A s \in Seq(Inval) : [l EXCEPT !.inving = "null", !.invs = s] \in Lock
         /\ \A s \in Seq(Inval) : [l EXCEPT !.invs = s] \in Lock
  BY Zenon DEF Lock, Mode

\* Clients send lock requests and invalidation responses.
LEMMA SentType ==
  ASSUME NEW c \in Client, NEW m \in Mode, NEW l \in BOOLEAN
  PROVE  /\ Sent(c, RequestMsg(c, m)) \subseteq ServerMsg
         /\ Sent(c, ResponseMsg(c, m, l)) \subseteq ServerMsg
  <1>1. RequestMsg(c, m) \in ServerMsg /\ ResponseMsg(c, m, l) \in ServerMsg
    BY Zenon DEF RequestMsg, ResponseMsg, ServerMsg
  <1> QED
    BY Zenon, <1>1 DEF Sent

\* The queue without a client's request is a queue of waiting requests.
LEMMA WithoutClientType ==
  ASSUME NEW s \in Seq(Waiting), NEW c \in Client
  PROVE  WithoutClient(s, c) \in Seq(Waiting)
  <1> DEFINE mine == {i \in 1..Len(s) : s[i].rid = c}
             k == CHOOSE i \in mine : TRUE
  <1>1. CASE mine = {}
    BY Zenon, <1>1 DEF WithoutClient
  <1>2. CASE mine # {}
    <2>1. k \in 1..Len(s)
      BY Zenon, <1>2
    <2>2. Len(s) - 1 \in Nat
      BY <2>1
    <2>3. \A j \in 1..(Len(s) - 1) : (IF j < k THEN s[j] ELSE s[j + 1]) \in Waiting
      BY <2>1
    <2> HIDE DEF k
    <2>4. [j \in 1..(Len(s) - 1) |-> IF j < k THEN s[j] ELSE s[j + 1]] \in Seq(Waiting)
      BY <2>2, <2>3
    <2> QED
      BY Zenon, <1>2, <2>4 DEF WithoutClient, k
  <1> QED
    BY Zenon, <1>1, <1>2

\* Every step of the lock system keeps the types.
LEMMA TypeStep == TypeOK /\ WorkerBusy /\ [Next]_vars => TypeOK'
  <1> SUFFICES ASSUME TypeOK, WorkerBusy, [Next]_vars
               PROVE  TypeOK'
    BY Zenon
  <1> USE DEF TypeOK, ServerTypeOK, NetTypeOK, ClientTypeOK
  <1>1. ASSUME NEW c \in Client, ServerRequest(c), UNCHANGED clientVars
        PROVE  TypeOK'
    BY <1>1 DEF ServerRequest, CanHandle, Waiting, ServerMsg, clientVars, lockVars, cacheVars
  <1>2. ASSUME NEW c \in Client, ServerResponse(c), UNCHANGED clientVars
        PROVE  TypeOK'
    BY Zenon, <1>2 DEF ServerResponse, CanHandle, ServerMsg, Entry, clientVars, lockVars, cacheVars
  <1>3. ASSUME ProcessEnd, UNCHANGED clientVars
        PROVE  TypeOK'
    BY Zenon, <1>3 DEF ProcessEnd, clientVars, lockVars, cacheVars, netVars
  <1>4. ASSUME ProcessInvalidate, UNCHANGED clientVars
        PROVE  TypeOK'
    <2> DEFINE req == Head(requested)
    <2>1. PICK sent \in SUBSET Incompatible(req) : SendInvalidations(req, sent)
      BY Zenon, <1>4 DEF ProcessInvalidate
    <2>2. \A c \in sent : c \in Client /\ granted[c] \in Mode
      BY Zenon, <2>1 DEF Incompatible, Entry
    <2>3. \A c \in sent :
             InvalMsg(granted[c], invalidation_mode(granted[c], req.mode)) \in ClientMsg
      BY Zenon, <2>2 DEF InvalMsg, invalidation_mode, ClientMsg, Mode
    <2>4. toClient' \in [Client -> Seq(ClientMsg)]
      BY <2>1, <2>3 DEF SendInvalidations
    <2>5. granted' \in [Client -> Entry] /\ invalidated' \in [Client -> Entry]
      BY Zenon, <2>1 DEF SendInvalidations, Entry
    <2>6. busy' \in {"no", "message", "farewell"} /\ serving' \in BOOLEAN
      BY Zenon, <1>4 DEF ProcessInvalidate, ProcessFailed
    <2> QED
      BY Zenon, <1>4, <2>4, <2>5, <2>6 DEF ProcessInvalidate, clientVars, lockVars, cacheVars
  <1>5. ASSUME ProcessGrant, UNCHANGED clientVars
        PROVE  TypeOK'
    <2> DEFINE req == Head(requested)
               c   == req.rid
               old == IF granted[c] = NoEntry THEN "null" ELSE granted[c]
    <2>1. requested # <<>> /\ req \in Waiting /\ Tail(requested) \in Seq(Waiting)
      BY <1>5 DEF ProcessGrant, Walking
    <2>2. c \in Client /\ req.mode \in Mode /\ old \in Mode
      BY Zenon, <2>1 DEF Waiting, Entry, Mode
    <2>3. GrantMsg(old, req.mode) \in ClientMsg
      BY Zenon, <2>2 DEF GrantMsg, ClientMsg
    <2>4. CASE link[c] = "up"
      <3>1. /\ toClient' = [toClient EXCEPT ![c] = Append(@, GrantMsg(old, req.mode))]
            /\ granted' = [granted EXCEPT
                 ![c] = IF req.mode = "null" THEN NoEntry ELSE req.mode]
            /\ requested' = Tail(requested)
            /\ UNCHANGED <<busy, serving, invalidated, recovering, toServer, link>>
        BY Zenon, <1>5, <2>4 DEF ProcessGrant
      <3> HIDE DEF req, c, old
      <3>2. toClient' \in [Client -> Seq(ClientMsg)]
        BY <3>1, <2>2, <2>3
      <3>3. granted' \in [Client -> Entry]
        BY Zenon, <3>1, <2>2 DEF Entry
      <3> QED
        BY Zenon, <1>5, <2>1, <3>1, <3>2, <3>3 DEF clientVars, lockVars, cacheVars
    <2>5. CASE link[c] # "up"
      <3>1. /\ granted' = [granted EXCEPT ![c] = NoEntry]
            /\ busy' = "no"
            /\ serving' \in BOOLEAN
            /\ UNCHANGED <<requested, toClient, invalidated, recovering, toServer, link>>
        BY Zenon, <1>5, <2>5 DEF ProcessGrant, ProcessFailed
      <3> QED
        BY Zenon, <1>5, <3>1, <2>2 DEF Entry, clientVars, lockVars, cacheVars
    <2> QED
      BY Zenon, <2>4, <2>5
  <1> USE DEF netVars, serverVars, cacheVars
  <1>6. ASSUME NEW c \in Client, NEW m \in UseMode, LockCall(c, m), UNCHANGED serverVars
        PROVE  TypeOK'
    <2> DEFINE new == [lock[c] EXCEPT !.have = TRUE, !.waiters[m] = @ + 1]
    <2>1. new \in Lock
      BY Zenon, <1>6, CountType
    <2>2. lock' = [lock EXCEPT ![c] = new]
      BY Zenon, <1>6 DEF LockCall
    <2> HIDE DEF new
    <2>3. lock' \in [Client -> Lock]
      BY Zenon, <2>1, <2>2
    <2> QED
      BY Zenon, <1>6, <2>3 DEF LockCall
  <1>7. ASSUME NEW c \in Client, NEW m \in UseMode, LockAcquire(c, m), UNCHANGED serverVars
        PROVE  TypeOK'
    <2> DEFINE new == [lock[c] EXCEPT !.waiters[m] = @ - 1, !.users[m] = @ + 1]
    <2>1. new \in Lock
      BY Zenon, <1>7, CountType DEF LockAcquire
    <2>2. lock' = [lock EXCEPT ![c] = new]
      BY Zenon, <1>7 DEF LockAcquire
    <2> HIDE DEF new
    <2> QED
      BY <1>7, <2>1, <2>2 DEF LockAcquire
  <1>8. ASSUME NEW c \in Client, NEW m \in UseMode, LockSend(c, m), UNCHANGED serverVars
        PROVE  TypeOK'
    <2> DEFINE new == [lock[c] EXCEPT !.pend = TRUE]
    <2>1. Sent(c, RequestMsg(c, m)) \subseteq ServerMsg
      BY Zenon, SentType DEF UseMode
    <2>2. new \in Lock
      BY Zenon, UpdateType
    <2>3. lock' = [lock EXCEPT ![c] = new]
      BY Zenon, <1>8 DEF LockSend
    <2> HIDE DEF new
    <2>4. toServer' \subseteq ServerMsg
      BY Zenon, <1>8, <2>1 DEF LockSend
    <2>5. lock' \in [Client -> Lock]
      BY Zenon, <2>2, <2>3
    <2> QED
      BY Zenon, <1>8, <2>4, <2>5 DEF LockSend
  <1>9. ASSUME NEW c \in Client, NEW m \in UseMode, LockGiveUp(c, m), UNCHANGED serverVars
        PROVE  TypeOK'
    <2> DEFINE new == [lock[c] EXCEPT !.waiters[m] = @ - 1]
    <2>1. new \in Lock
      BY Zenon, <1>9, CountType DEF LockGiveUp
    <2>2. lock' = [lock EXCEPT ![c] = put_lock(new)]
      BY Zenon, <1>9 DEF LockGiveUp
    <2> HIDE DEF new
    <2> QED
      BY <1>9, <2>1, <2>2, PutLockType DEF LockGiveUp
  <1>10. ASSUME NEW c \in Client, NEW m \in UseMode, scoutfs_unlock(c, m), UNCHANGED serverVars
        PROVE  TypeOK'
    <2> DEFINE new == [lock[c] EXCEPT !.users[m] = @ - 1,
                                      !.wrote = @ \/ lock_mode_can_write(m)]
    <2>1. new \in Lock
      BY Zenon, <1>10, CountType DEF scoutfs_unlock, lock_mode_can_write
    <2>2. lock' = [lock EXCEPT ![c] = put_lock(new)]
      BY Zenon, <1>10 DEF scoutfs_unlock
    <2> HIDE DEF new
    <2> QED
      BY <1>10, <2>1, <2>2, PutLockType DEF scoutfs_unlock
  <1>11. ASSUME NEW c \in Client, ReadItems(c) \/ WriteItems(c) \/ InodeRefresh(c) \/ InodeEvict(c),
                UNCHANGED serverVars
         PROVE  TypeOK'
    <2>1. DirtyElsewhere(c) \in BOOLEAN
      BY Zenon DEF DirtyElsewhere
    <2>2. Fill(c) => cached' \in [Client -> BOOLEAN] /\ stale' \in [Client -> BOOLEAN]
      BY Zenon, <2>1 DEF Fill
    <2>3. CASE ReadItems(c)
      BY Zenon, <1>11, <2>2, <2>3 DEF ReadItems, lockVars
    <2>4. CASE WriteItems(c)
      BY Zenon, <1>11, <2>1, <2>4 DEF WriteItems, InodeState, lockVars
    <2>5. CASE InodeRefresh(c)
      BY Zenon, <1>11, <2>2, <2>5 DEF InodeRefresh, InodeState, lockVars
    <2>6. CASE InodeEvict(c)
      BY Zenon, <1>11, <2>6 DEF InodeEvict, InodeState, lockVars
    <2> QED
      BY Zenon, <1>11, <2>3, <2>4, <2>5, <2>6
  <1>12. ASSUME NEW c \in Client, GrantResponse(c), UNCHANGED serverVars
         PROVE  TypeOK'
    <2> DEFINE msg == Head(toClient[c])
               refresh == ~ lock_mode_can_read(msg.old) /\ lock_mode_can_read(msg.new)
    <2>1. msg \in ClientMsg /\ Tail(toClient[c]) \in Seq(ClientMsg)
      BY <1>12 DEF GrantResponse
    <2>2. refresh \in BOOLEAN
      BY Zenon DEF lock_mode_can_read
    <2>3. [lock[c] EXCEPT !.pend = FALSE, !.mode = msg.new, !.gen = @ \/ refresh] \in Lock
      <3> HIDE DEF msg, refresh
      <3> QED
        BY Zenon, <2>1, <2>2, UpdateType DEF ClientMsg
    <2>4. lock' \in [Client -> Lock]
      BY Zenon, <1>12, <2>3, PutLockType DEF GrantResponse
    <2>5. toClient' \in [Client -> Seq(ClientMsg)]
      BY Zenon, <1>12, <2>1 DEF GrantResponse
    <2>6. inode' \in [Client -> InodeState]
      BY Zenon, <1>12 DEF GrantResponse, RefreshGen, InodeState
    <2> QED
      BY Zenon, <1>12, <2>4, <2>5, <2>6 DEF GrantResponse
  <1>13. ASSUME NEW c \in Client, InvalidateRequest(c), UNCHANGED serverVars
         PROVE  TypeOK'
    <2> DEFINE msg == Head(toClient[c])
               inv == [old |-> msg.old, new |-> msg.new, live |-> msg.live]
    <2>1. msg \in ClientMsg /\ Tail(toClient[c]) \in Seq(ClientMsg)
      BY <1>13 DEF InvalidateRequest
    <2>2. inv \in Inval
      BY Zenon, <2>1 DEF Inval, ClientMsg
    <2>3. Sent(c, ResponseMsg(c, msg.new, msg.live)) \subseteq ServerMsg
      BY Zenon, <2>1, SentType DEF ClientMsg
    <2>4. Append(lock[c].invs, inv) \in Seq(Inval)
      BY <2>2 DEF Lock
    <2>5. lock' \in [Client -> Lock]
      <3> DEFINE new == [lock[c] EXCEPT !.invs = Append(lock[c].invs, inv)]
      <3>1. new \in Lock
        BY Zenon, <2>4, UpdateType
      <3>2. lock' = [lock EXCEPT ![c] = new] \/ lock' = lock
        BY Zenon, <1>13 DEF InvalidateRequest
      <3> HIDE DEF new
      <3> QED
        BY Zenon, <3>1, <3>2
    <2>6. toServer' \subseteq ServerMsg
      BY Zenon, <1>13, <2>3 DEF InvalidateRequest
    <2> QED
      BY Zenon, <1>13, <2>1, <2>5, <2>6 DEF InvalidateRequest
  <1>14. ASSUME NEW c \in Client, InvalidateStart(c), UNCHANGED serverVars
         PROVE  TypeOK'
    <2> DEFINE inv == Head(lock[c].invs)
               new == [lock[c] EXCEPT !.inving = lock[c].mode, !.mode = inv.new]
    <2>1. inv \in Inval
      BY <1>14 DEF InvalidateStart, Lock
    <2>2. inv.new \in Mode
      BY Zenon, <2>1 DEF Inval
    <2>3. new \in Lock
      BY Zenon, <2>2, UpdateType
    <2>4. lock' = [lock EXCEPT ![c] = new]
      BY Zenon, <1>14 DEF InvalidateStart
    <2> HIDE DEF new
    <2> QED
      BY <1>14, <2>3, <2>4 DEF InvalidateStart
  <1>15. ASSUME NEW c \in Client, InvalidateRespond(c), UNCHANGED serverVars
         PROVE  TypeOK'
    <2> DEFINE inv == Head(lock[c].invs)
    <2>1. toServer' \subseteq ServerMsg
      <3>1. lock[c].invs # <<>>
        BY Zenon, <1>15 DEF InvalidateRespond, WorkerBusy
      <3>2. inv \in Inval
        BY <3>1 DEF Lock
      <3>3. Sent(c, ResponseMsg(c, inv.new, inv.live)) \subseteq ServerMsg
        BY Zenon, <3>2, SentType DEF Inval
      <3> QED
        BY Zenon, <1>15, <3>3 DEF InvalidateRespond
    <2>2. cached' \in [Client -> BOOLEAN] /\ stale' \in [Client -> BOOLEAN]
      BY Zenon, <1>15 DEF InvalidateRespond
    <2> QED
      BY Zenon, <1>15, <2>1, <2>2 DEF InvalidateRespond
  <1>16. ASSUME NEW c \in Client, InvalidateFinish(c), UNCHANGED serverVars
         PROVE  TypeOK'
    <2> DEFINE new == [lock[c] EXCEPT !.inving = "null", !.invs = Tail(lock[c].invs)]
    <2>1. lock[c].invs # <<>> /\ lock[c].invs \in Seq(Inval)
      BY Zenon, <1>16 DEF InvalidateFinish, WorkerBusy, Lock
    <2>2. Tail(lock[c].invs) \in Seq(Inval)
      BY <2>1
    <2>3. new \in Lock
      BY Zenon, <2>2, UpdateType
    <2>4. lock' = [lock EXCEPT ![c] = put_lock(new)]
      BY Zenon, <1>16 DEF InvalidateFinish
    <2> HIDE DEF new
    <2> QED
      BY Zenon, <1>16, <2>3, <2>4, PutLockType DEF InvalidateFinish
  <1>17. ASSUME NEW c \in Client, ShrinkScan(c), UNCHANGED serverVars
         PROVE  TypeOK'
    <2> DEFINE new == [lock[c] EXCEPT !.pend = TRUE, !.shrink = TRUE]
    <2>1. new \in Lock
      BY Zenon, UpdateType
    <2>2. lock' = [lock EXCEPT ![c] = new]
      BY Zenon, <1>17 DEF ShrinkScan
    <2> HIDE DEF new
    <2> QED
      BY <1>17, <2>1, <2>2 DEF ShrinkScan
  <1>18. ASSUME NEW c \in Client, ShrinkSend(c), UNCHANGED serverVars
         PROVE  TypeOK'
    <2> DEFINE new  == [lock[c] EXCEPT !.shrink = FALSE]
               fail == [lock[c] EXCEPT !.shrink = FALSE, !.pend = FALSE]
    <2>1. new \in Lock /\ fail \in Lock
      BY Zenon, UpdateType
    <2>2. \/ lock' = [lock EXCEPT ![c] = new]
          \/ lock' = [lock EXCEPT ![c] = put_lock(fail)]
      BY Zenon, <1>18 DEF ShrinkSend
    <2> HIDE DEF new, fail
    <2>3. lock' \in [Client -> Lock]
      BY Zenon, <2>1, <2>2, PutLockType
    <2>4. Sent(c, RequestMsg(c, "null")) \subseteq ServerMsg
      BY Zenon, SentType DEF Mode
    <2>5. toServer' \subseteq ServerMsg
      BY Zenon, <1>18, <2>4 DEF ShrinkSend
    <2> QED
      BY Zenon, <1>18, <2>3, <2>5 DEF ShrinkSend
  <1>19. ASSUME NEW c \in Client, TransCommit(c) \/ ShutdownTrans(c), UNCHANGED serverVars
         PROVE  TypeOK'
    <2> DEFINE new == [lock[c] EXCEPT !.wrote = FALSE]
    <2>1. new \in Lock
      BY Zenon, UpdateType
    <2>2. lock' = [lock EXCEPT ![c] = new]
      BY Zenon, <1>19 DEF TransCommit, ShutdownTrans
    <2> HIDE DEF new
    <2>3. lock' \in [Client -> Lock]
      BY Zenon, <2>1, <2>2
    <2> QED
      BY Zenon, <1>19, <2>3 DEF TransCommit, ShutdownTrans
  <1>20. ASSUME NEW c \in Client, LockShutdown(c) \/ LoseClient(c), UNCHANGED serverVars
         PROVE  TypeOK'
    <2>1. CASE LockShutdown(c)
      BY Zenon, <1>20, <2>1 DEF LockShutdown
    <2>2. CASE LoseClient(c)
      <3>1. toServer' \subseteq ServerMsg
        BY Zenon, <2>2 DEF LoseClient
      <3>2. toClient' \in [Client -> Seq(ClientMsg)]
        BY <2>2 DEF LoseClient
      <3> QED
        BY Zenon, <1>20, <2>2, <3>1, <3>2 DEF LoseClient, lockVars
    <2> QED
      BY Zenon, <1>20, <2>1, <2>2
  <1>21. ASSUME NEW c \in Client, NEW how \in {"gone", "fenced"}, Vanish(c, how),
                UNCHANGED serverVars
         PROVE  TypeOK'
    <2>1. NoLock \in Lock
      BY SMTT(60) DEF NoLock, Lock, Nobody, Mode
    <2> HIDE DEF NoLock
    <2> QED
      BY <1>21, <2>1 DEF Vanish, InodeState
  <1>22. ASSUME NEW c \in Client, ServerFarewell(c)
         PROVE  ServerTypeOK' /\ NetTypeOK'
    BY Zenon, <1>22, WithoutClientType DEF ServerFarewell, Entry
  <1>23. ASSUME NEW c \in Client, ReclaimFarewell(c) \/ ReclaimFenced(c)
         PROVE  TypeOK'
    BY Zenon, <1>22, <1>23 DEF ReclaimFarewell, ReclaimFenced, clientVars, lockVars
  <1>24. CASE UNCHANGED vars
    BY Zenon, <1>24 DEF vars, clientVars, lockVars
  <1> HIDE DEF TypeOK
  <1>25. ASSUME NEW c \in Client, CallerStep(c), UNCHANGED serverVars
         PROVE  TypeOK'
    BY Zenon, <1>25, <1>6, <1>7, <1>8, <1>9, <1>10, <1>11, CallModesAssumption DEF CallerStep
  <1>26. ASSUME NEW c \in Client, BackgroundStep(c), UNCHANGED serverVars
         PROVE  TypeOK'
    BY Zenon, <1>26, <1>12, <1>13, <1>14, <1>15, <1>16, <1>17, <1>18, <1>19 DEF BackgroundStep
  <1>27. ASSUME NEW c \in Client, LeaveStep(c), UNCHANGED serverVars
         PROVE  TypeOK'
    BY Zenon, <1>27, <1>19, <1>20, <1>21 DEF LeaveStep, FarewellResponse, FenceClient
  <1> QED
    BY Zenon, <1>1, <1>2, <1>3, <1>4, <1>5, <1>23, <1>24, <1>25, <1>26, <1>27
    DEF Next, ServerStep

-----------------------------------------------------------------------------
(* What put_lock() keeps                                                   *)

\* Freeing an idle lock with the null mode changes nothing that anyone looks at.
LEMMA PutLockKeeps ==
  ASSUME NEW l \in Lock
  PROVE  /\ put_lock(l).mode = l.mode
         /\ put_lock(l).pend = l.pend
         /\ put_lock(l).waiters = l.waiters
         /\ put_lock(l).users = l.users
         /\ put_lock(l).invs = l.invs
         /\ put_lock(l).shrink => l.shrink
         /\ put_lock(l).have => l.have
         /\ l.have /\ ~ put_lock(l).have => put_lock(l) = NoLock
  BY Zenon DEF put_lock, lock_idle, NoLock, Lock

\* Changes of the counts of a lock change nothing else of it.
SameState(l, n) ==
    n.mode = l.mode /\ n.pend = l.pend /\ n.invs = l.invs /\ n.shrink = l.shrink

\* A caller that starts to wait.
LEMMA CallKeeps ==
  ASSUME NEW l \in Lock, NEW m \in UseMode
  PROVE  LET n == [l EXCEPT !.have = TRUE, !.waiters[m] = @ + 1]
         IN  n.have /\ SameState(l, n) /\ n.users = l.users
  BY Zenon DEF Lock, SameState

\* A waiting caller that becomes a user.
LEMMA AcquireKeeps ==
  ASSUME NEW l \in Lock, NEW m \in UseMode
  PROVE  LET n == [l EXCEPT !.waiters[m] = @ - 1, !.users[m] = @ + 1]
         IN  n.have = l.have /\ SameState(l, n) /\ n.users = [l.users EXCEPT ![m] = @ + 1]
  BY Zenon DEF Lock, SameState

\* A waiting caller that leaves.
LEMMA GiveUpKeeps ==
  ASSUME NEW l \in Lock, NEW m \in UseMode
  PROVE  LET n == [l EXCEPT !.waiters[m] = @ - 1]
         IN  n.have = l.have /\ SameState(l, n) /\ n.users = l.users
  BY Zenon DEF Lock, SameState

\* A user that unlocks.
LEMMA UnlockKeeps ==
  ASSUME NEW l \in Lock, NEW m \in UseMode
  PROVE  LET n == [l EXCEPT !.users[m] = @ - 1, !.wrote = @ \/ lock_mode_can_write(m)]
         IN  n.have = l.have /\ SameState(l, n) /\ n.users = [l.users EXCEPT ![m] = @ - 1]
  BY Zenon DEF Lock, SameState

\* Changes of the flags, the mode and the invalidations keep the counts.
SameCounts(l, n) == n.have = l.have /\ n.users = l.users /\ n.waiters = l.waiters

\* The changes of request_pending, the shrink list and the dirty transaction.
LEMMA FlagKeeps ==
  ASSUME NEW l \in Lock
  PROVE  /\ LET n == [l EXCEPT !.pend = TRUE] IN
               n.pend /\ n.mode = l.mode /\ n.invs = l.invs /\ n.shrink = l.shrink /\ SameCounts(l, n)
         /\ LET n == [l EXCEPT !.pend = TRUE, !.shrink = TRUE] IN
               n.pend /\ n.mode = l.mode /\ n.invs = l.invs /\ n.shrink /\ SameCounts(l, n)
         /\ LET n == [l EXCEPT !.shrink = FALSE, !.pend = FALSE] IN
               ~ n.pend /\ n.mode = l.mode /\ n.invs = l.invs /\ ~ n.shrink /\ SameCounts(l, n)
         /\ LET n == [l EXCEPT !.shrink = FALSE] IN
               n.pend = l.pend /\ n.mode = l.mode /\ n.invs = l.invs /\ ~ n.shrink /\ SameCounts(l, n)
         /\ LET n == [l EXCEPT !.wrote = FALSE] IN SameState(l, n) /\ SameCounts(l, n)
  BY Zenon DEF Lock, SameState, SameCounts

\* The mode that the invalidation work sets.
LEMMA StartKeeps ==
  ASSUME NEW l \in Lock, NEW m \in Mode
  PROVE  LET n == [l EXCEPT !.inving = l.mode, !.mode = m] IN
            n.pend = l.pend /\ n.mode = m /\ n.invs = l.invs /\ n.shrink = l.shrink /\ SameCounts(l, n)
  BY Zenon DEF Lock, SameCounts

\* Invalidations that are queued on the lock or taken off.
LEMMA InvsKeeps ==
  ASSUME NEW l \in Lock, NEW s \in Seq(Inval)
  PROVE  /\ LET n == [l EXCEPT !.invs = s] IN
               n.pend = l.pend /\ n.mode = l.mode /\ n.invs = s /\ n.shrink = l.shrink /\ SameCounts(l, n)
         /\ LET n == [l EXCEPT !.inving = "null", !.invs = s] IN
               n.pend = l.pend /\ n.mode = l.mode /\ n.invs = s /\ n.shrink = l.shrink /\ SameCounts(l, n)
  BY Zenon DEF Lock, SameCounts

\* What callers change of a lock.
CallerChange(l, n) ==
    /\ n.mode = l.mode
    /\ n.pend = l.pend
    /\ n.invs = l.invs
    /\ n.shrink => l.shrink
    /\ n.have \/ n = NoLock
    /\ \A k \in UseMode : n.users[k] > 0 => l.users[k] > 0 \/ lock_modes_match(l.mode, k)

CallerAction(c, m) ==
    LockCall(c, m) \/ LockAcquire(c, m) \/ LockGiveUp(c, m) \/ scoutfs_unlock(c, m)

\* Callers only change counts, or free the lock.
LEMMA CallerEffect ==
  ASSUME TypeOK, NEW c \in Client, NEW m \in UseMode, CallerAction(c, m)
  PROVE  /\ lock' \in [Client -> Lock]
         /\ \A d \in Client \ {c} : lock'[d] = lock[d]
         /\ lock[c].have \/ lock[c] = NoLock => CallerChange(lock[c], lock'[c])
         /\ lock'[c].invs = lock[c].invs
         /\ \/ mount[c] = "mounted"
            \/ lock[c].users[m] > 0
            \/ lock[c].waiters[m] > 0
         /\ UNCHANGED <<worker, mount, netVars>>
  <1> DEFINE l       == lock[c]
             call    == [l EXCEPT !.have = TRUE, !.waiters[m] = @ + 1]
             acquire == [l EXCEPT !.waiters[m] = @ - 1, !.users[m] = @ + 1]
             giveup  == [l EXCEPT !.waiters[m] = @ - 1]
             unlock  == [l EXCEPT !.users[m] = @ - 1, !.wrote = @ \/ lock_mode_can_write(m)]
  <1> USE DEF TypeOK, ClientTypeOK
  <1>0. l \in Lock /\ lock \in [Client -> Lock]
    BY Zenon
  <1>1. l.users \in [UseMode -> Nat] /\ l.waiters \in [UseMode -> Nat]
    BY Zenon, <1>0 DEF Lock
  <1>2. lock[c].users[m] > 0 \/ lock[c].waiters[m] > 0 => lock[c] # NoLock
    BY DEF NoLock, Nobody
  <1>3. CASE LockCall(c, m)
    <2>1. lock' = [lock EXCEPT ![c] = call] /\ call \in Lock
      BY Zenon, <1>0, <1>3, CountType DEF LockCall
    <2>2. call.have /\ SameState(l, call) /\ call.users = l.users
      BY Zenon, <1>0, CallKeeps
    <2> HIDE DEF call, l
    <2>3. CallerChange(l, call)
      BY Zenon, <2>2 DEF CallerChange, SameState
    <2> QED
      BY <1>0, <1>3, <2>1, <2>2, <2>3 DEF LockCall, l, netVars
  <1>4. CASE LockAcquire(c, m)
    <2>1. lock' = [lock EXCEPT ![c] = acquire] /\ acquire \in Lock
      BY Zenon, <1>0, <1>4, CountType DEF LockAcquire
    <2>2. /\ acquire.have = l.have /\ SameState(l, acquire)
          /\ acquire.users = [l.users EXCEPT ![m] = @ + 1]
      BY Zenon, <1>0, AcquireKeeps
    <2>3. lock_modes_match(l.mode, m) /\ l.waiters[m] > 0
      BY Zenon, <1>4 DEF LockAcquire
    <2> HIDE DEF acquire, l
    <2>4. l.have => CallerChange(l, acquire)
      BY Zenon, <1>1, <2>2, <2>3 DEF CallerChange, SameState
    <2> QED
      BY <1>0, <1>2, <1>4, <2>1, <2>2, <2>3, <2>4 DEF LockAcquire, l, netVars
  <1>5. CASE LockGiveUp(c, m)
    <2>1. lock' = [lock EXCEPT ![c] = put_lock(giveup)] /\ giveup \in Lock
      BY Zenon, <1>0, <1>5, CountType DEF LockGiveUp
    <2>2. giveup.have = l.have /\ SameState(l, giveup) /\ giveup.users = l.users
      BY Zenon, <1>0, GiveUpKeeps
    <2>3. l.waiters[m] > 0
      BY Zenon, <1>5 DEF LockGiveUp
    <2> HIDE DEF giveup, l
    <2>4. put_lock(giveup) \in Lock
      BY Zenon, <2>1, PutLockType
    <2>5. put_lock(giveup).invs = l.invs
      BY Zenon, <2>1, <2>2, PutLockKeeps DEF SameState
    <2>6. l.have => CallerChange(l, put_lock(giveup))
      BY Zenon, <2>1, <2>2, PutLockKeeps DEF CallerChange, SameState
    <2> QED
      BY ZenonT(60), <1>0, <1>2, <1>5, <2>1, <2>3, <2>4, <2>5, <2>6 DEF LockGiveUp, l, netVars
  <1>6. CASE scoutfs_unlock(c, m)
    <2>1. lock' = [lock EXCEPT ![c] = put_lock(unlock)] /\ unlock \in Lock
      <3>1. lock_mode_can_write(m) \in BOOLEAN
        BY DEF lock_mode_can_write
      <3>2. unlock \in Lock
        BY Zenon, <1>0, <1>6, <3>1, CountType DEF scoutfs_unlock
      <3>3. lock' = [lock EXCEPT ![c] = put_lock(unlock)]
        BY Zenon, <1>6 DEF scoutfs_unlock
      <3> QED
        BY Zenon, <3>2, <3>3
    <2>2. /\ unlock.have = l.have /\ SameState(l, unlock)
          /\ unlock.users = [l.users EXCEPT ![m] = @ - 1]
      BY Zenon, <1>0, UnlockKeeps
    <2>3. l.users[m] > 0
      BY Zenon, <1>6 DEF scoutfs_unlock
    <2> HIDE DEF unlock, l
    <2>4. put_lock(unlock) \in Lock
      BY Zenon, <2>1, PutLockType
    <2>5. put_lock(unlock).invs = l.invs
      BY Zenon, <2>1, <2>2, PutLockKeeps DEF SameState
    <2>6. \A k \in UseMode : put_lock(unlock).users[k] > 0 => l.users[k] > 0
      BY <1>1, <2>1, <2>2, PutLockKeeps
    <2>7. l.have => CallerChange(l, put_lock(unlock))
      BY Zenon, <2>1, <2>2, <2>6, PutLockKeeps DEF CallerChange, SameState
    <2> QED
      BY ZenonT(60), <1>0, <1>2, <1>6, <2>1, <2>3, <2>4, <2>5, <2>7 DEF scoutfs_unlock, l, netVars
  <1> QED
    BY Zenon, <1>3, <1>4, <1>5, <1>6 DEF CallerAction

\* A worker that has begun with an invalidation finds it on the list to the end.
LEMMA WorkerStep == TypeOK /\ WorkerBusy /\ [Next]_vars => WorkerBusy'
  <1> SUFFICES ASSUME TypeOK, WorkerBusy, [Next]_vars
               PROVE  WorkerBusy'
    BY Zenon
  <1>0. /\ lock \in [Client -> Lock]
        /\ worker \in [Client -> {"idle", "invalidate", "finish"}]
        /\ toClient \in [Client -> Seq(ClientMsg)]
    BY Zenon DEF TypeOK, ClientTypeOK, NetTypeOK
  <1> USE <1>0
  <1>1. ASSUME UNCHANGED <<lock, worker>>
        PROVE  WorkerBusy'
    BY Zenon, <1>1 DEF WorkerBusy
  <1>2. ASSUME NEW c \in Client, NEW new \in Lock, NEW w,
               lock' = [lock EXCEPT ![c] = new],
               worker' = [worker EXCEPT ![c] = w],
               w # "idle" => new.invs # <<>>
        PROVE  WorkerBusy'
    BY Zenon, <1>2 DEF WorkerBusy
  <1>3. ASSUME NEW c \in Client, NEW new \in Lock, lock' = [lock EXCEPT ![c] = new],
               new.invs = lock[c].invs, UNCHANGED worker
        PROVE  WorkerBusy'
    BY Zenon, <1>3 DEF WorkerBusy
  <1>4. ASSUME NEW c \in Client, NEW m \in UseMode, CallerAction(c, m)
        PROVE  WorkerBusy'
    <2>1. /\ \A d \in Client : lock'[d].invs = lock[d].invs
          /\ worker' = worker
      BY Zenon, <1>4, CallerEffect
    <2> QED
      BY Zenon, <2>1 DEF WorkerBusy
  <1>5. ASSUME NEW c \in Client,
               \/ \E m \in UseMode : LockSend(c, m)
               \/ ShrinkScan(c) \/ TransCommit(c) \/ ShutdownTrans(c)
        PROVE  WorkerBusy'
    <2> DEFINE send == [lock[c] EXCEPT !.pend = TRUE]
               scan == [lock[c] EXCEPT !.pend = TRUE, !.shrink = TRUE]
               done == [lock[c] EXCEPT !.wrote = FALSE]
    <2>1. /\ send \in Lock /\ send.invs = lock[c].invs
          /\ scan \in Lock /\ scan.invs = lock[c].invs
          /\ done \in Lock /\ done.invs = lock[c].invs
      BY ZenonT(60), UpdateType, FlagKeeps DEF SameState
    <2>2. \E n \in {send, scan, done} : lock' = [lock EXCEPT ![c] = n]
      BY Zenon, <1>5 DEF LockSend, ShrinkScan, TransCommit, ShutdownTrans
    <2>3. UNCHANGED worker
      BY Zenon, <1>5 DEF LockSend, ShrinkScan, TransCommit, ShutdownTrans
    <2> HIDE DEF send, scan, done
    <2> QED
      BY Zenon, <1>3, <2>1, <2>2, <2>3
  <1>6. ASSUME NEW c \in Client, GrantResponse(c)
        PROVE  WorkerBusy'
    <2> DEFINE msg == Head(toClient[c])
               refresh == ~ lock_mode_can_read(msg.old) /\ lock_mode_can_read(msg.new)
               new == [lock[c] EXCEPT !.pend = FALSE, !.mode = msg.new, !.gen = @ \/ refresh]
    <2>1. new \in Lock
      <3>1. msg \in ClientMsg
        BY <1>6 DEF GrantResponse
      <3>2. refresh \in BOOLEAN
        BY Zenon DEF lock_mode_can_read
      <3> HIDE DEF msg, refresh
      <3> QED
        BY Zenon, <3>1, <3>2, UpdateType DEF ClientMsg
    <2>2. new.invs = lock[c].invs
      BY DEF Lock
    <2>3. lock' = [lock EXCEPT ![c] = put_lock(new)] /\ UNCHANGED worker
      BY Zenon, <1>6 DEF GrantResponse
    <2> HIDE DEF new
    <2> QED
      BY Zenon, <1>3, <2>1, <2>2, <2>3, PutLockType, PutLockKeeps
  <1>7. ASSUME NEW c \in Client, ShrinkSend(c)
        PROVE  WorkerBusy'
    <2> DEFINE new  == [lock[c] EXCEPT !.shrink = FALSE]
               fail == [lock[c] EXCEPT !.shrink = FALSE, !.pend = FALSE]
    <2>1. new \in Lock /\ fail \in Lock /\ new.invs = lock[c].invs /\ fail.invs = lock[c].invs
      BY ZenonT(60), UpdateType, FlagKeeps
    <2>2. \/ lock' = [lock EXCEPT ![c] = new]
          \/ lock' = [lock EXCEPT ![c] = put_lock(fail)]
      BY Zenon, <1>7 DEF ShrinkSend
    <2>3. UNCHANGED worker
      BY Zenon, <1>7 DEF ShrinkSend
    <2> HIDE DEF new, fail
    <2>4. put_lock(fail) \in Lock /\ put_lock(fail).invs = lock[c].invs
      BY Zenon, <2>1, PutLockType, PutLockKeeps
    <2> QED
      BY Zenon, <1>3, <2>1, <2>2, <2>3, <2>4
  <1>8. ASSUME NEW c \in Client, InvalidateRequest(c)
        PROVE  WorkerBusy'
    <2> DEFINE msg == Head(toClient[c])
               inv == [old |-> msg.old, new |-> msg.new, live |-> msg.live]
               new == [lock[c] EXCEPT !.invs = Append(lock[c].invs, inv)]
    <2>1. lock[c] \in Lock /\ lock[c].invs \in Seq(Inval)
      BY Zenon DEF Lock
    <2>2. msg \in ClientMsg
      BY <1>8 DEF InvalidateRequest
    <2>3. inv \in Inval
      BY Zenon, <2>2 DEF Inval, ClientMsg
    <2>4. Append(lock[c].invs, inv) \in Seq(Inval) /\ Append(lock[c].invs, inv) # <<>>
      <3> HIDE DEF inv
      <3> QED
        BY <2>1, <2>3, AppendProperties
    <2>5. new \in Lock /\ new.invs # <<>>
      BY Zenon, <2>1, <2>4, InvsKeeps, UpdateType
    <2>6. lock' = lock \/ lock' = [lock EXCEPT ![c] = new]
      BY Zenon, <1>8 DEF InvalidateRequest
    <2>7. worker' = worker
      BY Zenon, <1>8 DEF InvalidateRequest
    <2> HIDE DEF new
    <2> QED
      BY Zenon, <2>5, <2>6, <2>7 DEF WorkerBusy
  <1>9. ASSUME NEW c \in Client, InvalidateStart(c)
        PROVE  WorkerBusy'
    <2> DEFINE new == [lock[c] EXCEPT !.inving = lock[c].mode, !.mode = Head(lock[c].invs).new]
    <2>1. Head(lock[c].invs).new \in Mode
      <3>1. lock[c].invs \in Seq(Inval) /\ lock[c].invs # <<>>
        BY Zenon, <1>9 DEF InvalidateStart, Lock
      <3>2. Head(lock[c].invs) \in Inval
        BY <3>1
      <3> QED
        BY Zenon, <3>2 DEF Inval
    <2>2. new \in Lock /\ new.invs = lock[c].invs
      BY Zenon, <2>1, UpdateType, StartKeeps
    <2>3. lock' = [lock EXCEPT ![c] = new] /\ worker' = [worker EXCEPT ![c] = "invalidate"]
      BY Zenon, <1>9 DEF InvalidateStart
    <2>4. lock[c].invs # <<>>
      BY Zenon, <1>9 DEF InvalidateStart
    <2> HIDE DEF new
    <2> QED
      BY Zenon, <1>2, <2>2, <2>3, <2>4
  <1>10. ASSUME NEW c \in Client, InvalidateRespond(c)
         PROVE  WorkerBusy'
    <2>1. lock' = lock /\ worker' = [worker EXCEPT ![c] = "finish"] /\ lock[c].invs # <<>>
      BY Zenon, <1>10 DEF InvalidateRespond, WorkerBusy
    <2> QED
      BY Zenon, <2>1 DEF WorkerBusy
  <1>11. ASSUME NEW c \in Client, InvalidateFinish(c)
         PROVE  WorkerBusy'
    BY Zenon, <1>11 DEF InvalidateFinish, WorkerBusy
  <1>12. ASSUME NEW c \in Client, NEW how, Vanish(c, how)
         PROVE  WorkerBusy'
    BY Zenon, <1>12 DEF Vanish, WorkerBusy
  <1> HIDE <1>0
  <1>13. ASSUME NEW c \in Client, CallerStep(c)
         PROVE  WorkerBusy'
    BY Zenon, <1>13, <1>1, <1>4, <1>5, CallModesAssumption
    DEF CallerStep, CallerAction, ReadItems, WriteItems, InodeRefresh, InodeEvict, lockVars
  <1>14. ASSUME NEW c \in Client, BackgroundStep(c)
         PROVE  WorkerBusy'
    BY Zenon, <1>14, <1>5, <1>6, <1>7, <1>8, <1>9, <1>10, <1>11 DEF BackgroundStep
  <1>15. ASSUME NEW c \in Client, LeaveStep(c)
         PROVE  WorkerBusy'
    BY Zenon, <1>15, <1>1, <1>5, <1>12
    DEF LeaveStep, LockShutdown, LoseClient, FarewellResponse, FenceClient, lockVars
  <1>16. ASSUME NEW c \in Client, ReclaimFarewell(c) \/ ReclaimFenced(c)
         PROVE  WorkerBusy'
    BY Zenon, <1>16, <1>1 DEF ReclaimFarewell, ReclaimFenced, clientVars, lockVars
  <1>17. CASE UNCHANGED clientVars
    BY Zenon, <1>1, <1>17 DEF clientVars, lockVars
  <1> QED
    BY Zenon, <1>13, <1>14, <1>15, <1>16, <1>17 DEF Next, vars

\* Initially the types are right.
LEMMA TypeInit == Init => TypeOK /\ WorkerBusy
  <1>1. NoLock \in Lock
    BY DEF NoLock, Lock, Nobody, Mode
  <1> QED
    BY <1>1 DEF Init, ServerInit, NetInit, ClientInit, TypeOK, ServerTypeOK, NetTypeOK,
                ClientTypeOK, WorkerBusy, Entry, InodeState

\* The lock server, its clients and their messages always have the right types.
THEOREM TypeCorrect == Spec => []TypeOK
  <1>1. Init => TypeOK /\ WorkerBusy
    BY Zenon, TypeInit
  <1>2. TypeOK /\ WorkerBusy /\ [Next]_vars => (TypeOK /\ WorkerBusy)'
    BY Zenon, TypeStep, WorkerStep
  <1> QED
    BY <1>1, <1>2, PTL DEF Spec

-----------------------------------------------------------------------------
(* Modes                                                                   *)

\* A mode that is covered excludes less.
LEMMA CoveredCompatible ==
  \A a, b, x \in Entry : Covers(a, x) /\ Compatible(a, b) => Compatible(x, b) /\ Compatible(b, x)
  BY ZenonT(60) DEF Covers, Compatible, Entry, Mode, NoEntry

\* Exclusion of modes is symmetric.
LEMMA CompatibleSym == \A a, b \in Entry : Compatible(a, b) <=> Compatible(b, a)
  BY Zenon DEF Compatible

\* What covers a covering mode covers the covered one.
LEMMA CoversTrans == \A a, b, x \in Entry : Covers(a, b) /\ Covers(b, x) => Covers(a, x)
  BY DEF Covers, Entry, Mode, NoEntry

\* What the server knows of a client is an entry.
LEMMA RecordType == TypeOK => \A c \in Client : Record(c) \in Entry /\ lock[c].mode \in Mode
  BY Zenon DEF TypeOK, ServerTypeOK, ClientTypeOK, Record, Lock

-----------------------------------------------------------------------------
(* The invariant of one mount, and steps that leave it alone               *)

LocalInv(c) ==
    /\ lock_counts_match(lock[c].mode, lock[c].users)
    /\ NoLateCallers(c)
    /\ IsMounted(c) => MountedInv(c)

Exclusion ==
    \A c, d \in Client : IsMounted(c) /\ IsMounted(d) /\ c # d => Exclude(c, d)

\* The invariant is that of every mount and the exclusion between mounts.
LEMMA LockInvParts ==
  LockInv <=> WorkerBusy /\ Exclusion /\ \A c \in Client : LocalInv(c)
  BY Zenon DEF LockInv, Exclusion, LocalInv, UsersCovered

\* Nothing that the invariant of c looks at changes.
Frame(c) ==
    /\ lock'[c] = lock[c]
    /\ worker'[c] = worker[c]
    /\ mount'[c] = mount[c]
    /\ toClient'[c] = toClient[c]
    /\ link'[c] = link[c]
    /\ \A msg \in ServerMsg : msg.rid = c => (msg \in toServer' <=> msg \in toServer)
    /\ granted'[c] = granted[c]
    /\ invalidated'[c] = invalidated[c]
    /\ requested' = requested

\* A client that a step leaves alone has its messages where they were.
LEMMA FrameTokens ==
  ASSUME TypeOK, TypeOK', NEW c \in Client, Frame(c)
  PROVE  /\ RequestSent(c)' = RequestSent(c)
         /\ RequestQueued(c)' = RequestQueued(c)
         /\ GrantSent(c)' = GrantSent(c)
         /\ InvalSent(c)' = InvalSent(c)
         /\ FirstInval(c)' = FirstInval(c)
         /\ InvalQueued(c)' = InvalQueued(c)
         /\ InvalAnswered(c)' = InvalAnswered(c)
         /\ Record(c)' = Record(c)
         /\ Dropped(c)' = Dropped(c)
         /\ IsMounted(c)' = IsMounted(c)
  <1>1. toServer \subseteq ServerMsg /\ toServer' \subseteq ServerMsg
    BY Zenon DEF TypeOK, NetTypeOK
  <1> QED
    BY Zenon, <1>1 DEF Frame, RequestSent, RequestQueued, GrantSent, InvalSent, FirstInval, InvalQueued,
                InvalAnswered, Record, Dropped, IsMounted

\* A client that a step leaves alone keeps its invariant.
LEMMA FrameLocal ==
  ASSUME TypeOK, TypeOK', NEW c \in Client, LocalInv(c), Frame(c)
  PROVE  LocalInv(c)'
  <1>1. toServer \subseteq ServerMsg /\ toServer' \subseteq ServerMsg
    BY Zenon DEF TypeOK, NetTypeOK
  <1>2. lock_counts_match(lock[c].mode, lock[c].users)' /\ NoLateCallers(c)'
    BY Zenon, FrameTokens DEF Frame, LocalInv, NoLateCallers
  <1>3. ASSUME IsMounted(c) PROVE MountedInv(c)'
    <2> USE <1>3 DEF LocalInv, MountedInv, Frame
    <2>1. LockKept(c)'
      BY Zenon DEF LockKept
    <2>2. OneRequest(c)'
      BY <1>1, FrameTokens DEF OneRequest
    <2>3. OneInvalidation(c)'
      BY Zenon, <1>1, FrameTokens DEF OneInvalidation
    <2>4. GrantThenInval(c)' /\ OneList(c)'
      BY Zenon DEF GrantThenInval, OneList
    <2>5. InvalidationsCovered(c)'
      BY Zenon, <1>1, FrameTokens DEF InvalidationsCovered
    <2>6. GrantsCovered(c)'
      BY Zenon, FrameTokens DEF GrantsCovered
    <2>7. ModesCovered(c)'
      BY Zenon, FrameTokens DEF ModesCovered
    <2> QED
      BY Zenon, <2>1, <2>2, <2>3, <2>4, <2>5, <2>6, <2>7
  <1> QED
    BY Zenon, <1>2, <1>3, FrameTokens DEF LocalInv

\* Nobody may use, or is known to use, more than was known of it before.
LEMMA LowerExclusion ==
  ASSUME TypeOK, TypeOK', Exclusion,
         \A c \in Client : IsMounted(c)' =>
            /\ IsMounted(c)
            /\ Covers(Record(c), Record(c)')
            /\ Covers(Record(c), lock'[c].mode) \/ Covers(lock[c].mode, lock'[c].mode)
  PROVE  Exclusion'
  <1> SUFFICES ASSUME NEW c \in Client, NEW d \in Client, IsMounted(c)', IsMounted(d)', c # d
               PROVE  Exclude(c, d)'
    BY Zenon DEF Exclusion
  <1>1. Exclude(c, d) /\ Exclude(d, c)
    BY Zenon DEF Exclusion
  <1>2. /\ Record(c) \in Entry /\ Record(c)' \in Entry
        /\ Record(d) \in Entry /\ Record(d)' \in Entry
        /\ lock[c].mode \in Entry /\ lock'[c].mode \in Entry
        /\ lock[d].mode \in Entry /\ lock'[d].mode \in Entry
    <2>1. \A e \in Client : Record(e) \in Entry /\ lock[e].mode \in Mode
      BY Zenon, RecordType
    <2>2. \A e \in Client : Record(e)' \in Entry /\ lock'[e].mode \in Mode
      BY Zenon DEF TypeOK, ServerTypeOK, ClientTypeOK, Record, Lock
    <2> QED
      BY Zenon, <2>1, <2>2 DEF Entry
  <1> QED
    BY <1>1, <1>2, CoveredCompatible, CompatibleSym DEF Exclude

\* A step of one client that keeps its own invariant keeps everyone's.
LEMMA ClientStepInv ==
  ASSUME TypeOK, TypeOK', LockInv, WorkerBusy', NEW c \in Client, UNCHANGED serverVars,
         \A d \in Client \ {c} : Frame(d),
         LocalInv(c)',
         IsMounted(c)' =>
            IsMounted(c) /\ (Covers(Record(c), lock'[c].mode) \/ lock'[c].mode = lock[c].mode)
  PROVE  LockInv'
  <1>1. \A d \in Client : LocalInv(d)'
    BY Zenon, FrameLocal, LockInvParts
  <1>2. ASSUME NEW d \in Client, IsMounted(d)'
        PROVE  /\ IsMounted(d)
               /\ Covers(Record(d), Record(d)')
               /\ Covers(Record(d), lock'[d].mode) \/ Covers(lock[d].mode, lock'[d].mode)
    <2>1. Record(d)' = Record(d)
      BY Zenon DEF Record, serverVars
    <2>2. CASE d = c
      BY Zenon, <1>2, <2>1, <2>2 DEF Covers
    <2>3. CASE d # c
      BY Zenon, <1>2, <2>1, <2>3 DEF Covers, Frame, IsMounted
    <2> QED
      BY Zenon, <2>2, <2>3
  <1>3. Exclusion'
    BY Zenon, <1>2, LowerExclusion, LockInvParts
  <1>4. LockInv' <=> WorkerBusy' /\ Exclusion' /\ \A d \in Client : LocalInv(d)'
    BY Zenon DEF LockInv, Exclusion, LocalInv, UsersCovered
  <1> QED
    BY Zenon, <1>1, <1>3, <1>4

\* The invariant of a mount that begins to unmount or is gone.
LEMMA LeftLocal ==
  ASSUME NEW c \in Client, ~ IsMounted(c)', lock'[c].users = Nobody, lock'[c].waiters = Nobody
  PROVE  LocalInv(c)'
  BY DEF LocalInv, lock_counts_match, NoLateCallers, Nobody

\* The other clients' part of a step that changes only one client's state.
LEMMA OthersFrame ==
  ASSUME TypeOK, NEW c \in Client, UNCHANGED serverVars,
         \A d \in Client \ {c} : /\ lock'[d] = lock[d]
                                 /\ worker'[d] = worker[d]
                                 /\ mount'[d] = mount[d]
                                 /\ toClient'[d] = toClient[d]
                                 /\ link'[d] = link[d],
         \A msg \in ServerMsg : msg.rid # c => (msg \in toServer' <=> msg \in toServer)
  PROVE  \A d \in Client \ {c} : Frame(d)
  BY Zenon DEF Frame, serverVars

\* A message that a client sends is its own.
LEMMA OwnMessages ==
  ASSUME NEW c \in Client, NEW m, NEW l,
         toServer' = toServer \/ toServer' = toServer \cup Sent(c, RequestMsg(c, m))
         \/ toServer' = toServer \cup Sent(c, ResponseMsg(c, m, l))
  PROVE  \A msg \in ServerMsg : msg.rid # c => (msg \in toServer' <=> msg \in toServer)
  BY DEF Sent, RequestMsg, ResponseMsg

-----------------------------------------------------------------------------
(* Callers                                                                 *)

\* Callers, and the commit of a transaction, change nothing of the protocol.
LEMMA KeepLocal ==
  ASSUME TypeOK, TypeOK', NEW c \in Client, LocalInv(c), IsMounted(c), UNCHANGED serverVars,
         UNCHANGED <<worker, mount, netVars>>,
         lock'[c].mode = lock[c].mode,
         lock'[c].invs = lock[c].invs,
         lock'[c].pend = lock[c].pend,
         lock'[c].shrink => lock[c].shrink,
         lock'[c].have \/ lock'[c] = NoLock,
         \A k \in UseMode :
            lock'[c].users[k] > 0 => lock[c].users[k] > 0 \/ lock_modes_match(lock[c].mode, k)
  PROVE  LocalInv(c)'
  <1> USE DEF serverVars, netVars
  <1>1. lock_counts_match(lock[c].mode, lock[c].users)' /\ NoLateCallers(c)' /\ IsMounted(c)'
    BY Zenon DEF LocalInv, NoLateCallers, lock_counts_match, IsMounted
  <1>2. /\ RequestSent(c)' = RequestSent(c)
        /\ RequestQueued(c)' = RequestQueued(c)
        /\ GrantSent(c)' = GrantSent(c)
        /\ InvalSent(c)' = InvalSent(c)
        /\ FirstInval(c)' = FirstInval(c)
        /\ InvalQueued(c)' = InvalQueued(c)
        /\ InvalAnswered(c)' = InvalAnswered(c)
        /\ Record(c)' = Record(c)
        /\ Dropped(c)' = Dropped(c)
    BY Zenon DEF RequestSent, RequestQueued, GrantSent, InvalSent, FirstInval, InvalQueued,
           InvalAnswered, Record, Dropped
  <1>3. MountedInv(c)'
    <2> USE DEF LocalInv, MountedInv
    <2>1. LockKept(c)'
      BY Zenon DEF LockKept
    <2>2. OneRequest(c)'
      BY Zenon, <1>2 DEF OneRequest
    <2>3. OneInvalidation(c)'
      BY Zenon, <1>2 DEF OneInvalidation
    <2>4. GrantThenInval(c)' /\ OneList(c)'
      BY Zenon DEF GrantThenInval, OneList
    <2>5. InvalidationsCovered(c)'
      BY Zenon, <1>2 DEF InvalidationsCovered
    <2>6. GrantsCovered(c)' /\ ModesCovered(c)'
      BY Zenon, <1>2 DEF GrantsCovered, ModesCovered
    <2> QED
      BY Zenon, <2>1, <2>2, <2>3, <2>4, <2>5, <2>6
  <1> QED
    BY Zenon, <1>1, <1>3 DEF LocalInv

\* Callers that arrive, acquire, give up and unlock keep the invariant.
LEMMA CallerInv ==
  ASSUME TypeOK, TypeOK', LockInv, WorkerBusy', NEW c \in Client, NEW m \in UseMode,
         CallerAction(c, m), UNCHANGED serverVars
  PROVE  LockInv'
  <1>1. LocalInv(c)
    BY Zenon, LockInvParts
  <1>2. IsMounted(c)
    BY <1>1, CallerEffect DEF IsMounted, LocalInv, NoLateCallers, Nobody
  <1>3. lock[c].have \/ lock[c] = NoLock
    BY Zenon, <1>1, <1>2 DEF LocalInv, MountedInv, LockKept
  <1>4. CallerChange(lock[c], lock'[c]) /\ UNCHANGED <<worker, mount, netVars>>
    BY Zenon, <1>3, CallerEffect
  <1>5. LocalInv(c)'
    BY Zenon, <1>1, <1>2, <1>4, KeepLocal DEF CallerChange
  <1>6. \A d \in Client \ {c} : Frame(d)
    BY Zenon, <1>4, CallerEffect, OthersFrame DEF netVars
  <1> QED
    BY Zenon, <1>2, <1>4, <1>5, <1>6, ClientStepInv DEF CallerChange

\* A request is only sent, or prepared by the shrinker, while there is no other.
LEMMA RequestInv ==
  ASSUME TypeOK, TypeOK', LockInv, WorkerBusy', NEW c \in Client, NEW m \in Mode,
         UNCHANGED serverVars, IsMounted(c),
         ~ RequestSent(c), ~ RequestQueued(c), ~ GrantSent(c),
         \A d \in Client \ {c} : lock'[d] = lock[d],
         lock'[c].mode = lock[c].mode,
         lock'[c].invs = lock[c].invs,
         lock'[c].users = lock[c].users,
         lock'[c].have \/ lock'[c] = NoLock,
         \/ /\ toServer' = toServer \cup Sent(c, RequestMsg(c, m))
            /\ lock'[c].pend /\ ~ lock'[c].shrink
         \/ /\ toServer' = toServer
            /\ lock'[c].shrink => lock'[c].pend,
         UNCHANGED <<worker, mount, toClient, link>>
  PROVE  LockInv'
  <1> DEFINE msg == RequestMsg(c, m)
  <1>1. LocalInv(c) /\ MountedInv(c) /\ IsMounted(c)'
    BY Zenon, LockInvParts DEF LocalInv, IsMounted
  <1>2. \A n : n \in toServer' =>
           n \in toServer \/ (n = msg /\ n.cmd = "request" /\ lock'[c].pend /\ ~ lock'[c].shrink)
    BY DEF Sent, RequestMsg
  <1>3. /\ RequestQueued(c)' = RequestQueued(c)
        /\ GrantSent(c)' = GrantSent(c)
        /\ InvalSent(c)' = InvalSent(c)
        /\ FirstInval(c)' = FirstInval(c)
        /\ InvalQueued(c)' = InvalQueued(c)
        /\ Record(c)' = Record(c)
        /\ Dropped(c)' = Dropped(c)
    BY Zenon DEF RequestQueued, GrantSent, InvalSent, FirstInval, InvalQueued,
           Record, Dropped, serverVars
  <1>4. \A n \in toServer : n \in toServer'
    BY Zenon
  <1>5. InvalAnswered(c)' = InvalAnswered(c)
    BY Zenon, <1>2, <1>4 DEF InvalAnswered
  <1> HIDE DEF msg
  <1>6. MountedInv(c)'
    <2> USE <1>1 DEF MountedInv
    <2>1. LockKept(c)'
      BY Zenon DEF LockKept
    <2>2. OneRequest(c)'
      <3>1. \A a, b \in toServer' : a.cmd = "request" /\ a.rid = c /\ b.cmd = "request"
               /\ b.rid = c => a = b
        BY SMT, <1>2 DEF RequestSent
      <3>2. RequestSent(c)' => lock'[c].pend /\ ~ lock'[c].shrink
        BY Zenon, <1>2 DEF RequestSent
      <3> QED
        BY Zenon, <1>3, <3>1, <3>2 DEF OneRequest, serverVars
    <2>3. OneInvalidation(c)'
      BY Zenon, <1>2, <1>3, <1>5 DEF OneInvalidation, serverVars
    <2>4. GrantThenInval(c)' /\ OneList(c)'
      BY Zenon DEF GrantThenInval, OneList, serverVars
    <2>5. InvalidationsCovered(c)'
      BY Zenon, <1>2, <1>3 DEF InvalidationsCovered, serverVars
    <2>6. GrantsCovered(c)' /\ ModesCovered(c)'
      BY Zenon, <1>3, <1>5 DEF GrantsCovered, ModesCovered
    <2> QED
      BY Zenon, <2>1, <2>2, <2>3, <2>4, <2>5, <2>6
  <1>7. LocalInv(c)'
    BY Zenon, <1>1, <1>6 DEF LocalInv, NoLateCallers
  <1>8. \A d \in Client \ {c} : Frame(d)
    BY Zenon, OwnMessages, OthersFrame DEF msg
  <1> QED
    BY Zenon, <1>7, <1>8, ClientStepInv

\* A caller that sends a lock request keeps the invariant.
LEMMA SendInv ==
  ASSUME TypeOK, TypeOK', LockInv, WorkerBusy', NEW c \in Client, NEW m \in UseMode,
         LockSend(c, m), UNCHANGED serverVars
  PROVE  LockInv'
  <1> DEFINE new == [lock[c] EXCEPT !.pend = TRUE]
  <1>1. LocalInv(c) /\ lock[c] \in Lock /\ lock \in [Client -> Lock] /\ m \in Mode
    BY Zenon, LockInvParts DEF TypeOK, ClientTypeOK, UseMode
  <1>2. IsMounted(c)
    BY <1>1 DEF LockSend, IsMounted, LocalInv, NoLateCallers, Nobody
  <1>3. /\ lock' = [lock EXCEPT ![c] = new]
        /\ toServer' = toServer \cup Sent(c, RequestMsg(c, m))
        /\ UNCHANGED <<worker, mount, toClient, link>>
        /\ ~ lock[c].pend
        /\ lock[c].waiters[m] > 0
    BY Zenon DEF LockSend
  <1>4. /\ new.pend /\ new.mode = lock[c].mode /\ new.invs = lock[c].invs
        /\ new.shrink = lock[c].shrink /\ SameCounts(lock[c], new)
    BY Zenon, <1>1, FlagKeeps
  <1>5. lock'[c] = new /\ \A d \in Client \ {c} : lock'[d] = lock[d]
    BY Zenon, <1>1, <1>3
  <1> HIDE DEF new
  <1>6. ~ RequestSent(c) /\ ~ RequestQueued(c) /\ ~ GrantSent(c) /\ ~ lock[c].shrink
    BY Zenon, <1>1, <1>2, <1>3 DEF LocalInv, MountedInv, OneRequest
  <1>7. lock[c].have
    BY SMT, <1>1, <1>2, <1>3 DEF LocalInv, MountedInv, LockKept, NoLock, Nobody
  <1> QED
    BY Zenon, <1>1, <1>2, <1>3, <1>4, <1>5, <1>6, <1>7, RequestInv DEF SameCounts

\* Putting an idle lock on the shrink list keeps the invariant.
LEMMA ShrinkScanInv ==
  ASSUME TypeOK, TypeOK', LockInv, WorkerBusy', NEW c \in Client, ShrinkScan(c),
         UNCHANGED serverVars
  PROVE  LockInv'
  <1> DEFINE new == [lock[c] EXCEPT !.pend = TRUE, !.shrink = TRUE]
  <1>1. LocalInv(c) /\ lock[c] \in Lock /\ lock \in [Client -> Lock]
    BY Zenon, LockInvParts DEF TypeOK, ClientTypeOK
  <1>2. IsMounted(c) /\ ~ lock[c].pend /\ lock[c].have
    BY Zenon DEF ShrinkScan, IsMounted, lock_idle
  <1>3. lock' = [lock EXCEPT ![c] = new] /\ UNCHANGED <<worker, mount, toServer, toClient, link>>
    BY Zenon DEF ShrinkScan, netVars
  <1>4. /\ new.pend /\ new.mode = lock[c].mode /\ new.invs = lock[c].invs
        /\ new.shrink /\ SameCounts(lock[c], new)
    BY Zenon, <1>1, FlagKeeps
  <1>5. lock'[c] = new /\ \A d \in Client \ {c} : lock'[d] = lock[d]
    BY Zenon, <1>1, <1>3
  <1> HIDE DEF new
  <1>6. ~ RequestSent(c) /\ ~ RequestQueued(c) /\ ~ GrantSent(c)
    BY Zenon, <1>1, <1>2 DEF LocalInv, MountedInv, OneRequest
  <1>7. "null" \in Mode
    BY Zenon DEF Mode
  <1> QED
    BY Zenon, <1>1, <1>2, <1>3, <1>4, <1>5, <1>6, <1>7, RequestInv DEF SameCounts

\* A client step of a mount that is shutting down.
LEMMA LateStepInv ==
  ASSUME TypeOK, TypeOK', LockInv, WorkerBusy', NEW c \in Client, UNCHANGED serverVars,
         ~ IsMounted(c)', lock'[c].users = Nobody, lock'[c].waiters = Nobody,
         \A d \in Client \ {c} : Frame(d)
  PROVE  LockInv'
  BY Zenon, LeftLocal, ClientStepInv

\* Sending the null request of the shrinker, or not, keeps the invariant.
LEMMA ShrinkSendInv ==
  ASSUME TypeOK, TypeOK', LockInv, WorkerBusy', NEW c \in Client, ShrinkSend(c),
         UNCHANGED serverVars
  PROVE  LockInv'
  <1> DEFINE new  == [lock[c] EXCEPT !.shrink = FALSE]
             fail == [lock[c] EXCEPT !.shrink = FALSE, !.pend = FALSE]
  <1>1. LocalInv(c) /\ lock[c] \in Lock /\ lock \in [Client -> Lock] /\ "null" \in Mode
    BY Zenon, LockInvParts DEF TypeOK, ClientTypeOK, Mode
  <1>2. /\ \/ /\ lock' = [lock EXCEPT ![c] = new]
              /\ toServer' = toServer \cup Sent(c, RequestMsg(c, "null"))
           \/ lock' = [lock EXCEPT ![c] = put_lock(fail)] /\ toServer' = toServer
        /\ UNCHANGED <<worker, mount, toClient, link>>
        /\ lock[c].shrink
    BY Zenon DEF ShrinkSend
  <1>3. /\ new.pend = lock[c].pend /\ new.mode = lock[c].mode /\ new.invs = lock[c].invs
        /\ ~ new.shrink /\ SameCounts(lock[c], new)
    BY Zenon, <1>1, FlagKeeps
  <1>4. /\ ~ fail.pend /\ fail.mode = lock[c].mode /\ fail.invs = lock[c].invs
        /\ ~ fail.shrink /\ SameCounts(lock[c], fail)
    BY Zenon, <1>1, FlagKeeps
  <1>5. fail \in Lock
    BY Zenon, <1>1, UpdateType
  <1> HIDE DEF new, fail
  <1>6. \A d \in Client \ {c} : lock'[d] = lock[d]
    BY Zenon, <1>1, <1>2
  <1>7. lock'[c] = new \/ lock'[c] = put_lock(fail)
    BY Zenon, <1>1, <1>2
  <1>8. lock'[c].users = lock[c].users /\ lock'[c].waiters = lock[c].waiters
    BY SMT, <1>3, <1>4, <1>5, <1>7, PutLockKeeps DEF SameCounts
  <1>9. \A d \in Client \ {c} : Frame(d)
    BY Zenon, <1>2, <1>6, OwnMessages, OthersFrame
  <1>10. CASE ~ IsMounted(c)
    BY Zenon, <1>1, <1>2, <1>8, <1>9, <1>10, LateStepInv DEF LocalInv, NoLateCallers, IsMounted
  <1>11. CASE IsMounted(c)
    <2>1. /\ ~ RequestSent(c) /\ ~ RequestQueued(c) /\ ~ GrantSent(c) /\ lock[c].pend
          /\ lock[c].have
      BY SMT, <1>1, <1>2, <1>11 DEF LocalInv, MountedInv, OneRequest, LockKept, NoLock
    <2>2. CASE lock'[c] = new /\ toServer' = toServer \cup Sent(c, RequestMsg(c, "null"))
      BY Zenon, <1>1, <1>2, <1>3, <1>6, <1>8, <1>11, <2>1, <2>2, RequestInv DEF SameCounts
    <2>3. CASE lock'[c] = put_lock(fail) /\ toServer' = toServer
      <3>1. /\ lock'[c].mode = lock[c].mode /\ lock'[c].invs = lock[c].invs /\ ~ lock'[c].shrink
            /\ lock'[c].have \/ lock'[c] = NoLock
        <4>1. fail.have
          BY Zenon, <1>4, <2>1 DEF SameCounts
        <4>2. /\ put_lock(fail).mode = fail.mode /\ put_lock(fail).invs = fail.invs
              /\ put_lock(fail).shrink => fail.shrink
              /\ put_lock(fail).have \/ put_lock(fail) = NoLock
          BY Zenon, <1>5, <4>1, PutLockKeeps
        <4> QED
          BY Zenon, <1>4, <2>3, <4>2
      <3> QED
        BY Zenon, <1>1, <1>2, <1>6, <1>8, <1>11, <2>1, <2>3, <3>1, RequestInv
    <2> QED
      BY Zenon, <1>1, <1>2, <2>2, <2>3
  <1> QED
    BY Zenon, <1>10, <1>11

-----------------------------------------------------------------------------
(* Transactions and leaving                                                *)

\* The lock that is not in the tree was not written under.
LEMMA NoLockWrote == [NoLock EXCEPT !.wrote = FALSE] = NoLock
  <1>1. NoLock = [x \in {"have", "mode", "inving", "pend", "shrink", "wrote", "gen",
                         "waiters", "users", "invs"} |-> NoLock[x]]
    BY Zenon DEF NoLock
  <1>2. NoLock["wrote"] = FALSE
    BY Zenon DEF NoLock
  <1> QED
    BY Zenon, <1>1, <1>2

\* The counts of callers that add up to zero are zero.
LEMMA SumZero ==
  ASSUME NEW a \in Nat, NEW b \in Nat, NEW d \in Nat, NEW e \in Nat, NEW f \in Nat,
         NEW g \in Nat, a + b + d + e + f + g = 0
  PROVE  a = 0 /\ b = 0 /\ d = 0 /\ e = 0 /\ f = 0 /\ g = 0
  OBVIOUS

\* The open transaction is not part of the protocol.
LEMMA CommitInv ==
  ASSUME TypeOK, TypeOK', LockInv, WorkerBusy', NEW c \in Client,
         TransCommit(c) \/ ShutdownTrans(c), UNCHANGED serverVars
  PROVE  LockInv'
  <1> DEFINE new == [lock[c] EXCEPT !.wrote = FALSE]
  <1>1. /\ LocalInv(c) /\ lock[c] \in Lock /\ lock \in [Client -> Lock]
        /\ mount \in [Client -> {"mounted", "shutdown", "farewell", "reclaimed", "gone", "fenced"}]
    BY Zenon, LockInvParts DEF TypeOK, ClientTypeOK
  <1>2. lock' = [lock EXCEPT ![c] = new] /\ UNCHANGED <<worker, netVars>>
    BY Zenon DEF TransCommit, ShutdownTrans
  <1>3. SameState(lock[c], new) /\ SameCounts(lock[c], new)
    BY Zenon, <1>1, FlagKeeps
  <1> HIDE DEF new
  <1>4. lock'[c] = new /\ \A d \in Client \ {c} : lock'[d] = lock[d]
    BY Zenon, <1>1, <1>2
  <1>5. \A d \in Client \ {c} : mount'[d] = mount[d]
    BY Zenon, <1>1 DEF TransCommit, ShutdownTrans
  <1>6. \A d \in Client \ {c} : Frame(d)
    BY Zenon, <1>2, <1>4, <1>5, OthersFrame DEF netVars
  <1>7. CASE TransCommit(c)
    <2>1. IsMounted(c) /\ UNCHANGED mount
      BY Zenon, <1>7 DEF TransCommit, IsMounted
    <2>2. LocalInv(c)'
      <3>1. lock[c].have \/ lock[c] = NoLock
        BY Zenon, <1>1, <2>1 DEF LocalInv, MountedInv, LockKept
      <3>2. lock[c] = NoLock => lock'[c] = NoLock
        BY Zenon, <1>4, NoLockWrote DEF new
      <3> QED
        BY Zenon, <1>1, <1>2, <1>3, <1>4, <2>1, <3>1, <3>2, KeepLocal
        DEF SameState, SameCounts
    <2> QED
      BY Zenon, <1>3, <1>4, <1>6, <2>1, <2>2, ClientStepInv DEF SameState
  <1>8. CASE ShutdownTrans(c)
    <2>1. mount[c] = "shutdown" /\ mount'[c] = "farewell"
      BY Zenon, <1>1, <1>8 DEF ShutdownTrans
    <2> QED
      BY Zenon, <1>1, <1>3, <1>4, <1>6, <2>1, LateStepInv
      DEF LocalInv, NoLateCallers, IsMounted, SameCounts
  <1> QED
    BY Zenon, <1>7, <1>8

\* A mount that leaves has no users, and a lost one keeps what it was granted.
LEMMA LeaveInv ==
  ASSUME TypeOK, TypeOK', LockInv, WorkerBusy', NEW c \in Client,
         LeaveStep(c), UNCHANGED serverVars
  PROVE  LockInv'
  <1>1. /\ LocalInv(c) /\ lock[c] \in Lock
        /\ mount \in [Client -> {"mounted", "shutdown", "farewell", "reclaimed", "gone", "fenced"}]
        /\ lock \in [Client -> Lock]
        /\ worker \in [Client -> {"idle", "invalidate", "finish"}]
        /\ toClient \in [Client -> Seq(ClientMsg)]
        /\ link \in [Client -> {"up", "down", "lost"}]
    BY Zenon, LockInvParts DEF TypeOK, ClientTypeOK, NetTypeOK
  <1>2. CASE LockShutdown(c)
    <2>1. lock[c].users = Nobody /\ lock[c].waiters = Nobody
      <3>1. lock[c].users \in [UseMode -> Nat] /\ lock[c].waiters \in [UseMode -> Nat]
        BY Zenon, <1>1 DEF Lock
      <3>2. \A m \in UseMode : lock[c].users[m] = 0 /\ lock[c].waiters[m] = 0
        <4>1. UseMode = {"read", "write", "wonly"}
          BY Zenon DEF UseMode, Mode
        <4>2. /\ lock[c].users["read"] \in Nat /\ lock[c].waiters["read"] \in Nat
              /\ lock[c].users["write"] \in Nat /\ lock[c].waiters["write"] \in Nat
              /\ lock[c].users["wonly"] \in Nat /\ lock[c].waiters["wonly"] \in Nat
          BY Zenon, <3>1, <4>1
        <4>3. Callers(lock[c]) = 0
          BY Zenon, <1>2 DEF LockShutdown
        <4>4. /\ lock[c].users["read"] = 0 /\ lock[c].waiters["read"] = 0
              /\ lock[c].users["write"] = 0 /\ lock[c].waiters["write"] = 0
              /\ lock[c].users["wonly"] = 0 /\ lock[c].waiters["wonly"] = 0
          <5> DEFINE r == lock[c].waiters["read"]
                     w == lock[c].waiters["write"]
                     o == lock[c].waiters["wonly"]
                     x == lock[c].users["read"]
                     y == lock[c].users["write"]
                     z == lock[c].users["wonly"]
          <5>1. r + w + o + x + y + z = 0
            BY Zenon, <4>3 DEF Callers
          <5>2. r \in Nat /\ w \in Nat /\ o \in Nat /\ x \in Nat /\ y \in Nat /\ z \in Nat
            BY Zenon, <4>2
          <5> HIDE DEF r, w, o, x, y, z
          <5>3. r = 0 /\ w = 0 /\ o = 0 /\ x = 0 /\ y = 0 /\ z = 0
            BY SMT, <5>1, <5>2, SumZero
          <5> QED
            BY Zenon, <5>3 DEF r, w, o, x, y, z
        <4> QED
          BY Zenon, <4>1, <4>4
      <3> QED
        BY Zenon, <3>1, <3>2 DEF Nobody
    <2>2. UNCHANGED <<lock, worker, netVars>> /\ mount' = [mount EXCEPT ![c] = "shutdown"]
      BY Zenon, <1>2 DEF LockShutdown
    <2>3. mount'[c] = "shutdown" /\ \A d \in Client \ {c} : mount'[d] = mount[d]
      BY Zenon, <1>1, <2>2
    <2>4. \A d \in Client \ {c} : Frame(d)
      BY Zenon, <2>2, <2>3, OthersFrame DEF netVars
    <2> QED
      BY Zenon, <2>1, <2>2, <2>3, <2>4, LateStepInv DEF IsMounted
  <1>3. CASE \E how \in {"gone", "fenced"} : Vanish(c, how)
    <2>1. PICK how \in {"gone", "fenced"} : Vanish(c, how)
      BY Zenon, <1>3
    <2>2. /\ mount'[c] = how /\ lock'[c] = NoLock
          /\ \A d \in Client \ {c} : /\ lock'[d] = lock[d]
                                     /\ worker'[d] = worker[d]
                                     /\ mount'[d] = mount[d]
                                     /\ toClient'[d] = toClient[d]
                                     /\ link'[d] = link[d]
      BY Zenon, <1>1, <2>1 DEF Vanish
    <2>3. \A msg \in ServerMsg : msg.rid # c => (msg \in toServer' <=> msg \in toServer)
      BY Zenon, <2>1 DEF Vanish
    <2>4. \A d \in Client \ {c} : Frame(d)
      BY Zenon, <2>2, <2>3, OthersFrame
    <2> QED
      BY SMT, <2>1, <2>2, <2>4, LateStepInv DEF IsMounted, NoLock
  <1>4. CASE LoseClient(c)
    <2>1. /\ UNCHANGED <<lock, worker, mount>>
          /\ toClient'[c] = <<>> /\ link'[c] = "lost"
          /\ \A d \in Client \ {c} : toClient'[d] = toClient[d] /\ link'[d] = link[d]
          /\ toServer' = {msg \in toServer : msg.rid # c}
      BY Zenon, <1>1, <1>4 DEF LoseClient, lockVars
    <2>2. \A d \in Client \ {c} : Frame(d)
      BY Zenon, <2>1, OthersFrame
    <2>3. CASE ~ IsMounted(c)
      BY Zenon, <1>1, <2>1, <2>2, <2>3, LateStepInv DEF LocalInv, NoLateCallers, IsMounted
    <2>4. CASE IsMounted(c)
      <3>1. MountedInv(c) /\ IsMounted(c)'
        BY Zenon, <1>1, <2>1, <2>4 DEF LocalInv, IsMounted
      <3>2. /\ 1..Len(toClient'[c]) = {}
            /\ \A msg \in toServer' : msg.rid # c
        BY SMT, <2>1
      <3>3. ~ RequestSent(c)' /\ ~ GrantSent(c)' /\ ~ InvalSent(c)' /\ ~ InvalAnswered(c)'
        BY Zenon, <3>2 DEF RequestSent, GrantSent, InvalSent, InvalAnswered
      <3>4. /\ RequestQueued(c)' = RequestQueued(c)
            /\ FirstInval(c)' = FirstInval(c)
            /\ InvalQueued(c)' = InvalQueued(c)
            /\ Record(c)' = Record(c)
            /\ Dropped(c) => Dropped(c)'
        BY Zenon, <2>1 DEF RequestQueued, FirstInval, InvalQueued, Record, Dropped, serverVars
      <3>5. MountedInv(c)'
        <4> USE <3>1 DEF MountedInv
        <4>1. LockKept(c)' /\ OneList(c)'
          BY Zenon, <2>1 DEF LockKept, OneList, serverVars
        <4>2. OneRequest(c)'
          BY Zenon, <2>1, <3>2, <3>3, <3>4 DEF OneRequest, serverVars
        <4>3. OneInvalidation(c)'
          BY Zenon, <2>1, <3>2, <3>3, <3>4 DEF OneInvalidation, serverVars
        <4>4. GrantThenInval(c)' /\ GrantsCovered(c)'
          BY Zenon, <3>2 DEF GrantThenInval, GrantsCovered
        <4>5. InvalidationsCovered(c)'
          BY Zenon, <2>1, <3>2, <3>4 DEF InvalidationsCovered, serverVars
        <4>6. ModesCovered(c)'
          BY Zenon, <2>1, <3>4 DEF ModesCovered
        <4> QED
          BY Zenon, <4>1, <4>2, <4>3, <4>4, <4>5, <4>6
      <3>6. LocalInv(c)'
        BY Zenon, <1>1, <2>1, <3>1, <3>5 DEF LocalInv, NoLateCallers
      <3> QED
        BY Zenon, <2>1, <2>2, <2>4, <3>6, ClientStepInv
    <2> QED
      BY Zenon, <2>3, <2>4
  <1> QED
    BY Zenon, <1>2, <1>3, <1>4, CommitInv DEF LeaveStep, FarewellResponse, FenceClient

-----------------------------------------------------------------------------
(* Grants                                                                 *)

\* The mode a grant brings is the one the server has recorded.
LEMMA GrantInv ==
  ASSUME TypeOK, TypeOK', LockInv, WorkerBusy', NEW c \in Client, GrantResponse(c),
         UNCHANGED serverVars
  PROVE  LockInv'
  <1> DEFINE q == toClient[c]
             msg == Head(q)
             refresh == ~ lock_mode_can_read(msg.old) /\ lock_mode_can_read(msg.new)
             new == [lock[c] EXCEPT !.pend = FALSE, !.mode = msg.new, !.gen = @ \/ refresh]
  <1>1. /\ LocalInv(c) /\ lock[c] \in Lock /\ lock \in [Client -> Lock]
        /\ toClient \in [Client -> Seq(ClientMsg)]
    BY Zenon, LockInvParts DEF TypeOK, ClientTypeOK, NetTypeOK
  <1>2. q \in Seq(ClientMsg) /\ q # <<>> /\ msg.cmd = "grant"
    BY Zenon, <1>1 DEF GrantResponse
  <1>3. msg \in ClientMsg /\ msg.new \in Mode
    <2>1. msg \in ClientMsg
      BY <1>2
    <2> QED
      BY Zenon, <2>1 DEF ClientMsg
  <1>4. /\ lock' = [lock EXCEPT ![c] = put_lock(new)]
        /\ toClient' = [toClient EXCEPT ![c] = Tail(q)]
        /\ UNCHANGED <<worker, mount, toServer, link>>
    BY Zenon DEF GrantResponse
  <1>5. new \in Lock /\ ~ new.pend /\ new.mode = msg.new /\ new.invs = lock[c].invs
        /\ new.shrink = lock[c].shrink /\ SameCounts(lock[c], new)
    <2>1. refresh \in BOOLEAN
      BY Zenon DEF lock_mode_can_read
    <2> HIDE DEF refresh, msg
    <2>2. new \in Lock
      BY Zenon, <1>1, <1>3, <2>1, UpdateType
    <2>3. ~ new.pend /\ new.mode = msg.new /\ new.invs = lock[c].invs
          /\ new.shrink = lock[c].shrink /\ SameCounts(lock[c], new)
      BY Zenon, <1>1, <1>3 DEF Lock, SameCounts
    <2> QED
      BY Zenon, <2>2, <2>3
  <1> HIDE DEF new
  <1>6. /\ lock'[c] = put_lock(new)
        /\ toClient'[c] = Tail(q)
        /\ \A d \in Client \ {c} : lock'[d] = lock[d] /\ toClient'[d] = toClient[d]
    BY Zenon, <1>1, <1>4
  <1>7. /\ ~ lock'[c].pend /\ lock'[c].mode = msg.new /\ lock'[c].invs = lock[c].invs
        /\ lock'[c].shrink => lock[c].shrink
        /\ lock'[c].users = lock[c].users /\ lock'[c].waiters = lock[c].waiters
        /\ lock[c].have => lock'[c].have \/ lock'[c] = NoLock
    <2>1. /\ put_lock(new).pend = new.pend /\ put_lock(new).mode = new.mode
          /\ put_lock(new).invs = new.invs
          /\ put_lock(new).shrink => new.shrink
          /\ put_lock(new).users = new.users /\ put_lock(new).waiters = new.waiters
          /\ new.have => put_lock(new).have \/ put_lock(new) = NoLock
      BY Zenon, <1>5, PutLockKeeps
    <2> QED
      BY Zenon, <1>5, <1>6, <2>1 DEF SameCounts
  <1>8. \A d \in Client \ {c} : Frame(d)
    BY Zenon, <1>4, <1>6, OthersFrame
  <1>9. CASE ~ IsMounted(c)
    BY Zenon, <1>1, <1>4, <1>7, <1>8, <1>9, LateStepInv DEF LocalInv, NoLateCallers, IsMounted
  <1>10. CASE IsMounted(c)
    <2>1. MountedInv(c) /\ IsMounted(c)'
      BY Zenon, <1>1, <1>4, <1>10 DEF LocalInv, IsMounted
    <2>2. /\ Len(Tail(q)) = Len(q) - 1 /\ Len(q) \in Nat /\ Len(q) > 0
          /\ \A i \in 1..Len(Tail(q)) : Tail(q)[i] = q[i + 1]
          /\ msg = q[1]
      BY SMT, <1>2, HeadTailProperties
    <2>3. GrantSent(c)
      BY SMT, <1>2, <2>2 DEF GrantSent
    <2> HIDE DEF msg, q
    <2>4. /\ ~ RequestSent(c) /\ ~ RequestQueued(c) /\ ~ lock[c].shrink /\ lock[c].have
      BY SMT, <2>1, <2>3 DEF MountedInv, OneRequest, LockKept, NoLock
    <2>5. /\ Covers(Record(c), msg.new) /\ Covers(msg.new, lock[c].mode)
          /\ ~ InvalQueued(c) /\ ~ InvalAnswered(c)
      BY SMT, <1>2, <2>1, <2>2 DEF MountedInv, GrantsCovered, q
    <2>6. \A i \in 1..Len(Tail(q)) : Tail(q)[i].cmd # "grant"
      BY SMT, <2>1, <2>2 DEF MountedInv, GrantThenInval, q
    <2>7. /\ RequestSent(c)' = RequestSent(c)
          /\ RequestQueued(c)' = RequestQueued(c)
          /\ FirstInval(c)' = FirstInval(c)
          /\ InvalQueued(c)' = InvalQueued(c)
          /\ InvalAnswered(c)' = InvalAnswered(c)
          /\ Record(c)' = Record(c)
          /\ Dropped(c)' = Dropped(c)
      BY Zenon, <1>4, <1>7 DEF RequestSent, RequestQueued, FirstInval, InvalQueued, InvalAnswered,
             Record, Dropped, serverVars
    <2>8. ~ GrantSent(c)' /\ (InvalSent(c)' => InvalSent(c))
      BY <1>6, <2>2, <2>6 DEF GrantSent, InvalSent, q
    <2>i. \A i \in 1..Len(toClient'[c]) : toClient'[c][i].cmd = "inval" =>
             toClient'[c][i].live /\ Covers(invalidated[c], toClient'[c][i].new)
      <3>1. \A i \in 1..Len(q) : q[i].cmd = "inval" => q[i].live /\ Covers(invalidated[c], q[i].new)
        BY Zenon, <2>1 DEF MountedInv, InvalidationsCovered, q
      <3>2. \A i \in 1..Len(Tail(q)) : i + 1 \in 1..Len(q)
        BY <2>2
      <3>3. toClient'[c] = Tail(q)
        BY Zenon, <1>6 DEF q
      <3> QED
        BY Zenon, <2>2, <3>1, <3>2, <3>3
    <2>9. MountedInv(c)'
      <3>1. LockKept(c)'
        BY Zenon, <1>4, <1>7, <2>4, <2>1 DEF MountedInv, LockKept
      <3>2. OneRequest(c)'
        <4>1. ~ RequestSent(c)' /\ ~ RequestQueued(c)' /\ ~ GrantSent(c)' /\ ~ lock'[c].shrink
          BY Zenon, <1>7, <2>4, <2>7, <2>8, <2>1 DEF MountedInv
        <4>2. toServer' = toServer /\ requested' = requested
          BY Zenon, <1>4, <2>1 DEF MountedInv, serverVars
        <4> QED
          BY Zenon, <4>1, <4>2, <2>1 DEF MountedInv, OneRequest
      <3>3. OneInvalidation(c)'
        BY Zenon, <1>4, <1>7, <2>5, <2>7, <2>8, <2>1 DEF MountedInv, OneInvalidation, serverVars
      <3>4. GrantThenInval(c)'
        <4>1. GrantThenInval(c)
          BY Zenon, <2>1 DEF MountedInv
        <4> QED
          BY SMT, <1>6, <2>2, <2>6, <4>1 DEF GrantThenInval, q
      <3>5. OneList(c)'
        BY Zenon, <2>1 DEF MountedInv, OneList, serverVars
      <3>6. InvalidationsCovered(c)'
        <4>2. worker[c] # "invalidate"
          <5>1. lock[c].invs \in Seq(Inval)
            BY Zenon, <1>1, <2>1 DEF MountedInv, Lock
          <5> QED
            BY SMT, <2>5, <5>1, LockInvParts DEF InvalQueued, FirstInval, WorkerBusy
        <4> QED
          BY Zenon, <1>4, <1>7, <2>5, <2>7, <2>i, <4>2, <2>1 DEF MountedInv, InvalidationsCovered, InvalAnswered, InvalQueued, serverVars
      <3>7. GrantsCovered(c)' /\ ModesCovered(c)'
        BY Zenon, <1>6, <1>7, <2>5, <2>6, <2>7, <2>1 DEF MountedInv, GrantsCovered, ModesCovered
      <3> QED
        BY Zenon, <3>1, <3>2, <3>3, <3>4, <3>5, <3>6, <3>7, <2>1 DEF MountedInv
    <2>10. LocalInv(c)'
      <3>1. \A k \in UseMode : lock_modes_match(lock[c].mode, k) => lock_modes_match(msg.new, k)
        BY Zenon, <2>5, <1>3, RecordType DEF Covers, lock_modes_match, UseMode, Mode, NoEntry
      <3>2. lock_counts_match(lock'[c].mode, lock'[c].users)
        BY Zenon, <1>1, <1>7, <3>1 DEF LocalInv, lock_counts_match
      <3> QED
        BY Zenon, <2>1, <2>9, <3>2 DEF LocalInv, NoLateCallers
    <2> QED
      BY Zenon, <1>7, <1>8, <1>10, <2>5, <2>10, ClientStepInv
  <1> QED
    BY Zenon, <1>9, <1>10


-----------------------------------------------------------------------------
(* Invalidations at the client                                             *)

\* The invalidation leaves the queue of messages for the lock's list or, when
\* there is no lock, for a response.
LEMMA InvalidateRequestInv ==
  ASSUME TypeOK, TypeOK', LockInv, WorkerBusy', NEW c \in Client, InvalidateRequest(c),
         UNCHANGED serverVars
  PROVE  LockInv'
  <1> DEFINE q == toClient[c]
             msg == Head(q)
             inv == [old |-> msg.old, new |-> msg.new, live |-> msg.live]
             new == [lock[c] EXCEPT !.invs = Append(lock[c].invs, inv)]
             resp == ResponseMsg(c, msg.new, msg.live)
  <1>1. /\ LocalInv(c) /\ lock[c] \in Lock /\ lock \in [Client -> Lock]
        /\ toClient \in [Client -> Seq(ClientMsg)] /\ lock[c].invs \in Seq(Inval)
    BY Zenon, LockInvParts DEF TypeOK, ClientTypeOK, NetTypeOK, Lock
  <1>2. q \in Seq(ClientMsg) /\ q # <<>> /\ msg.cmd = "inval"
    BY Zenon, <1>1 DEF InvalidateRequest
  <1>3. msg \in ClientMsg /\ msg.new \in Mode /\ inv \in Inval
    <2>1. msg \in ClientMsg
      BY <1>2
    <2> QED
      BY Zenon, <2>1 DEF ClientMsg, Inval
  <1>4. /\ \/ lock[c].have /\ lock' = [lock EXCEPT ![c] = new] /\ toServer' = toServer
           \/ ~ lock[c].have /\ lock' = lock /\ toServer' = toServer \cup Sent(c, resp)
        /\ toClient' = [toClient EXCEPT ![c] = Tail(q)]
        /\ UNCHANGED <<worker, mount, link>>
    BY Zenon DEF InvalidateRequest
  <1>5. \A d \in Client \ {c} : Frame(d)
    BY Zenon, <1>1, <1>4, OwnMessages, OthersFrame
  <1>6. /\ Append(lock[c].invs, inv) \in Seq(Inval)
        /\ Len(Append(lock[c].invs, inv)) = Len(lock[c].invs) + 1
        /\ \A i \in 1..Len(lock[c].invs) : Append(lock[c].invs, inv)[i] = lock[c].invs[i]
        /\ Append(lock[c].invs, inv)[Len(lock[c].invs) + 1] = inv
    <2> HIDE DEF inv
    <2> QED
      BY <1>1, <1>3, AppendProperties
  <1>7. inv.new = msg.new /\ inv.live = msg.live
    BY Zenon
  <1>8. /\ new.pend = lock[c].pend /\ new.mode = lock[c].mode /\ new.shrink = lock[c].shrink
        /\ new.invs = Append(lock[c].invs, inv) /\ SameCounts(lock[c], new)
    <2> HIDE DEF inv
    <2> QED
      BY Zenon, <1>1, <1>6, InvsKeeps
  <1> HIDE DEF new, inv
  <1>9. /\ toClient'[c] = Tail(q)
        /\ lock[c].have => lock'[c] = new
        /\ ~ lock[c].have => lock'[c] = lock[c]
    BY Zenon, <1>1, <1>4
  <1>10. /\ lock'[c].pend = lock[c].pend /\ lock'[c].mode = lock[c].mode
         /\ lock'[c].shrink = lock[c].shrink /\ SameCounts(lock[c], lock'[c])
    BY Zenon, <1>8, <1>9 DEF SameCounts
  <1>11. CASE ~ IsMounted(c)
    BY Zenon, <1>1, <1>4, <1>5, <1>10, <1>11, LateStepInv DEF LocalInv, NoLateCallers, IsMounted, SameCounts
  <1>12. CASE IsMounted(c)
    <2>1. MountedInv(c) /\ IsMounted(c)'
      BY Zenon, <1>1, <1>4, <1>12 DEF LocalInv, IsMounted
    <2>2. /\ Len(Tail(q)) = Len(q) - 1 /\ Len(q) \in Nat /\ Len(q) > 0
          /\ \A i \in 1..Len(Tail(q)) : Tail(q)[i] = q[i + 1]
          /\ msg = q[1]
      BY <1>2, HeadTailProperties
    <2>3. InvalSent(c)
      BY SMT, <1>2, <2>2 DEF InvalSent
    <2> HIDE DEF msg, q
    <2>4. ~ InvalQueued(c) /\ ~ InvalAnswered(c) /\ invalidated[c] # NoEntry
      BY Zenon, <2>1, <2>3 DEF MountedInv, OneInvalidation
    <2>5. Len(q) = 1 /\ Len(toClient'[c]) = 0
      <3>1. 1 \in 1..Len(toClient[c]) /\ toClient[c][1].cmd = "inval"
        BY SMT, <1>2, <2>2 DEF q
      <3>2. 1 = Len(toClient[c])
        BY Zenon, <2>1, <3>1 DEF MountedInv, GrantThenInval
      <3> QED
        BY <1>9, <2>2, <3>2 DEF q
    <2>6. ~ GrantSent(c) /\ ~ GrantSent(c)' /\ ~ InvalSent(c)'
      BY <1>2, <2>2, <2>5 DEF GrantSent, InvalSent, q
    <2>7. msg.live /\ Covers(invalidated[c], msg.new)
      BY SMT, <1>2, <2>1, <2>2 DEF MountedInv, InvalidationsCovered, q
    <2>8. /\ RequestQueued(c)' = RequestQueued(c)
          /\ FirstInval(c)' = FirstInval(c)
          /\ Record(c)' = Record(c)
          /\ Dropped(c)' = Dropped(c)
      BY Zenon, <1>4 DEF RequestQueued, FirstInval, Record, Dropped, serverVars
    <2>9. /\ resp.cmd = "response" /\ resp.rid = c /\ resp.mode = msg.new /\ resp.live = msg.live
      BY Zenon DEF ResponseMsg
    <2> HIDE DEF resp
    <2>10. /\ \A n : n \in toServer' => n \in toServer \/ (n = resp /\ ~ lock[c].have)
           /\ \A n \in toServer : n \in toServer'
      BY Zenon, <1>4 DEF Sent
    <2>11. RequestSent(c)' = RequestSent(c)
      BY SMT, <2>9, <2>10 DEF RequestSent
    <2>12. FirstInval(c) = Len(lock[c].invs) + 1 /\ FirstInval(c) \in {1, 2}
      <3>1. Len(lock[c].invs) <= FirstInval(c) /\ ~ (FirstInval(c) <= Len(lock[c].invs))
        BY Zenon, <2>1, <2>4 DEF MountedInv, OneInvalidation, InvalQueued
      <3>2. worker[c] = "finish" => lock[c].invs # <<>>
        BY Zenon, LockInvParts DEF WorkerBusy
      <3>3. lock[c].invs \in Seq(Inval)
        BY Zenon, <1>1 DEF Lock
      <3> QED
        BY <3>1, <3>2, <3>3 DEF FirstInval
    <2>a. FirstInval(c)..Len(lock[c].invs) = {}
      BY <2>12
    <2>b. 1..Len(toClient'[c]) = {}
      BY <2>5
    <2>c. NoLock.invs = <<>> /\ NoLock.mode = "null"
      BY DEF NoLock
    <2>13. MountedInv(c)'
      <3>1. LockKept(c)'
        BY Zenon, <1>4, <1>9, <1>10, <2>1 DEF MountedInv, LockKept, SameCounts
      <3>2. OneRequest(c)'
        BY Zenon, <1>10, <2>6, <2>8, <2>9, <2>10, <2>11, <2>1 DEF MountedInv, OneRequest, serverVars
      <3>3. ASSUME lock[c].have
            PROVE  OneInvalidation(c)' /\ InvalidationsCovered(c)'
        <4>1. toServer' = toServer /\ lock'[c].invs = Append(lock[c].invs, inv)
          BY Zenon, <1>4, <1>8, <1>9, <3>3, <2>1 DEF MountedInv
        <4>2. InvalAnswered(c)' = InvalAnswered(c)
          BY Zenon, <4>1, <2>1 DEF MountedInv, InvalAnswered
        <4>3. OneInvalidation(c)'
          <5>1. invalidated'[c] # NoEntry
            BY Zenon, <2>4 DEF serverVars
          <5>2. ~ InvalSent(c)' /\ ~ InvalAnswered(c)'
            BY Zenon, <2>4, <2>6, <4>2
          <5>3. Len(lock'[c].invs) <= FirstInval(c)'
            <6>1. Len(lock'[c].invs) = Len(lock[c].invs) + 1 /\ FirstInval(c)' = Len(lock[c].invs) + 1
              BY Zenon, <1>6, <2>8, <2>12, <4>1
            <6> QED
              BY SMT, <2>12, <6>1
          <5> QED
            BY Zenon, <4>1, <5>1, <5>2, <5>3, <2>1 DEF MountedInv, OneInvalidation
        <4>4. InvalidationsCovered(c)'
          <5>1. \A i \in FirstInval(c)'..Len(lock'[c].invs) :
                   lock'[c].invs[i].live /\ Covers(invalidated[c], lock'[c].invs[i].new)
            <6> SUFFICES ASSUME NEW i \in FirstInval(c)'..Len(lock'[c].invs)
                         PROVE  lock'[c].invs[i].live /\ Covers(invalidated[c], lock'[c].invs[i].new)
              BY Zenon, <2>1 DEF MountedInv
            <6>1. i = Len(lock[c].invs) + 1
              BY SMT, <1>1, <1>6, <2>8, <2>12, <4>1
            <6>2. lock'[c].invs[i] = inv
              BY Zenon, <1>6, <4>1, <6>1, <2>1 DEF MountedInv
            <6> QED
              BY Zenon, <1>7, <2>7, <6>2, <2>1 DEF MountedInv
          <5>2. worker[c] = "invalidate" => lock'[c].invs[1] = lock[c].invs[1]
            <6>1. worker[c] = "invalidate" => lock[c].invs # <<>>
              BY Zenon, LockInvParts, <2>1 DEF MountedInv, WorkerBusy
            <6>2. lock[c].invs # <<>> => 1 \in 1..Len(lock[c].invs)
              BY SMT, <1>1
            <6> QED
              BY Zenon, <1>6, <4>1, <6>1, <6>2, <2>1 DEF MountedInv
          <5> QED
            <6>2. \A n \in toServer' : ~ (n.cmd = "response" /\ n.rid = c)
              BY Zenon, <2>4, <4>1, <2>1 DEF MountedInv, InvalAnswered
            <6>3. worker'[c] = "invalidate" => lock'[c].mode = lock'[c].invs[1].new
              BY Zenon, <1>4, <1>10, <5>2, <2>1 DEF MountedInv, InvalidationsCovered
            <6> QED
              BY Zenon, <2>b, <5>1, <6>2, <6>3, <2>1 DEF MountedInv, InvalidationsCovered, serverVars
        <4> QED
          BY Zenon, <4>3, <4>4, <2>1 DEF MountedInv
      <3>4. ASSUME ~ lock[c].have
            PROVE  OneInvalidation(c)' /\ InvalidationsCovered(c)'
        <4>1. lock'[c] = lock[c] /\ lock[c] = NoLock
          BY Zenon, <1>9, <3>4, <2>1 DEF MountedInv, LockKept
        <4>2. lock[c].invs = <<>> /\ lock[c].mode = "null" /\ worker[c] = "idle"
          <5>1. lock[c].invs = <<>> /\ lock[c].mode = "null"
            BY Zenon, <2>c, <4>1, <2>1 DEF MountedInv
          <5>2. WorkerBusy
            BY Zenon, LockInvParts, <2>1 DEF MountedInv
          <5> QED
            BY Zenon, <5>1, <5>2, <2>1 DEF MountedInv, WorkerBusy
        <4>3. ~ InvalQueued(c)'
          BY Zenon, <2>4, <2>8, <4>1, <2>1 DEF MountedInv, InvalQueued
        <4>4. OneInvalidation(c)'
          <5>1. invalidated'[c] # NoEntry
            BY Zenon, <2>4, <2>1 DEF MountedInv, serverVars
          <5>2. \A n, o \in toServer' :
                   n.cmd = "response" /\ n.rid = c /\ o.cmd = "response" /\ o.rid = c => n = o
            <6>1. \A n \in toServer' : n.cmd = "response" /\ n.rid = c => n = resp
              BY Zenon, <2>4, <2>10, <2>1 DEF MountedInv, InvalAnswered
            <6> QED
              BY Zenon, <6>1, <2>1 DEF MountedInv
          <5>3. Len(lock'[c].invs) <= FirstInval(c)'
            BY Zenon, <2>8, <4>1, <2>1 DEF MountedInv, OneInvalidation
          <5> QED
            BY Zenon, <2>6, <4>3, <5>1, <5>2, <5>3, <2>1 DEF MountedInv, OneInvalidation
        <4>5. InvalidationsCovered(c)'
          <5>1. \A n \in toServer' : n.cmd = "response" /\ n.rid = c => n = resp
            BY Zenon, <2>4, <2>10, <2>1 DEF MountedInv, InvalAnswered
          <5>2. \A n \in toServer' : n.cmd = "response" /\ n.rid = c =>
                   n.live /\ Covers(invalidated[c], n.mode) /\ Covers(n.mode, lock'[c].mode)
            BY Zenon, <2>7, <2>9, <4>1, <4>2, <5>1, <2>1 DEF MountedInv, Covers
          <5>3. FirstInval(c)'..Len(lock'[c].invs) = {}
            BY Zenon, <2>8, <2>a, <4>1, <2>1 DEF MountedInv
          <5> QED
            BY Zenon, <1>4, <2>b, <4>1, <4>2, <5>2, <5>3, <2>1 DEF MountedInv, InvalidationsCovered, serverVars
        <4> QED
          BY Zenon, <4>4, <4>5, <2>1 DEF MountedInv
      <3>5. GrantThenInval(c)' /\ OneList(c)'
        BY Zenon, <2>b, <2>1 DEF MountedInv, GrantThenInval, OneList, serverVars
      <3>6. GrantsCovered(c)' /\ ModesCovered(c)'
        <4>2. GrantsCovered(c)'
          BY Zenon, <2>b, <2>1 DEF MountedInv, GrantsCovered
        <4>3. ModesCovered(c)'
          BY Zenon, <1>10, <2>8, <2>1 DEF MountedInv, ModesCovered, SameCounts
        <4> QED
          BY Zenon, <4>2, <4>3, <2>1 DEF MountedInv
      <3> QED
        BY Zenon, <3>1, <3>2, <3>3, <3>4, <3>5, <3>6, <2>1 DEF MountedInv
    <2>14. LocalInv(c)'
      BY Zenon, <1>1, <1>10, <2>1, <2>13 DEF LocalInv, NoLateCallers, SameCounts
    <2> QED
      BY Zenon, <1>5, <1>10, <1>12, <2>14, ClientStepInv
  <1> QED
    BY Zenon, <1>11, <1>12

\* The lock takes the new mode once its users no longer need more.
LEMMA InvalidateStartInv ==
  ASSUME TypeOK, TypeOK', LockInv, WorkerBusy', NEW c \in Client, InvalidateStart(c),
         UNCHANGED serverVars
  PROVE  LockInv'
  <1> DEFINE inv == Head(lock[c].invs)
             new == [lock[c] EXCEPT !.inving = lock[c].mode, !.mode = inv.new]
  <1>1. /\ LocalInv(c) /\ lock[c] \in Lock /\ lock \in [Client -> Lock]
        /\ lock[c].invs \in Seq(Inval)
        /\ worker \in [Client -> {"idle", "invalidate", "finish"}]
    BY Zenon, LockInvParts DEF TypeOK, ClientTypeOK, Lock
  <1>2. /\ lock' = [lock EXCEPT ![c] = new]
        /\ worker' = [worker EXCEPT ![c] = "invalidate"]
        /\ UNCHANGED <<mount, netVars>>
        /\ worker[c] = "idle" /\ lock[c].invs # <<>>
        /\ lock_counts_match(inv.new, lock[c].users)
    BY Zenon DEF InvalidateStart
  <1>3. /\ inv \in Inval /\ inv = lock[c].invs[1] /\ Len(lock[c].invs) \in Nat
        /\ Len(lock[c].invs) > 0
    BY SMT, <1>1, <1>2, HeadTailProperties
  <1>4. inv.new \in Mode
    BY Zenon, <1>3 DEF Inval
  <1>5. /\ new.pend = lock[c].pend /\ new.mode = inv.new /\ new.invs = lock[c].invs
        /\ new.shrink = lock[c].shrink /\ SameCounts(lock[c], new)
    BY Zenon, <1>1, <1>4, StartKeeps
  <1> HIDE DEF new, inv
  <1>6. /\ lock'[c] = new /\ worker'[c] = "invalidate"
        /\ \A d \in Client \ {c} : lock'[d] = lock[d] /\ worker'[d] = worker[d]
    BY Zenon, <1>1, <1>2
  <1>7. \A d \in Client \ {c} : Frame(d)
    BY Zenon, <1>2, <1>6, OthersFrame DEF netVars
  <1>8. CASE ~ IsMounted(c)
    BY Zenon, <1>1, <1>2, <1>5, <1>6, <1>7, <1>8, LateStepInv
    DEF LocalInv, NoLateCallers, IsMounted, SameCounts
  <1>9. CASE IsMounted(c)
    <2>1. MountedInv(c) /\ IsMounted(c)'
      BY Zenon, <1>1, <1>2, <1>9 DEF LocalInv, IsMounted
    <2>2. FirstInval(c) = 1 /\ InvalQueued(c)
      BY SMT, <1>2, <1>3 DEF FirstInval, InvalQueued
    <2>3. Covers(invalidated[c], inv.new) /\ ~ InvalAnswered(c) /\ invalidated[c] # NoEntry
      <3>1. 1 \in FirstInval(c)..Len(lock[c].invs)
        BY <1>3, <2>2 DEF InvalQueued
      <3> QED
        BY Zenon, <1>3, <2>1, <2>2, <3>1 DEF MountedInv, InvalidationsCovered, OneInvalidation
    <2>4. Covers(Record(c), inv.new)
      BY Zenon, <2>3 DEF Record
    <2>5. ~ GrantSent(c)
      BY Zenon, <2>1, <2>2 DEF MountedInv, GrantsCovered, GrantSent
    <2>6. /\ RequestSent(c)' = RequestSent(c)
          /\ RequestQueued(c)' = RequestQueued(c)
          /\ GrantSent(c)' = GrantSent(c)
          /\ InvalSent(c)' = InvalSent(c)
          /\ InvalAnswered(c)' = InvalAnswered(c)
          /\ Record(c)' = Record(c)
          /\ Dropped(c)' = Dropped(c)
          /\ FirstInval(c)' = FirstInval(c)
          /\ InvalQueued(c)' = InvalQueued(c)
      BY Zenon, <1>2, <1>5, <1>6 DEF RequestSent, RequestQueued, GrantSent, InvalSent, InvalAnswered,
             Record, Dropped, FirstInval, InvalQueued, serverVars, netVars
    <2>7. MountedInv(c)'
      <3>1. LockKept(c)'
        <4>1. lock[c].have
          <5>1. lock[c] = NoLock => lock[c].invs = <<>>
            BY DEF NoLock
          <5> QED
            BY Zenon, <1>1, <1>2, <2>1, <5>1 DEF MountedInv, LockKept, WorkerBusy
        <4> QED
          BY Zenon, <1>2, <1>5, <1>6, <4>1, <2>1 DEF MountedInv, LockKept, SameCounts, netVars
      <3>2. OneRequest(c)'
        BY Zenon, <1>2, <1>5, <1>6, <2>6, <2>1 DEF MountedInv, OneRequest, serverVars, netVars
      <3>3. OneInvalidation(c)'
        BY Zenon, <1>2, <1>5, <1>6, <2>6, <2>1 DEF MountedInv, OneInvalidation, serverVars, netVars
      <3>4. GrantThenInval(c)' /\ OneList(c)'
        BY Zenon, <1>2, <2>1 DEF MountedInv, GrantThenInval, OneList, serverVars, netVars
      <3>5. InvalidationsCovered(c)'
        <4>1. /\ lock'[c].invs = lock[c].invs /\ lock'[c].mode = lock[c].invs[1].new
              /\ UNCHANGED <<toClient, toServer, invalidated>>
          BY Zenon, <1>2, <1>3, <1>5, <1>6, <2>1 DEF MountedInv, serverVars, netVars
        <4>2. \A msg \in toServer' : ~ (msg.cmd = "response" /\ msg.rid = c)
          BY Zenon, <2>3, <4>1, <2>1 DEF MountedInv, InvalAnswered
        <4> QED
          BY Zenon, <2>6, <4>1, <4>2, <2>1 DEF MountedInv, InvalidationsCovered
      <3>6. GrantsCovered(c)' /\ ModesCovered(c)'
        BY Zenon, <1>2, <1>5, <1>6, <2>4, <2>5, <2>6, <2>1
        DEF MountedInv, GrantsCovered, GrantSent, ModesCovered, netVars
      <3> QED
        BY Zenon, <3>1, <3>2, <3>3, <3>4, <3>5, <3>6, <2>1 DEF MountedInv
    <2>8. LocalInv(c)'
      BY Zenon, <1>2, <1>5, <1>6, <2>1, <2>7 DEF LocalInv, NoLateCallers, SameCounts
    <2> QED
      BY Zenon, <1>5, <1>6, <1>7, <1>9, <2>4, <2>8, ClientStepInv
  <1> QED
    BY Zenon, <1>8, <1>9

\* The response has the mode that the lock was brought down to.
LEMMA InvalidateRespondInv ==
  ASSUME TypeOK, TypeOK', LockInv, WorkerBusy', NEW c \in Client, InvalidateRespond(c),
         UNCHANGED serverVars
  PROVE  LockInv'
  <1> DEFINE inv == Head(lock[c].invs)
             resp == ResponseMsg(c, inv.new, inv.live)
  <1>1. /\ LocalInv(c) /\ lock[c].invs \in Seq(Inval) /\ WorkerBusy
        /\ worker \in [Client -> {"idle", "invalidate", "finish"}]
    BY Zenon, LockInvParts DEF TypeOK, ClientTypeOK, Lock
  <1>2. /\ worker' = [worker EXCEPT ![c] = "finish"]
        /\ toServer' = toServer \cup Sent(c, resp)
        /\ UNCHANGED <<lock, mount, toClient, link>>
        /\ worker[c] = "invalidate"
    BY Zenon DEF InvalidateRespond
  <1>3. /\ inv \in Inval /\ inv = lock[c].invs[1] /\ Len(lock[c].invs) \in Nat
        /\ Len(lock[c].invs) > 0
    BY <1>1, <1>2, HeadTailProperties DEF WorkerBusy
  <1>4. worker'[c] = "finish" /\ \A d \in Client \ {c} : worker'[d] = worker[d]
    BY Zenon, <1>1, <1>2
  <1>5. \A d \in Client \ {c} : Frame(d)
    BY Zenon, <1>2, <1>4, OwnMessages, OthersFrame
  <1>6. /\ resp.cmd = "response" /\ resp.rid = c /\ resp.mode = inv.new /\ resp.live = inv.live
    BY Zenon DEF ResponseMsg
  <1> HIDE DEF resp, inv
  <1>7. /\ \A n : n \in toServer' => n \in toServer \/ n = resp
        /\ \A n \in toServer : n \in toServer'
    BY Zenon, <1>2 DEF Sent
  <1>8. CASE ~ IsMounted(c)
    BY Zenon, <1>1, <1>2, <1>5, <1>8, LateStepInv DEF LocalInv, NoLateCallers, IsMounted
  <1>9. CASE IsMounted(c)
    <2>1. MountedInv(c) /\ IsMounted(c)'
      BY Zenon, <1>1, <1>2, <1>9 DEF LocalInv, IsMounted
    <2>2. FirstInval(c) = 1 /\ InvalQueued(c) /\ FirstInval(c)' = 2
      BY SMT, <1>2, <1>3, <1>4 DEF FirstInval, InvalQueued
    <2>3. /\ inv.live /\ Covers(invalidated[c], inv.new) /\ lock[c].mode = inv.new
          /\ Len(lock[c].invs) = 1 /\ ~ InvalAnswered(c) /\ ~ InvalSent(c)
          /\ invalidated[c] # NoEntry
      <3>1. Len(lock[c].invs) = 1 /\ ~ InvalAnswered(c) /\ ~ InvalSent(c) /\ invalidated[c] # NoEntry
        <4>1. Len(lock[c].invs) <= FirstInval(c)
          BY Zenon, <2>1 DEF MountedInv, OneInvalidation
        <4>2. ~ InvalAnswered(c) /\ ~ InvalSent(c) /\ invalidated[c] # NoEntry
          BY Zenon, <2>1, <2>2 DEF MountedInv, OneInvalidation
        <4>3. Len(lock[c].invs) <= 1
          BY Zenon, <2>2, <4>1
        <4>4. Len(lock[c].invs) \in Nat /\ Len(lock[c].invs) > 0
          BY Zenon, <1>3
        <4>5. \A k \in Nat : k > 0 /\ k <= 1 => k = 1
          OBVIOUS
        <4>6. Len(lock[c].invs) = 1
          BY Zenon, <4>3, <4>4, <4>5, Zenon
        <4> QED
          BY Zenon, <4>2, <4>6
      <3>2. 1 \in FirstInval(c)..Len(lock[c].invs)
        BY SMT, <2>2, <3>1
      <3>3. inv.live /\ Covers(invalidated[c], inv.new) /\ lock[c].mode = inv.new
        BY Zenon, <1>2, <1>3, <2>1, <3>2 DEF MountedInv, InvalidationsCovered
      <3> QED
        BY Zenon, <3>1, <3>3
    <2>4. ~ GrantSent(c)
      BY Zenon, <2>1, <2>2 DEF MountedInv, GrantsCovered, GrantSent
    <2>5. /\ RequestQueued(c)' = RequestQueued(c)
          /\ GrantSent(c)' = GrantSent(c)
          /\ InvalSent(c)' = InvalSent(c)
          /\ Record(c)' = Record(c)
          /\ Dropped(c)' = Dropped(c)
          /\ ~ InvalQueued(c)'
      <3>1. UNCHANGED <<lock, toClient, link, granted, requested, invalidated>>
        BY Zenon, <1>2 DEF serverVars
      <3>2. Len(lock'[c].invs) = 1
        BY Zenon, <2>3, <3>1
      <3>3. ~ InvalQueued(c)'
        BY <2>2, <3>2 DEF InvalQueued
      <3> QED
        BY Zenon, <3>1, <3>3 DEF RequestQueued, GrantSent, InvalSent, Record, Dropped
    <2>6. RequestSent(c)' = RequestSent(c)
      BY Zenon, <1>6, <1>7 DEF RequestSent
    <2>7. \A n \in toServer' : n.cmd = "response" /\ n.rid = c => n = resp
      BY Zenon, <1>7, <2>3 DEF InvalAnswered
    <2>8. MountedInv(c)'
      <3>1. LockKept(c)'
        BY Zenon, <1>2, <2>1 DEF MountedInv, LockKept
      <3>2. OneRequest(c)'
        <4>1. \A n \in toServer' : n.cmd = "request" /\ n.rid = c => n \in toServer
          BY Zenon, <1>6, <1>7, <2>1 DEF MountedInv
        <4>2. OneRequest(c) /\ lock'[c] = lock[c] /\ requested' = requested
          BY Zenon, <1>2, <2>1 DEF MountedInv, serverVars
        <4> QED
          <5>1. \A m, n \in toServer' :
                   m.cmd = "request" /\ m.rid = c /\ n.cmd = "request" /\ n.rid = c => m = n
            BY Zenon, <4>1, <4>2, <2>1 DEF MountedInv, OneRequest
          <5> QED
            BY Zenon, <2>5, <2>6, <4>2, <5>1, <2>1 DEF MountedInv, OneRequest
      <3>3. OneInvalidation(c)'
        <4>1. UNCHANGED <<lock, invalidated>> /\ FirstInval(c)' = 2 /\ Len(lock'[c].invs) = 1
          BY Zenon, <1>2, <2>2, <2>3, <2>1 DEF MountedInv, serverVars
        <4>2. ~ InvalSent(c)' /\ ~ InvalQueued(c)' /\ invalidated'[c] # NoEntry
          BY Zenon, <2>3, <2>5, <4>1, <2>1 DEF MountedInv
        <4>3. Len(lock'[c].invs) <= FirstInval(c)'
          BY <4>1
        <4> QED
          BY Zenon, <2>7, <4>2, <4>3, <2>1 DEF MountedInv, OneInvalidation
      <3>4. GrantThenInval(c)' /\ OneList(c)'
        BY Zenon, <1>2, <2>1 DEF MountedInv, GrantThenInval, OneList, serverVars
      <3>5. InvalidationsCovered(c)'
        <4>1. \A n \in toServer' : n.cmd = "response" /\ n.rid = c =>
                 n.live /\ Covers(invalidated[c], n.mode) /\ Covers(n.mode, lock[c].mode)
          BY Zenon, <1>6, <2>3, <2>7, <2>1 DEF MountedInv, Covers
        <4>2. FirstInval(c)'..Len(lock[c].invs) = {}
          BY SMT, <2>2, <2>3
        <4>3. \A i \in 1..Len(toClient[c]) : toClient[c][i].cmd # "inval"
          BY Zenon, <2>3, <2>1 DEF MountedInv, InvalSent
        <4> QED
          BY Zenon, <1>2, <1>4, <4>1, <4>2, <4>3, <2>1 DEF MountedInv, InvalidationsCovered, serverVars
      <3>6. GrantsCovered(c)' /\ ModesCovered(c)'
        BY Zenon, <1>2, <2>4, <2>5, <2>1 DEF MountedInv, GrantsCovered, GrantSent, ModesCovered
      <3> QED
        BY Zenon, <3>1, <3>2, <3>3, <3>4, <3>5, <3>6, <2>1 DEF MountedInv
    <2>9. LocalInv(c)'
      BY Zenon, <1>1, <1>2, <2>1, <2>8 DEF LocalInv, NoLateCallers
    <2> QED
      BY Zenon, <1>2, <1>5, <1>9, <2>9, ClientStepInv
  <1> QED
    BY Zenon, <1>8, <1>9

\* The invalidation that was answered leaves the list.
LEMMA InvalidateFinishInv ==
  ASSUME TypeOK, TypeOK', LockInv, WorkerBusy', NEW c \in Client, InvalidateFinish(c),
         UNCHANGED serverVars
  PROVE  LockInv'
  <1> DEFINE s == lock[c].invs
             new == [lock[c] EXCEPT !.inving = "null", !.invs = Tail(s)]
  <1>1. /\ LocalInv(c) /\ lock[c] \in Lock /\ lock \in [Client -> Lock]
        /\ s \in Seq(Inval) /\ WorkerBusy
        /\ worker \in [Client -> {"idle", "invalidate", "finish"}]
    BY Zenon, LockInvParts DEF TypeOK, ClientTypeOK, Lock
  <1>2. /\ lock' = [lock EXCEPT ![c] = put_lock(new)]
        /\ worker' = [worker EXCEPT ![c] = "idle"]
        /\ UNCHANGED <<mount, netVars>>
        /\ worker[c] = "finish"
    BY Zenon DEF InvalidateFinish
  <1>3. /\ s # <<>> /\ Len(s) \in Nat /\ Tail(s) \in Seq(Inval) /\ Len(Tail(s)) = Len(s) - 1
        /\ \A i \in 1..Len(Tail(s)) : Tail(s)[i] = s[i + 1]
    BY <1>1, <1>2, HeadTailProperties DEF WorkerBusy
  <1>4. /\ new \in Lock /\ new.pend = lock[c].pend /\ new.mode = lock[c].mode /\ new.invs = Tail(s)
        /\ new.shrink = lock[c].shrink /\ SameCounts(lock[c], new)
    BY ZenonT(60), <1>1, <1>3, InvsKeeps, UpdateType
  <1> HIDE DEF new
  <1>5. /\ lock'[c] = put_lock(new) /\ worker'[c] = "idle"
        /\ \A d \in Client \ {c} : lock'[d] = lock[d] /\ worker'[d] = worker[d]
    BY Zenon, <1>1, <1>2
  <1>6. /\ lock'[c].pend = lock[c].pend
        /\ lock'[c].mode = lock[c].mode
        /\ lock'[c].invs = Tail(s)
        /\ lock'[c].shrink => lock[c].shrink
        /\ lock'[c].users = lock[c].users
        /\ lock'[c].waiters = lock[c].waiters
        /\ lock[c].have => lock'[c].have \/ lock'[c] = NoLock
    <2>1. /\ put_lock(new).pend = new.pend /\ put_lock(new).mode = new.mode
          /\ put_lock(new).invs = new.invs
          /\ put_lock(new).shrink => new.shrink
          /\ put_lock(new).users = new.users /\ put_lock(new).waiters = new.waiters
          /\ new.have => put_lock(new).have \/ put_lock(new) = NoLock
      BY Zenon, <1>4, PutLockKeeps
    <2> QED
      BY Zenon, <1>4, <1>5, <2>1 DEF SameCounts
  <1>7. \A d \in Client \ {c} : Frame(d)
    BY Zenon, <1>2, <1>5, OthersFrame DEF netVars
  <1>8. CASE ~ IsMounted(c)
    BY Zenon, <1>1, <1>2, <1>6, <1>7, <1>8, LateStepInv DEF LocalInv, NoLateCallers, IsMounted
  <1>9. CASE IsMounted(c)
    <2>1. MountedInv(c) /\ IsMounted(c)'
      BY Zenon, <1>1, <1>2, <1>9 DEF LocalInv, IsMounted
    <2>2. FirstInval(c) = 2 /\ FirstInval(c)' = 1
      BY Zenon, <1>2, <1>5 DEF FirstInval
    <2>3. InvalQueued(c)' = InvalQueued(c)
      BY SMT, <1>3, <1>6, <2>2 DEF InvalQueued
    <2>4. /\ RequestSent(c)' = RequestSent(c)
          /\ RequestQueued(c)' = RequestQueued(c)
          /\ GrantSent(c)' = GrantSent(c)
          /\ InvalSent(c)' = InvalSent(c)
          /\ InvalAnswered(c)' = InvalAnswered(c)
          /\ Record(c)' = Record(c)
          /\ Dropped(c)' = Dropped(c)
      BY Zenon, <1>2 DEF RequestSent, RequestQueued, GrantSent, InvalSent, InvalAnswered,
             Record, Dropped, serverVars, netVars
    <2>5. MountedInv(c)'
      <3>1. LockKept(c)'
        <4>1. lock[c].have
          <5>1. lock[c] = NoLock => lock[c].invs = <<>>
            BY DEF NoLock
          <5> QED
            BY Zenon, <1>1, <1>2, <2>1, <5>1 DEF MountedInv, LockKept, WorkerBusy
        <4> QED
          BY Zenon, <1>2, <1>6, <4>1, <2>1 DEF MountedInv, LockKept, netVars
      <3>2. OneRequest(c)'
        BY Zenon, <1>2, <1>6, <2>4, <2>1 DEF MountedInv, OneRequest, serverVars, netVars
      <3>3. OneInvalidation(c)'
        <4>1. Len(lock'[c].invs) <= FirstInval(c)'
          <5>1. Len(s) <= FirstInval(c)
            BY Zenon, <2>1 DEF MountedInv, OneInvalidation
          <5> QED
            BY SMT, <1>3, <1>6, <2>2, <5>1
        <4>2. UNCHANGED <<toServer, invalidated>>
          BY Zenon, <1>2, <2>1 DEF MountedInv, serverVars, netVars
        <4> QED
          BY Zenon, <2>3, <2>4, <4>1, <4>2, <2>1 DEF MountedInv, OneInvalidation
      <3>4. GrantThenInval(c)' /\ OneList(c)'
        BY Zenon, <1>2, <2>1 DEF MountedInv, GrantThenInval, OneList, serverVars, netVars
      <3>5. InvalidationsCovered(c)'
        <4>1. \A i \in FirstInval(c)'..Len(lock'[c].invs) :
                 lock'[c].invs[i].live /\ Covers(invalidated[c], lock'[c].invs[i].new)
          <5> SUFFICES ASSUME NEW i \in 1..Len(Tail(s))
                       PROVE  Tail(s)[i].live /\ Covers(invalidated[c], Tail(s)[i].new)
            BY Zenon, <1>6, <2>2, <2>1 DEF MountedInv
          <5>1. i + 1 \in FirstInval(c)..Len(s) /\ Tail(s)[i] = s[i + 1]
            BY SMT, <1>3, <2>2
          <5> QED
            BY Zenon, <5>1, <2>1 DEF MountedInv, InvalidationsCovered
        <4> QED
          BY Zenon, <1>2, <1>5, <1>6, <4>1, <2>1 DEF MountedInv, InvalidationsCovered, serverVars, netVars
      <3>6. GrantsCovered(c)' /\ ModesCovered(c)'
        BY Zenon, <1>2, <1>6, <2>3, <2>4, <2>1 DEF MountedInv, GrantsCovered, ModesCovered, netVars
      <3> QED
        BY Zenon, <3>1, <3>2, <3>3, <3>4, <3>5, <3>6, <2>1 DEF MountedInv
    <2>6. LocalInv(c)'
      BY Zenon, <1>1, <1>6, <2>1, <2>5 DEF LocalInv, NoLateCallers
    <2> QED
      BY Zenon, <1>6, <1>7, <1>9, <2>6, ClientStepInv
  <1> QED
    BY Zenon, <1>8, <1>9

=============================================================================
