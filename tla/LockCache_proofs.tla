-------------------------- MODULE LockCache_proofs --------------------------
(***************************************************************************)
(* The steps of the mounts keep CacheInv, the inductive invariant behind   *)
(* the coherence of what mounts cache under the lock.  CacheInv says       *)
(* exactly which modes the messages move a mount between, where LockInv    *)
(* says what covers what.                                                  *)
(***************************************************************************)
EXTENDS LockSystem_proofs

-----------------------------------------------------------------------------
(* The parts of the invariant                                              *)

\* The protocol's part, and the caches' part, of the invariant of one mount.
Exact(c) == IsMounted(c) => RequestNeeded(c) /\ ModesExact(c)

Allowed(c) == IsMounted(c) => CacheAllowed(c) /\ InodeAllowed(c)

\* CacheInv is about each mount alone.
LEMMA CacheInvParts ==
  CacheInv <=> \A c \in Client : IdleKept(c) /\ LinkKept(c) /\ Exact(c) /\ Allowed(c)
  BY Zenon DEF CacheInv, Exact, Allowed

\* The types of what the invariant is about.
LEMMA LockFields ==
  ASSUME TypeOK
  PROVE  /\ lock \in [Client -> Lock]
         /\ \A c \in Client :
               /\ lock[c] \in Lock
               /\ lock[c].mode \in Mode
               /\ lock[c].inving \in Mode
               /\ lock[c].users \in [UseMode -> Nat]
               /\ lock[c].waiters \in [UseMode -> Nat]
               /\ lock[c].invs \in Seq(Inval)
               /\ toClient[c] \in Seq(ClientMsg)
               /\ Len(lock[c].invs) \in Nat
               /\ Len(toClient[c]) \in Nat
               /\ CacheMode(c) \in Mode
  <1>1. lock \in [Client -> Lock] /\ toClient \in [Client -> Seq(ClientMsg)]
    BY Zenon DEF TypeOK, ClientTypeOK, NetTypeOK
  <1>2. ASSUME NEW c \in Client
        PROVE  /\ lock[c] \in Lock
               /\ lock[c].mode \in Mode
               /\ lock[c].inving \in Mode
               /\ lock[c].users \in [UseMode -> Nat]
               /\ lock[c].waiters \in [UseMode -> Nat]
               /\ lock[c].invs \in Seq(Inval)
               /\ toClient[c] \in Seq(ClientMsg)
    BY Zenon, <1>1, <1>2 DEF Lock
  <1>3. ASSUME NEW c \in Client
        PROVE  Len(lock[c].invs) \in Nat /\ Len(toClient[c]) \in Nat
    BY <1>2
  <1>4. ASSUME NEW c \in Client
        PROVE  CacheMode(c) \in Mode
    BY Zenon, <1>2 DEF CacheMode
  <1> QED
    BY Zenon, <1>1, <1>2, <1>3, <1>4

\* The work on an invalidation: the caches are still those of the mode that the server
\* has on its invalidated list, and the lock has its new mode.
LEMMA InvalidatingMode ==
  ASSUME TypeOK, LockInv, NEW c \in Client, IsMounted(c), Exact(c), worker[c] = "invalidate"
  PROVE  /\ CacheMode(c) = lock[c].inving
         /\ CacheMode(c) = invalidated[c]
         /\ CacheMode(c) = Record(c)
         /\ lock[c].invs # <<>>
         /\ lock[c].mode = lock[c].invs[1].new
         /\ Lowers(lock[c].invs[1], CacheMode(c))
         /\ InvalQueued(c)
         /\ 1 \in FirstInval(c)..Len(lock[c].invs)
         /\ FirstInval(c) = 1
  <1>1. MountedInv(c)
    BY Zenon, LockInvParts DEF LocalInv
  <1>2. lock[c].invs # <<>>
    BY Zenon, LockInvParts DEF WorkerBusy
  <1>3. FirstInval(c) = 1
    BY Zenon DEF FirstInval
  <1>4. 1 \in FirstInval(c)..Len(lock[c].invs) /\ 1 <= Len(lock[c].invs)
    BY <1>2, <1>3, LockFields, HeadTailProperties
  <1>5. InvalQueued(c)
    BY Zenon, <1>3, <1>4 DEF InvalQueued
  <1>6. invalidated[c] # NoEntry
    BY Zenon, <1>1, <1>5 DEF MountedInv, OneInvalidation
  <1>7. lock[c].mode = lock[c].invs[1].new
    BY Zenon, <1>1 DEF MountedInv, InvalidationsCovered
  <1>8. Lowers(lock[c].invs[1], CacheMode(c)) /\ invalidated[c] = CacheMode(c)
    BY Zenon, <1>4 DEF Exact, ModesExact
  <1> QED
    BY Zenon, <1>2, <1>3, <1>4, <1>5, <1>6, <1>7, <1>8 DEF CacheMode, Record

\* Without an invalidation that is waiting for its response, the caches have the mode
\* of the lock.
LEMMA QuietMode ==
  ASSUME TypeOK, LockInv, NEW c \in Client, IsMounted(c), Exact(c), ~ InvalQueued(c)
  PROVE  worker[c] # "invalidate" /\ CacheMode(c) = lock[c].mode
  BY Zenon, InvalidatingMode DEF CacheMode

\* The mode that the caches are in covers every user.
LEMMA UserCacheMode ==
  ASSUME TypeOK, LockInv, NEW c \in Client, Exact(c), NEW m \in UseMode,
         lock[c].users[m] > 0
  PROVE  /\ IsMounted(c)
         /\ lock_modes_match(lock[c].mode, m)
         /\ lock_modes_match(CacheMode(c), m)
  <1>1. IsMounted(c)
    BY SMT DEF LockInv, NoLateCallers, Nobody
  <1>2. lock_modes_match(lock[c].mode, m)
    BY Zenon DEF LockInv, UsersCovered, lock_counts_match
  <1>3. lock_modes_match(CacheMode(c), m)
    <2>1. CASE worker[c] = "invalidate"
      <3>1. /\ lock[c].mode = lock[c].invs[1].new
            /\ Lowers(lock[c].invs[1], CacheMode(c))
        BY Zenon, <1>1, <2>1, InvalidatingMode
      <3> QED
        BY <1>2, <3>1 DEF Lowers, KeepsCache, lock_modes_match, UseMode
    <2>2. CASE worker[c] # "invalidate"
      BY Zenon, <1>2, <2>2 DEF CacheMode
    <2> QED
      BY Zenon, <2>1, <2>2
  <1> QED
    BY Zenon, <1>1, <1>2, <1>3

\* No two mounts have caches in modes that exclude each other.
LEMMA CachesExclude ==
  ASSUME TypeOK, LockInv, NEW c \in Client, NEW d \in Client, c # d,
         IsMounted(c), IsMounted(d), Exact(c), Exact(d)
  PROVE  Compatible(CacheMode(c), CacheMode(d))
  <1>1. Exclude(c, d) /\ Exclude(d, c)
    BY Zenon DEF LockInv
  <1>2. CacheMode(c) = lock[c].mode \/ CacheMode(c) = Record(c)
    BY Zenon, InvalidatingMode DEF CacheMode
  <1>3. CacheMode(d) = lock[d].mode \/ CacheMode(d) = Record(d)
    BY Zenon, InvalidatingMode DEF CacheMode
  <1> QED
    BY <1>1, <1>2, <1>3, CompatibleSym DEF Exclude, Compatible

\* A reader's caches can be read.
LEMMA ReaderMode ==
  ASSUME TypeOK, LockInv, NEW c \in Client, Exact(c), Reading(c)
  PROVE  /\ IsMounted(c)
         /\ lock_mode_can_read(lock[c].mode)
         /\ lock_mode_can_read(CacheMode(c))
  <1>1. PICK m \in UseMode : lock_mode_can_read(m) /\ lock[c].users[m] > 0
    BY Zenon DEF Reading
  <1>2. /\ IsMounted(c)
        /\ lock_modes_match(lock[c].mode, m)
        /\ lock_modes_match(CacheMode(c), m)
    BY Zenon, <1>1, UserCacheMode
  <1> QED
    BY Zenon, <1>1, <1>2 DEF lock_modes_match, lock_mode_can_read

\* A writer's caches can be written.
LEMMA WriterMode ==
  ASSUME TypeOK, LockInv, NEW c \in Client, Exact(c), Writing(c)
  PROVE  /\ IsMounted(c)
         /\ lock_mode_can_write(lock[c].mode)
         /\ lock_mode_can_write(CacheMode(c))
  <1>1. PICK m \in UseMode : lock_mode_can_write(m) /\ lock[c].users[m] > 0
    BY Zenon DEF Writing
  <1>2. /\ IsMounted(c)
        /\ lock_modes_match(lock[c].mode, m)
        /\ lock_modes_match(CacheMode(c), m)
    BY Zenon, <1>1, UserCacheMode
  <1> QED
    BY <1>1, <1>2 DEF lock_modes_match, lock_mode_can_write

-----------------------------------------------------------------------------
(* Steps that leave the mode of a mount alone                              *)

\* What a step must leave alone of a mount for it to keep the protocol's part: the mode,
\* the lists and the messages, but for a request for a mode that the lock does not have.
ExactFrame(c) ==
    /\ mount'[c] = mount[c]
    /\ lock'[c].mode = lock[c].mode
    /\ lock'[c].invs = lock[c].invs
    /\ worker'[c] = worker[c]
    /\ CacheMode(c)' = CacheMode(c)
    /\ toClient'[c] = toClient[c]
    /\ link'[c] = link[c]
    /\ granted'[c] = granted[c]
    /\ invalidated'[c] = invalidated[c]
    /\ \A msg \in toServer' : msg.rid = c =>
          msg \in toServer \/ (msg.cmd = "request" /\ Needed(c, msg.mode))
    /\ \A i \in 1..Len(requested') : requested'[i].rid = c =>
          \E j \in 1..Len(requested) : requested[j] = requested'[i]

\* A mount whose part of the protocol a step leaves alone keeps it.
LEMMA ExactKept ==
  ASSUME NEW c \in Client, Exact(c), ExactFrame(c)
  PROVE  Exact(c)'
  <1>1. CASE ~ IsMounted(c)
    BY Zenon, <1>1 DEF Exact, IsMounted, ExactFrame
  <1>2. CASE IsMounted(c)
    <2> USE DEF ExactFrame
    <2>1. RequestNeeded(c) /\ ModesExact(c)
      BY Zenon, <1>2 DEF Exact
    <2>2. \A msg \in toServer' : msg.cmd = "request" /\ msg.rid = c => Needed(c, msg.mode)
      BY Zenon, <2>1 DEF RequestNeeded
    <2>3. ASSUME NEW i \in 1..Len(requested'), requested'[i].rid = c
          PROVE  Needed(c, requested'[i].mode)
      <3>1. PICK j \in 1..Len(requested) : requested[j] = requested'[i]
        BY Zenon, <2>3
      <3> QED
        BY Zenon, <2>1, <2>3, <3>1 DEF RequestNeeded
    <2>4. RequestNeeded(c)' <=>
             /\ \A msg \in toServer' : msg.cmd = "request" /\ msg.rid = c => Needed(c, msg.mode)
             /\ \A i \in 1..Len(requested') : requested'[i].rid = c => Needed(c, requested'[i].mode)
      BY Zenon DEF RequestNeeded, Needed
    <2>5. RequestNeeded(c)'
      BY Zenon, <2>2, <2>3, <2>4
    <2>6. GrantSent(c)' = GrantSent(c) /\ Record(c)' = Record(c) /\ FirstInval(c)' = FirstInval(c)
      BY Zenon DEF GrantSent, Record, FirstInval
    <2>7. \A msg \in toServer' : msg.cmd = "response" /\ msg.rid = c => msg.mode = lock'[c].mode
      BY Zenon, <2>1 DEF ModesExact
    <2>8. /\ link'[c] = "up" /\ ~ GrantSent(c)' /\ granted'[c] # NoEntry =>
                granted'[c] = lock'[c].mode
          /\ granted'[c] # "null"
      BY Zenon, <2>1, <2>6 DEF ModesExact
    <2>9. \A i \in 1..Len(toClient'[c]) : toClient'[c][i].cmd = "grant" =>
             /\ Raises(toClient'[c][i], lock'[c].mode)
             /\ Record(c)' = IF toClient'[c][i].new = "null" THEN NoEntry ELSE toClient'[c][i].new
      BY ZenonT(60), <2>1, <2>6 DEF ModesExact
    <2>10. \A i \in 1..Len(toClient'[c]) : toClient'[c][i].cmd = "inval" =>
             /\ Lowers(toClient'[c][i], invalidated'[c])
             /\ i = 1 => invalidated'[c] = lock'[c].mode
      BY Zenon, <2>1 DEF ModesExact
    <2>11. \A i \in FirstInval(c)'..Len(lock'[c].invs) :
             Lowers(lock'[c].invs[i], CacheMode(c)') /\ invalidated'[c] = CacheMode(c)'
      BY Zenon, <2>1, <2>6 DEF ModesExact
    <2>12. ModesExact(c)'
      BY Zenon, <2>7, <2>8, <2>9, <2>10, <2>11 DEF ModesExact
    <2> QED
      BY Zenon, <2>5, <2>12 DEF Exact
  <1> QED
    BY Zenon, <1>1, <1>2

\* What a step must leave alone of a mount for it to keep the caches' part.
AllowedFrame(c) ==
    /\ mount'[c] = mount[c]
    /\ lock'[c].mode = lock[c].mode
    /\ CacheMode(c)' = CacheMode(c)
    /\ lock[c].gen => lock'[c].gen \/ lock[c].mode = "null"
    /\ cached'[c] => cached[c]
    /\ dirty'[c] => dirty[c]
    /\ lock[c].wrote \/ Writing(c) => lock'[c].wrote \/ Writing(c)' \/ lock[c] = NoLock
                                      \/ CacheMode(c) = "null" \/ ~ dirty'[c]
    /\ inode'[c] = "stale" => inode[c] = "stale"

\* A mount whose caches a step leaves alone keeps what they are allowed.
LEMMA AllowedKept ==
  ASSUME NEW c \in Client, Allowed(c), AllowedFrame(c)
  PROVE  Allowed(c)'
  <1>1. CASE ~ IsMounted(c)
    BY Zenon, <1>1 DEF Allowed, IsMounted, AllowedFrame
  <1>2. CASE IsMounted(c)
    <2> USE DEF AllowedFrame
    <2>1. CacheAllowed(c) /\ InodeAllowed(c)
      BY Zenon, <1>2 DEF Allowed
    <2>2. CacheAllowed(c)'
      <3>1. lock[c] = NoLock => ~ (lock[c].wrote \/ Writing(c))
        BY DEF NoLock, Writing, Nobody
      <3>2. ~ lock_mode_can_write("null")
        BY DEF lock_mode_can_write
      <3> QED
        BY Zenon, <2>1, <3>1, <3>2 DEF CacheAllowed
    <2>3. InodeAllowed(c)'
      <3>1. ~ lock_mode_can_read("null")
        BY DEF lock_mode_can_read
      <3> QED
        BY Zenon, <2>1, <3>1 DEF InodeAllowed
    <2> QED
      BY Zenon, <2>2, <2>3 DEF Allowed
  <1> QED
    BY Zenon, <1>1, <1>2

\* Nothing that the invariant of c looks at changes.
CacheFrame(c) ==
    /\ lock'[c] = lock[c]
    /\ worker'[c] = worker[c]
    /\ mount'[c] = mount[c]
    /\ toClient'[c] = toClient[c]
    /\ link'[c] = link[c]
    /\ cached'[c] = cached[c]
    /\ dirty'[c] = dirty[c]
    /\ inode'[c] = inode[c]
    /\ granted'[c] = granted[c]
    /\ invalidated'[c] = invalidated[c]
    /\ \A msg \in toServer' : msg.rid = c => msg \in toServer
    /\ \A i \in 1..Len(requested') : requested'[i].rid = c =>
          \E j \in 1..Len(requested) : requested[j] = requested'[i]

\* The whole invariant of one mount.
MountCacheInv(c) == IdleKept(c) /\ LinkKept(c) /\ Exact(c) /\ Allowed(c)

\* A mount that a step leaves alone keeps its invariant.
LEMMA FrameKept ==
  ASSUME NEW c \in Client, MountCacheInv(c), CacheFrame(c)
  PROVE  MountCacheInv(c)'
  <1> USE DEF CacheFrame, MountCacheInv
  <1>1. CacheMode(c)' = CacheMode(c) /\ Writing(c)' = Writing(c)
    BY Zenon DEF CacheMode, Writing
  <1>2. Exact(c)'
    BY Zenon, <1>1, ExactKept DEF ExactFrame
  <1>3. Allowed(c)'
    BY Zenon, <1>1, AllowedKept DEF AllowedFrame
  <1>4. IdleKept(c)' /\ LinkKept(c)'
    BY Zenon DEF IdleKept, LinkKept, Running
  <1> QED
    BY Zenon, <1>2, <1>3, <1>4

\* put_lock() leaves no idle lock without a mode in the tree, and frees only locks that
\* have neither a mode nor an invalidation.
LEMMA PutLockIdle ==
  ASSUME NEW l \in Lock
  PROVE  /\ \/ put_lock(l) = l
            \/ /\ put_lock(l) = NoLock
               /\ l.mode = "null" /\ l.invs = <<>> /\ l.users = Nobody
         /\ put_lock(l).have /\ lock_idle(put_lock(l)) => put_lock(l).mode # "null"
  <1>1. NoLock.have = FALSE
    BY DEF NoLock
  <1> QED
    BY Zenon, <1>1 DEF put_lock, lock_idle

\* Without invalidations no work is being done on one.
LEMMA NoInvsMode ==
  ASSUME TypeOK, LockInv, NEW c \in Client, lock[c].invs = <<>>
  PROVE  worker[c] = "idle" /\ CacheMode(c) = lock[c].mode
  BY Zenon DEF LockInv, WorkerBusy, CacheMode

\* A step that changes only the lock of one mount, and keeps its invariant, keeps
\* everyone's.
LEMMA OneMountInv ==
  ASSUME CacheInv, NEW c \in Client, UNCHANGED <<granted, requested, invalidated>>,
         \A d \in Client \ {c} : /\ lock'[d] = lock[d]
                                 /\ worker'[d] = worker[d]
                                 /\ mount'[d] = mount[d]
                                 /\ toClient'[d] = toClient[d]
                                 /\ link'[d] = link[d]
                                 /\ cached'[d] = cached[d]
                                 /\ dirty'[d] = dirty[d]
                                 /\ inode'[d] = inode[d]
                                 /\ \A msg \in toServer' : msg.rid = d => msg \in toServer,
         MountCacheInv(c)'
  PROVE  CacheInv'
  <1>1. ASSUME NEW d \in Client, d # c PROVE MountCacheInv(d)'
    <2>1. MountCacheInv(d)
      BY Zenon, CacheInvParts DEF MountCacheInv
    <2>2. CacheFrame(d)
      BY Zenon, <1>1 DEF CacheFrame
    <2> QED
      BY Zenon, <2>1, <2>2, FrameKept
  <1>2. \A d \in Client : MountCacheInv(d)'
    BY Zenon, <1>1
  <1> QED
    BY Zenon, <1>2 DEF CacheInv, MountCacheInv, Exact, Allowed

\* A step that changes only what callers, the shrinker and transactions change of a
\* lock, and sends no more than a request for a mode that the lock does not have.
LEMMA LockOnlyInv ==
  ASSUME TypeOK, LockInv, CacheInv, NEW c \in Client, NEW l \in Lock, NEW m \in Mode,
         \/ lock' = [lock EXCEPT ![c] = put_lock(l)]
         \/ lock' = [lock EXCEPT ![c] = l] /\ (l.have /\ lock_idle(l) => l.mode # "null"),
         l.mode = lock[c].mode, l.inving = lock[c].inving, l.invs = lock[c].invs,
         l.gen = lock[c].gen,
         lock[c].wrote \/ Writing(c) =>
            \/ l.wrote
            \/ \E k \in UseMode : lock_mode_can_write(k) /\ l.users[k] > 0
            \/ ~ dirty'[c],
         UNCHANGED <<worker, mount, toClient, link, cached, inode, granted, requested, invalidated>>,
         dirty' = dirty \/ dirty' = [dirty EXCEPT ![c] = FALSE],
         toServer' = toServer \/ (toServer' = toServer \cup Sent(c, RequestMsg(c, m)) /\ Needed(c, m))
  PROVE  CacheInv'
  <1>1. MountCacheInv(c)
    BY Zenon, CacheInvParts DEF MountCacheInv
  <1>2. /\ \A d \in Client \ {c} : lock'[d] = lock[d]
        /\ \/ lock'[c] = l /\ (l.have /\ lock_idle(l) => l.mode # "null")
           \/ lock'[c] = put_lock(l)
    BY Zenon, LockFields
  <1>3. \/ lock'[c] = l
        \/ /\ lock'[c] = NoLock
           /\ lock[c].mode = "null" /\ lock[c].invs = <<>>
    BY Zenon, <1>2, PutLockIdle
  <1>4. IdleKept(c)'
    <2>1. CASE lock'[c] = l /\ (l.have /\ lock_idle(l) => l.mode # "null")
      BY Zenon, <2>1 DEF IdleKept
    <2>2. CASE lock'[c] = put_lock(l)
      <3>1. put_lock(l).have /\ lock_idle(put_lock(l)) => put_lock(l).mode # "null"
        BY Zenon, PutLockIdle
      <3> QED
        BY Zenon, <2>2, <3>1 DEF IdleKept
    <2> QED
      BY Zenon, <1>2, <2>1, <2>2
  <1>5. LinkKept(c)'
    BY Zenon, <1>1 DEF MountCacheInv, LinkKept, Running
  <1>6. /\ lock'[c].mode = lock[c].mode
        /\ lock'[c].invs = lock[c].invs
        /\ CacheMode(c)' = CacheMode(c)
        /\ lock[c].gen => lock'[c].gen \/ lock[c].mode = "null"
    <2>1. CASE lock'[c] = l
      BY Zenon, <2>1 DEF CacheMode
    <2>2. CASE lock'[c] = NoLock /\ lock[c].mode = "null" /\ lock[c].invs = <<>>
      <3>1. NoLock.mode = "null" /\ NoLock.invs = <<>>
        BY DEF NoLock
      <3>2. worker[c] = "idle" /\ CacheMode(c) = lock[c].mode
        BY Zenon, <2>2, NoInvsMode
      <3> QED
        BY Zenon, <2>2, <3>1, <3>2 DEF CacheMode
    <2> QED
      BY Zenon, <1>3, <2>1, <2>2
  <1>7. /\ \A msg \in toServer' : msg.rid = c =>
              msg \in toServer \/ (msg.cmd = "request" /\ Needed(c, msg.mode))
        /\ \A d \in Client \ {c} : \A msg \in toServer' : msg.rid = d => msg \in toServer
    BY SMT DEF Sent, RequestMsg
  <1>8. Exact(c)'
    BY Zenon, <1>1, <1>6, <1>7, ExactKept DEF ExactFrame, MountCacheInv
  <1>9. dirty'[c] => dirty[c]
    BY Zenon DEF TypeOK, ClientTypeOK
  <1>10. lock[c].wrote \/ Writing(c) => lock'[c].wrote \/ Writing(c)' \/ lock[c] = NoLock
                                        \/ CacheMode(c) = "null" \/ ~ dirty'[c]
    <2>1. CASE lock'[c] = l
      BY Zenon, <2>1 DEF Writing
    <2>2. CASE lock'[c] = NoLock /\ lock[c].mode = "null" /\ lock[c].invs = <<>>
      BY Zenon, <2>2, NoInvsMode
    <2> QED
      BY Zenon, <1>3, <2>1, <2>2
  <1>11. Allowed(c)'
    BY Zenon, <1>1, <1>6, <1>9, <1>10, AllowedKept DEF AllowedFrame, MountCacheInv
  <1>12. \A d \in Client \ {c} : dirty'[d] = dirty[d]
    BY Zenon DEF TypeOK, ClientTypeOK
  <1> QED
    BY Zenon, <1>2, <1>4, <1>5, <1>7, <1>8, <1>11, <1>12, OneMountInv DEF MountCacheInv

\* Callers that arrive, acquire, give up and unlock keep the invariant.
LEMMA CallerCacheInv ==
  ASSUME TypeOK, LockInv, CacheInv, NEW c \in Client, NEW m \in UseMode,
         CallerAction(c, m), UNCHANGED serverVars
  PROVE  CacheInv'
  <1> DEFINE l       == lock[c]
             call    == [l EXCEPT !.have = TRUE, !.waiters[m] = @ + 1]
             acquire == [l EXCEPT !.waiters[m] = @ - 1, !.users[m] = @ + 1]
             giveup  == [l EXCEPT !.waiters[m] = @ - 1]
             unlock  == [l EXCEPT !.users[m] = @ - 1, !.wrote = @ \/ lock_mode_can_write(m)]
             Same(n) == n.mode = l.mode /\ n.inving = l.inving /\ n.invs = l.invs /\ n.gen = l.gen
             Wrote(n) == l.wrote \/ Writing(c) =>
                            n.wrote \/ \E k \in UseMode : lock_mode_can_write(k) /\ n.users[k] > 0
  <1>0. /\ l \in Lock /\ m \in Mode /\ "null" \in Mode
        /\ l.users \in [UseMode -> Nat] /\ l.waiters \in [UseMode -> Nat]
    BY Zenon, LockFields DEF UseMode, Mode
  <1>1. lock_mode_can_write(m) \in BOOLEAN
    BY DEF lock_mode_can_write
  <1>2. UNCHANGED <<worker, mount, toClient, toServer, link, cached, inode, dirty,
                    granted, requested, invalidated>>
    BY Zenon DEF CallerAction, LockCall, LockAcquire, LockGiveUp, scoutfs_unlock,
                 netVars, cacheVars, serverVars
  <1>3. ASSUME NEW n \in Lock, Same(n), Wrote(n),
               \/ lock' = [lock EXCEPT ![c] = put_lock(n)]
               \/ lock' = [lock EXCEPT ![c] = n] /\ ~ lock_idle(n)
        PROVE  CacheInv'
    BY Zenon, <1>0, <1>2, <1>3, LockOnlyInv
  <1>4. CASE LockCall(c, m)
    <2>1. lock' = [lock EXCEPT ![c] = call] /\ call \in Lock
      BY Zenon, <1>0, <1>4, CountType DEF LockCall
    <2>2. Same(call) /\ call.wrote = l.wrote /\ call.users = l.users
      BY Zenon, <1>0 DEF Lock
    <2>3. call.waiters[m] = l.waiters[m] + 1
      BY <1>0 DEF Lock
    <2>4. ~ lock_idle(call)
      BY <1>0, <2>3 DEF lock_idle, Nobody
    <2> HIDE DEF call
    <2>5. Wrote(call)
      BY Zenon, <2>2 DEF Writing
    <2> QED
      BY Zenon, <1>3, <2>1, <2>2, <2>4, <2>5
  <1>5. CASE LockAcquire(c, m)
    <2>1. lock' = [lock EXCEPT ![c] = acquire] /\ acquire \in Lock
      BY Zenon, <1>0, <1>5, CountType DEF LockAcquire
    <2>2. Same(acquire) /\ acquire.wrote = l.wrote
      BY Zenon, <1>0 DEF Lock
    <2>3. acquire.users = [l.users EXCEPT ![m] = @ + 1]
      BY Zenon, <1>0 DEF Lock
    <2> HIDE DEF acquire
    <2>4. ~ lock_idle(acquire)
      BY <1>0, <2>3 DEF lock_idle, Nobody
    <2>5. \A k \in UseMode : l.users[k] > 0 => acquire.users[k] > 0
      BY <1>0, <2>3
    <2>6. Wrote(acquire)
      BY Zenon, <2>2, <2>5 DEF Writing
    <2> QED
      BY Zenon, <1>3, <2>1, <2>2, <2>4, <2>6
  <1>6. CASE LockGiveUp(c, m)
    <2>1. lock' = [lock EXCEPT ![c] = put_lock(giveup)] /\ giveup \in Lock
      BY Zenon, <1>0, <1>6, CountType DEF LockGiveUp
    <2>2. Same(giveup) /\ giveup.wrote = l.wrote /\ giveup.users = l.users
      BY Zenon, <1>0 DEF Lock
    <2> HIDE DEF giveup
    <2>3. Wrote(giveup)
      BY Zenon, <2>2 DEF Writing
    <2> QED
      BY Zenon, <1>3, <2>1, <2>2, <2>3
  <1>7. CASE scoutfs_unlock(c, m)
    <2>1. unlock \in Lock
      BY Zenon, <1>0, <1>1, <1>7, CountType DEF scoutfs_unlock
    <2>2. lock' = [lock EXCEPT ![c] = put_lock(unlock)]
      BY Zenon, <1>7 DEF scoutfs_unlock
    <2>3. Same(unlock)
      BY Zenon, <1>0 DEF Lock
    <2>4. unlock.users = [l.users EXCEPT ![m] = @ - 1]
      BY Zenon, <1>0 DEF Lock
    <2>5. unlock.wrote = (l.wrote \/ lock_mode_can_write(m))
      BY Zenon, <1>0 DEF Lock
    <2> HIDE DEF unlock
    <2>6. \A k \in UseMode : k # m => unlock.users[k] = l.users[k]
      BY Zenon, <1>0, <2>4
    <2>7. Wrote(unlock)
      BY Zenon, <2>5, <2>6 DEF Writing
    <2> QED
      BY Zenon, <1>3, <2>1, <2>2, <2>3, <2>7
  <1> QED
    BY Zenon, <1>4, <1>5, <1>6, <1>7 DEF CallerAction

\* Requests that are sent or prepared, and transactions that are written, keep the
\* invariant.
LEMMA FlagCacheInv ==
  ASSUME TypeOK, LockInv, CacheInv, NEW c \in Client, UNCHANGED serverVars,
         \/ \E m \in UseMode : LockSend(c, m)
         \/ ShrinkScan(c) \/ ShrinkSend(c) \/ TransCommit(c)
  PROVE  CacheInv'
  <1> DEFINE l    == lock[c]
             send == [l EXCEPT !.pend = TRUE]
             scan == [l EXCEPT !.pend = TRUE, !.shrink = TRUE]
             done == [l EXCEPT !.wrote = FALSE]
             off  == [l EXCEPT !.shrink = FALSE]
             fail == [l EXCEPT !.shrink = FALSE, !.pend = FALSE]
             Same(n) == n.mode = l.mode /\ n.inving = l.inving /\ n.invs = l.invs /\ n.gen = l.gen
             Counts(n) == n.have = l.have /\ n.users = l.users /\ n.waiters = l.waiters
  <1>0. l \in Lock /\ "null" \in Mode /\ UseMode \subseteq Mode
    BY Zenon, LockFields DEF UseMode, Mode
  <1>1. send \in Lock /\ scan \in Lock /\ done \in Lock /\ off \in Lock /\ fail \in Lock
    BY ZenonT(60), <1>0, UpdateType
  <1>2. /\ Same(send) /\ Counts(send) /\ send.wrote = l.wrote /\ send.pend
        /\ Same(scan) /\ Counts(scan) /\ scan.wrote = l.wrote /\ scan.pend
        /\ Same(off) /\ Counts(off) /\ off.wrote = l.wrote /\ off.pend = l.pend
        /\ Same(fail) /\ Counts(fail) /\ fail.wrote = l.wrote
        /\ Same(done) /\ Counts(done) /\ done.pend = l.pend
    BY ZenonT(60), <1>0 DEF Lock
  <1>3. IdleKept(c)
    BY Zenon, CacheInvParts
  <1> HIDE DEF send, scan, done, off, fail
  <1>4. ASSUME NEW n \in Lock, Same(n), Counts(n), n.wrote = l.wrote
        PROVE  l.wrote \/ Writing(c) =>
                  n.wrote \/ \E k \in UseMode : lock_mode_can_write(k) /\ n.users[k] > 0
    BY Zenon, <1>4 DEF Writing
  <1>5. ASSUME NEW m \in UseMode, LockSend(c, m) PROVE CacheInv'
    <2>1. /\ lock' = [lock EXCEPT ![c] = send]
          /\ toServer' = toServer \cup Sent(c, RequestMsg(c, m))
          /\ ~ lock_modes_match(l.mode, m)
          /\ UNCHANGED <<worker, mount, toClient, link, cached, inode, dirty,
                         granted, requested, invalidated>>
      BY Zenon, <1>5 DEF LockSend, send, cacheVars, serverVars
    <2>2. Needed(c, m)
      BY Zenon, <2>1 DEF Needed
    <2>3. ~ lock_idle(send)
      BY Zenon, <1>2 DEF lock_idle
    <2>4. m \in Mode
      BY Zenon, <1>0
    <2> QED
      BY Zenon, <1>1, <1>2, <1>4, <2>1, <2>2, <2>3, <2>4, LockOnlyInv
  <1>6. CASE ShrinkScan(c)
    <2>1. /\ lock' = [lock EXCEPT ![c] = scan]
          /\ UNCHANGED <<worker, mount, toClient, toServer, link, cached, inode, dirty,
                         granted, requested, invalidated>>
      BY Zenon, <1>6 DEF ShrinkScan, scan, cacheVars, netVars, serverVars
    <2>2. ~ lock_idle(scan)
      BY Zenon, <1>2 DEF lock_idle
    <2> QED
      BY Zenon, <1>0, <1>1, <1>2, <1>4, <2>1, <2>2, LockOnlyInv
  <1>7. CASE ShrinkSend(c)
    <2>1. /\ \/ /\ lock' = [lock EXCEPT ![c] = off]
                /\ toServer' = toServer \cup Sent(c, RequestMsg(c, "null"))
             \/ lock' = [lock EXCEPT ![c] = put_lock(fail)] /\ toServer' = toServer
          /\ UNCHANGED <<worker, mount, toClient, link, cached, inode, dirty,
                         granted, requested, invalidated>>
      BY Zenon, <1>7 DEF ShrinkSend, off, fail, cacheVars, serverVars
    <2>2. Needed(c, "null")
      BY Zenon DEF Needed
    <2>3. off.have /\ lock_idle(off) => off.mode # "null"
      BY Zenon, <1>2, <1>3 DEF lock_idle, IdleKept
    <2> QED
      BY Zenon, <1>0, <1>1, <1>2, <1>4, <2>1, <2>2, <2>3, LockOnlyInv
  <1>8. CASE TransCommit(c)
    <2>1. /\ lock' = [lock EXCEPT ![c] = done]
          /\ dirty' = [dirty EXCEPT ![c] = FALSE]
          /\ UNCHANGED <<worker, mount, toClient, toServer, link, cached, inode,
                         granted, requested, invalidated>>
      BY Zenon, <1>8 DEF TransCommit, done, netVars, serverVars
    <2>2. ~ dirty'[c]
      BY Zenon, <2>1 DEF TypeOK, ClientTypeOK
    <2>3. done.have /\ lock_idle(done) => done.mode # "null"
      BY Zenon, <1>2, <1>3 DEF lock_idle, IdleKept
    <2> QED
      BY Zenon, <1>0, <1>1, <1>2, <2>1, <2>2, <2>3, LockOnlyInv
  <1> QED
    BY Zenon, <1>5, <1>6, <1>7, <1>8

-----------------------------------------------------------------------------
(* The caches                                                              *)

\* A step that leaves the locks and the protocol alone keeps everything but what the
\* caches are allowed.
LEMMA CachesOnlyInv ==
  ASSUME TypeOK, CacheInv, UNCHANGED <<lockVars, netVars, serverVars>>,
         \A c \in Client : Allowed(c)'
  PROVE  CacheInv'
  <1>1. ASSUME NEW c \in Client PROVE IdleKept(c)' /\ LinkKept(c)' /\ Exact(c)'
    <2>1. IdleKept(c) /\ LinkKept(c) /\ Exact(c)
      BY Zenon, CacheInvParts
    <2>2. ExactFrame(c)
      BY Zenon DEF ExactFrame, CacheMode, lockVars, netVars, serverVars
    <2> QED
      BY Zenon, <2>1, <2>2, ExactKept DEF IdleKept, LinkKept, Running, lockVars, netVars
  <1> QED
    BY Zenon, <1>1 DEF CacheInv, Exact, Allowed

\* Items that are read into the cache, and an inode that is loaded or evicted.
LEMMA ReadCacheInv ==
  ASSUME TypeOK, LockInv, CacheInv, NEW c \in Client, UNCHANGED serverVars,
         ReadItems(c) \/ InodeRefresh(c) \/ InodeEvict(c)
  PROVE  CacheInv'
  <1>1. UNCHANGED <<lockVars, dirty, netVars, serverVars>>
    BY Zenon DEF ReadItems, InodeRefresh, InodeEvict
  <1>2. /\ cached \in [Client -> BOOLEAN] /\ inode \in [Client -> InodeState]
    BY Zenon DEF TypeOK, ClientTypeOK
  <1>3. /\ cached' = cached \/ (cached' = [cached EXCEPT ![c] = TRUE] /\ Reading(c))
        /\ inode' = inode \/ \E s \in {"now", "none"} : inode' = [inode EXCEPT ![c] = s]
    BY Zenon DEF ReadItems, InodeRefresh, InodeEvict, Fill
  <1>4. ASSUME NEW d \in Client PROVE Allowed(d)'
    <2>1. Allowed(d) /\ Exact(d) /\ CacheMode(d)' = CacheMode(d)
      BY Zenon, <1>1, CacheInvParts DEF CacheMode, lockVars
    <2>2. inode'[d] = "stale" => inode[d] = "stale"
      BY <1>2, <1>3
    <2>3. cached'[d] => cached[d] \/ (d = c /\ Reading(c))
      BY Zenon, <1>2, <1>3
    <2>4. d = c /\ Reading(c) => CacheMode(d) # "null"
      BY <2>1, ReaderMode DEF lock_mode_can_read
    <2>5. lock' = lock /\ mount' = mount /\ dirty' = dirty
      BY Zenon, <1>1 DEF lockVars
    <2>6. Writing(d)' = Writing(d) /\ IsMounted(d)' = IsMounted(d)
      BY Zenon, <2>5 DEF Writing, IsMounted
    <2> QED
      BY Zenon, <2>1, <2>2, <2>3, <2>4, <2>5, <2>6 DEF Allowed, CacheAllowed, InodeAllowed
  <1> QED
    BY Zenon, <1>1, <1>4, CachesOnlyInv

\* A writer's caches exclude every cache that others can read.
LEMMA WriteCacheInv ==
  ASSUME TypeOK, LockInv, CacheInv, NEW c \in Client, UNCHANGED serverVars, WriteItems(c)
  PROVE  CacheInv'
  <1>1. /\ UNCHANGED <<lockVars, netVars, serverVars>>
        /\ Writing(c)
        /\ dirty' = [dirty EXCEPT ![c] = TRUE]
        /\ cached' = [cached EXCEPT ![c] = TRUE]
        /\ inode' = [d \in Client |-> IF d # c /\ inode[d] = "now" THEN "stale" ELSE inode[d]]
    BY Zenon DEF WriteItems
  <1>2. cached \in [Client -> BOOLEAN] /\ dirty \in [Client -> BOOLEAN]
    BY Zenon DEF TypeOK, ClientTypeOK
  <1>3. Exact(c) /\ Allowed(c) /\ IsMounted(c) /\ lock_mode_can_write(CacheMode(c))
    BY Zenon, <1>1, CacheInvParts, WriterMode
  <1>4. lock' = lock /\ mount' = mount /\ worker' = worker
    BY Zenon, <1>1 DEF lockVars
  <1>5. ASSUME NEW d \in Client, IsMounted(d) PROVE CacheAllowed(d)' /\ InodeAllowed(d)'
    <2>1. CacheAllowed(d) /\ InodeAllowed(d) /\ Exact(d)
      BY Zenon, <1>5, CacheInvParts DEF Allowed
    <2>2. CacheMode(d)' = CacheMode(d) /\ Writing(d)' = Writing(d)
      BY Zenon, <1>4 DEF CacheMode, Writing
    <2>3. CASE d = c
      <3>1. inode'[d] = inode[d]
        BY Zenon, <1>1, <2>3
      <3>2. CacheMode(c) # "null"
        BY <1>3 DEF lock_mode_can_write
      <3> QED
        BY Zenon, <1>1, <1>3, <1>4, <2>1, <2>2, <2>3, <3>1, <3>2 DEF CacheAllowed, InodeAllowed
    <2>4. CASE d # c
      <3>1. cached'[d] = cached[d] /\ dirty'[d] = dirty[d]
        BY Zenon, <1>1, <1>2, <2>4
      <3>2. Compatible(CacheMode(c), CacheMode(d))
        BY Zenon, <1>3, <1>5, <2>1, <2>4, CachesExclude
      <3>3. ~ lock_mode_can_read(CacheMode(d))
        BY <1>3, <3>2 DEF Compatible, lock_mode_can_read, lock_mode_can_write, NoEntry
      <3> QED
        BY Zenon, <1>4, <2>1, <2>2, <3>1, <3>3 DEF CacheAllowed, InodeAllowed
    <2> QED
      BY Zenon, <2>3, <2>4
  <1>6. \A d \in Client : Allowed(d)'
    BY Zenon, <1>4, <1>5 DEF Allowed, IsMounted
  <1> QED
    BY Zenon, <1>1, <1>6, CachesOnlyInv

-----------------------------------------------------------------------------
(* Messages from the server                                                *)

\* The message that a client handles, and what stays in the queue.
LEMMA Received ==
  ASSUME TypeOK, NEW c \in Client, toClient[c] # <<>>
  PROVE  /\ 1 \in 1..Len(toClient[c])
         /\ Head(toClient[c]) = toClient[c][1]
         /\ Head(toClient[c]) \in ClientMsg
         /\ Head(toClient[c]).old \in Mode
         /\ Head(toClient[c]).new \in Mode
         /\ Head(toClient[c]).live \in BOOLEAN
         /\ \A i \in 1..Len(Tail(toClient[c])) :
               /\ i + 1 \in 1..Len(toClient[c])
               /\ i + 1 # 1
               /\ Tail(toClient[c])[i] = toClient[c][i + 1]
  <1> DEFINE q == toClient[c]
  <1>1. q \in Seq(ClientMsg) /\ q # <<>> /\ Len(q) \in Nat
    BY Zenon, LockFields
  <1> HIDE DEF q
  <1>2. /\ 1 \in 1..Len(q) /\ Head(q) = q[1] /\ Head(q) \in ClientMsg
    BY <1>1
  <1>3. Head(q).old \in Mode /\ Head(q).new \in Mode /\ Head(q).live \in BOOLEAN
    BY Zenon, <1>2 DEF ClientMsg
  <1>4. \A i \in 1..Len(Tail(q)) : i + 1 \in 1..Len(q) /\ i + 1 # 1 /\ Tail(q)[i] = q[i + 1]
    BY <1>1
  <1> QED
    BY Zenon, <1>2, <1>3, <1>4 DEF q

\* No invalidation is waiting for its response: there is none to look at.
LEMMA NoneQueued ==
  ASSUME TypeOK, NEW c \in Client, ~ InvalQueued(c)
  PROVE  FirstInval(c)..Len(lock[c].invs) = {}
  <1>1. FirstInval(c) \in Nat /\ Len(lock[c].invs) \in Nat
    BY Zenon, LockFields DEF FirstInval
  <1> QED
    BY <1>1 DEF InvalQueued

\* A grant in the queue raises the mode of a lock whose caches are in the lock's mode.
LEMMA GrantKnown ==
  ASSUME TypeOK, LockInv, NEW c \in Client, IsMounted(c), Exact(c),
         toClient[c] # <<>>, Head(toClient[c]).cmd = "grant"
  PROVE  LET msg == Head(toClient[c]) IN
         /\ Raises(msg, lock[c].mode)
         /\ Record(c) = IF msg.new = "null" THEN NoEntry ELSE msg.new
         /\ CacheMode(c) = lock[c].mode
         /\ worker[c] # "invalidate"
         /\ GrantSent(c)
         /\ ~ InvalQueued(c) /\ ~ InvalAnswered(c) /\ ~ RequestSent(c) /\ ~ RequestQueued(c)
         /\ lock[c].pend /\ lock[c].have
         /\ \A i \in 1..Len(toClient[c]) : i # 1 => toClient[c][i].cmd # "grant"
  <1> DEFINE msg == Head(toClient[c])
  <1>1. MountedInv(c) /\ ModesExact(c)
    BY Zenon, LockInvParts DEF LocalInv, Exact
  <1>2. 1 \in 1..Len(toClient[c]) /\ msg = toClient[c][1] /\ msg.cmd = "grant"
    BY Zenon, Received
  <1> HIDE DEF msg
  <1>3. GrantSent(c)
    BY Zenon, <1>2 DEF GrantSent
  <1>4. Raises(msg, lock[c].mode) /\ Record(c) = IF msg.new = "null" THEN NoEntry ELSE msg.new
    BY Zenon, <1>1, <1>2 DEF ModesExact
  <1>5. ~ InvalQueued(c) /\ ~ InvalAnswered(c)
    BY Zenon, <1>1, <1>2 DEF MountedInv, GrantsCovered
  <1>6. ~ RequestSent(c) /\ ~ RequestQueued(c) /\ lock[c].pend
    BY Zenon, <1>1, <1>3 DEF MountedInv, OneRequest
  <1>7. lock[c].have
    BY <1>1, <1>6 DEF MountedInv, LockKept, NoLock
  <1>8. \A i \in 1..Len(toClient[c]) : i # 1 => toClient[c][i].cmd # "grant"
    BY Zenon, <1>1 DEF MountedInv, GrantThenInval
  <1>9. CacheMode(c) = lock[c].mode /\ worker[c] # "invalidate"
    BY Zenon, <1>5, QuietMode
  <1> QED
    BY Zenon, <1>3, <1>4, <1>5, <1>6, <1>7, <1>8, <1>9 DEF msg

\* scoutfs_lock_grant_response(): the caches of a reader that may write now stay, and a
\* new refresh_gen makes the mount load inodes again.
LEMMA GrantCacheInv ==
  ASSUME TypeOK, TypeOK', LockInv, CacheInv, NEW c \in Client, GrantResponse(c),
         UNCHANGED serverVars
  PROVE  CacheInv'
  <1> DEFINE msg == Head(toClient[c])
             refresh == ~ lock_mode_can_read(msg.old) /\ lock_mode_can_read(msg.new)
             new == [lock[c] EXCEPT !.pend = FALSE, !.mode = msg.new, !.gen = @ \/ refresh]
  <1>1. /\ toClient[c] # <<>>
        /\ msg.cmd = "grant"
        /\ lock' = [lock EXCEPT ![c] = put_lock(new)]
        /\ IF refresh THEN RefreshGen(c) ELSE UNCHANGED inode
        /\ toClient' = [toClient EXCEPT ![c] = Tail(toClient[c])]
        /\ UNCHANGED <<worker, mount, cached, dirty, toServer, link>>
    BY Zenon DEF GrantResponse
  <1>2. /\ UNCHANGED <<granted, requested, invalidated>>
    BY Zenon DEF serverVars
  <1>3. /\ lock \in [Client -> Lock] /\ toClient \in [Client -> Seq(ClientMsg)]
        /\ inode \in [Client -> InodeState]
    BY Zenon DEF TypeOK, ClientTypeOK, NetTypeOK
  <1>4. IdleKept(c) /\ LinkKept(c) /\ Exact(c) /\ Allowed(c)
    BY Zenon, CacheInvParts
  <1>5. /\ new \in Lock /\ new.mode = msg.new /\ new.gen = (lock[c].gen \/ refresh)
        /\ new.invs = lock[c].invs /\ new.users = lock[c].users /\ new.wrote = lock[c].wrote
    <2>1. refresh \in BOOLEAN /\ msg.new \in Mode /\ lock[c] \in Lock
      BY Zenon, <1>1, <1>3, Received DEF lock_mode_can_read
    <2> HIDE DEF refresh, msg
    <2>2. new \in Lock
      BY Zenon, <2>1, UpdateType
    <2> QED
      BY Zenon, <2>1, <2>2 DEF Lock
  <1> HIDE DEF new
  <1>6. /\ lock'[c] = put_lock(new)
        /\ toClient'[c] = Tail(toClient[c])
        /\ \A d \in Client \ {c} : lock'[d] = lock[d] /\ toClient'[d] = toClient[d]
    BY Zenon, <1>1, <1>3
  <1>7. IdleKept(c)'
    BY ZenonT(60), <1>5, <1>6, PutLockIdle DEF IdleKept
  <1>8. LinkKept(c)'
    BY Zenon, <1>1, <1>4 DEF LinkKept, Running
  <1>9. \A d \in Client \ {c} : inode'[d] = inode[d]
    BY Zenon, <1>1, <1>3 DEF RefreshGen
  <1>10. \/ lock'[c] = new
         \/ lock'[c] = NoLock /\ msg.new = "null" /\ lock[c].invs = <<>>
    BY Zenon, <1>5, <1>6, PutLockIdle
  <1>11. lock'[c].mode = msg.new /\ lock'[c].invs = lock[c].invs
    BY Zenon, <1>5, <1>6, PutLockKeeps
  <1>12. ASSUME IsMounted(c)
         PROVE  RequestNeeded(c)' /\ ModesExact(c)' /\ CacheAllowed(c)' /\ InodeAllowed(c)'
    <2>1. /\ Raises(msg, lock[c].mode)
          /\ Record(c) = IF msg.new = "null" THEN NoEntry ELSE msg.new
          /\ CacheMode(c) = lock[c].mode
          /\ worker[c] # "invalidate"
          /\ ~ InvalQueued(c) /\ ~ InvalAnswered(c) /\ ~ RequestSent(c) /\ ~ RequestQueued(c)
          /\ \A i \in 1..Len(toClient[c]) : i # 1 => toClient[c][i].cmd # "grant"
      BY Zenon, <1>1, <1>4, <1>12, GrantKnown
    <2>2. MountedInv(c) /\ ModesExact(c) /\ CacheAllowed(c) /\ InodeAllowed(c)
      BY Zenon, <1>4, <1>12, LockInvParts DEF LocalInv, Exact, Allowed
    <2>3. RequestNeeded(c)'
      <3>1. \A n \in toServer' : ~ (n.cmd = "request" /\ n.rid = c)
        BY Zenon, <1>1, <2>1 DEF RequestSent
      <3>2. \A i \in 1..Len(requested') : requested'[i].rid # c
        BY Zenon, <1>2, <2>1 DEF RequestQueued
      <3> QED
        BY Zenon, <3>1, <3>2 DEF RequestNeeded
    <2>4. CacheMode(c)' = msg.new
      BY Zenon, <1>1, <1>11, <2>1 DEF CacheMode
    <2>5. \A i \in 1..Len(toClient'[c]) :
             /\ toClient'[c][i].cmd # "grant"
             /\ toClient'[c][i] = toClient[c][i + 1]
             /\ i + 1 \in 1..Len(toClient[c])
      <3> SUFFICES ASSUME NEW i \in 1..Len(Tail(toClient[c]))
                   PROVE  /\ Tail(toClient[c])[i].cmd # "grant"
                          /\ Tail(toClient[c])[i] = toClient[c][i + 1]
                          /\ i + 1 \in 1..Len(toClient[c])
        BY Zenon, <1>6
      <3>1. /\ i + 1 \in 1..Len(toClient[c]) /\ i + 1 # 1
            /\ Tail(toClient[c])[i] = toClient[c][i + 1]
        BY Zenon, <1>1, Received
      <3> QED
        BY Zenon, <2>1, <3>1
    <2>6. ModesExact(c)'
      <3>1. granted'[c] # NoEntry => granted'[c] = lock'[c].mode
        BY Zenon, <1>2, <1>11, <2>1, <2>2 DEF MountedInv, OneList, Record
      <3>2. \A i \in 1..Len(toClient'[c]) : toClient'[c][i].cmd = "inval" =>
               /\ Lowers(toClient'[c][i], invalidated'[c])
               /\ invalidated'[c] = lock'[c].mode
        <4> SUFFICES ASSUME NEW i \in 1..Len(toClient'[c]), toClient'[c][i].cmd = "inval"
                     PROVE  /\ Lowers(toClient'[c][i], invalidated'[c])
                            /\ invalidated'[c] = lock'[c].mode
          BY Zenon
        <4>1. toClient[c][i + 1].cmd = "inval" /\ i + 1 \in 1..Len(toClient[c])
          BY Zenon, <2>5
        <4>2. Lowers(toClient[c][i + 1], invalidated[c])
          BY Zenon, <2>2, <4>1 DEF ModesExact
        <4>3. InvalSent(c)
          BY Zenon, <4>1 DEF InvalSent
        <4>4. invalidated[c] # NoEntry
          BY Zenon, <2>2, <4>3 DEF MountedInv, OneInvalidation
        <4> QED
          BY Zenon, <1>2, <1>11, <2>1, <2>5, <4>2, <4>4 DEF Record
      <3>3. FirstInval(c)'..Len(lock'[c].invs) = {}
        BY Zenon, <1>1, <1>11, <2>1, NoneQueued DEF FirstInval
      <3>4. \A n \in toServer' : ~ (n.cmd = "response" /\ n.rid = c)
        BY Zenon, <1>1, <2>1 DEF InvalAnswered
      <3>5. granted'[c] # "null"
        BY Zenon, <1>2, <2>2 DEF ModesExact
      <3> QED
        BY Zenon, <2>5, <3>1, <3>2, <3>3, <3>4, <3>5 DEF ModesExact
    <2>7. ~ dirty[c]
      BY <2>1, <2>2 DEF CacheAllowed, Raises, lock_mode_can_write
    <2>8. cached[c] => msg.new = "write"
      BY Zenon, <2>1, <2>2 DEF CacheAllowed, Raises
    <2>9. CacheAllowed(c)'
      BY <1>1, <2>4, <2>7, <2>8 DEF CacheAllowed
    <2>10. InodeAllowed(c)'
      <3>1. inode'[c] = "stale" => inode[c] = "stale" /\ ~ refresh
        BY <1>1, <1>3 DEF RefreshGen
      <3>2. inode'[c] = "stale" => ~ lock_mode_can_read(msg.new)
        BY Zenon, <2>1, <2>2, <3>1 DEF InodeAllowed, Raises
      <3>3. lock_mode_can_read(msg.new) => lock[c].gen \/ refresh
        BY Zenon, <2>1, <2>2 DEF InodeAllowed, Raises
      <3>4. lock_mode_can_read(msg.new) => lock'[c].gen
        BY Zenon, <1>5, <1>10, <3>3 DEF lock_mode_can_read
      <3> QED
        BY Zenon, <1>11, <2>4, <3>2, <3>4 DEF InodeAllowed
    <2> QED
      BY Zenon, <2>3, <2>6, <2>9, <2>10
  <1>13. MountCacheInv(c)'
    BY Zenon, <1>1, <1>7, <1>8, <1>12 DEF MountCacheInv, Exact, Allowed, IsMounted
  <1> QED
    BY Zenon, <1>1, <1>2, <1>6, <1>9, <1>13, OneMountInv

\* An invalidation request is the last message of its client, names the mode that the
\* client has, and finds no other invalidation.
LEMMA InvalidationKnown ==
  ASSUME TypeOK, LockInv, NEW c \in Client, IsMounted(c), Exact(c),
         toClient[c] # <<>>, Head(toClient[c]).cmd = "inval"
  PROVE  LET msg == Head(toClient[c]) IN
         /\ Lowers(msg, lock[c].mode)
         /\ invalidated[c] = lock[c].mode
         /\ granted[c] = NoEntry
         /\ CacheMode(c) = lock[c].mode
         /\ worker[c] # "invalidate"
         /\ ~ InvalQueued(c) /\ ~ InvalAnswered(c)
         /\ 1..Len(Tail(toClient[c])) = {}
         /\ Len(lock[c].invs) + 1 = FirstInval(c)
  <1> DEFINE msg == Head(toClient[c])
  <1>1. MountedInv(c) /\ ModesExact(c)
    BY Zenon, LockInvParts DEF LocalInv, Exact
  <1>2. 1 \in 1..Len(toClient[c]) /\ msg = toClient[c][1] /\ msg.cmd = "inval"
    BY Zenon, Received
  <1> HIDE DEF msg
  <1>3. InvalSent(c)
    BY Zenon, <1>2 DEF InvalSent
  <1>4. Lowers(msg, invalidated[c]) /\ invalidated[c] = lock[c].mode
    BY Zenon, <1>1, <1>2 DEF ModesExact
  <1>5. ~ InvalQueued(c) /\ ~ InvalAnswered(c) /\ invalidated[c] # NoEntry
    BY Zenon, <1>1, <1>3 DEF MountedInv, OneInvalidation
  <1>6. granted[c] = NoEntry
    BY Zenon, <1>1, <1>5 DEF MountedInv, OneList
  <1>7. CacheMode(c) = lock[c].mode /\ worker[c] # "invalidate"
    BY Zenon, <1>5, QuietMode
  <1>8. 1..Len(Tail(toClient[c])) = {}
    <2>1. 1 = Len(toClient[c])
      BY Zenon, <1>1, <1>2 DEF MountedInv, GrantThenInval
    <2>2. Len(Tail(toClient[c])) = Len(toClient[c]) - 1
      <3>1. toClient[c] \in Seq(ClientMsg)
        BY Zenon, LockFields
      <3> QED
        BY <3>1, HeadTailProperties
    <2>3. Len(Tail(toClient[c])) = 0
      BY <2>1, <2>2
    <2>4. 1..0 = {}
      OBVIOUS
    <2> QED
      BY Zenon, <2>3, <2>4
  <1>9. Len(lock[c].invs) + 1 = FirstInval(c)
    <2>1. Len(lock[c].invs) \in Nat /\ lock[c].invs \in Seq(Inval)
      BY Zenon, LockFields
    <2>2. worker[c] = "finish" => lock[c].invs # <<>>
      BY Zenon DEF LockInv, WorkerBusy
    <2>3. worker[c] = "finish" => Len(lock[c].invs) >= 1
      BY <2>1, <2>2
    <2> QED
      BY <1>5, <2>1, <2>3 DEF InvalQueued, FirstInval
  <1> QED
    BY Zenon, <1>4, <1>5, <1>6, <1>7, <1>8, <1>9 DEF msg

\* scoutfs_lock_invalidate_request(): the invalidation that is queued names the mode of
\* the caches; without a lock there is no mode to take away.
LEMMA InvalidateRequestCacheInv ==
  ASSUME TypeOK, TypeOK', LockInv, CacheInv, NEW c \in Client, InvalidateRequest(c),
         UNCHANGED serverVars
  PROVE  CacheInv'
  <1> DEFINE msg == Head(toClient[c])
             inv == [old |-> msg.old, new |-> msg.new, live |-> msg.live]
             new == [lock[c] EXCEPT !.invs = Append(lock[c].invs, inv)]
  <1>1. /\ toClient[c] # <<>>
        /\ msg.cmd = "inval"
        /\ \/ lock[c].have /\ lock' = [lock EXCEPT ![c] = new] /\ toServer' = toServer
           \/ /\ ~ lock[c].have /\ lock' = lock
              /\ toServer' = toServer \cup Sent(c, ResponseMsg(c, msg.new, msg.live))
        /\ toClient' = [toClient EXCEPT ![c] = Tail(toClient[c])]
        /\ UNCHANGED <<worker, mount, cached, dirty, inode, link>>
    BY Zenon DEF InvalidateRequest, cacheVars
  <1>2. /\ UNCHANGED <<granted, requested, invalidated>>
    BY Zenon DEF serverVars
  <1>3. /\ lock \in [Client -> Lock] /\ toClient \in [Client -> Seq(ClientMsg)]
    BY Zenon DEF TypeOK, ClientTypeOK, NetTypeOK
  <1>4. IdleKept(c) /\ LinkKept(c) /\ Exact(c) /\ Allowed(c)
    BY Zenon, CacheInvParts
  <1>5. /\ lock[c].invs \in Seq(Inval) /\ inv \in Inval
        /\ inv.old = msg.old /\ inv.new = msg.new
    BY Zenon, <1>1, LockFields, Received DEF Inval
  <1>6. /\ Len(Append(lock[c].invs, inv)) = Len(lock[c].invs) + 1
        /\ Append(lock[c].invs, inv)[Len(lock[c].invs) + 1] = inv
        /\ Append(lock[c].invs, inv) # <<>>
    <2> HIDE DEF inv
    <2> QED
      BY ZenonT(60), <1>5, AppendProperties
  <1>7. /\ new.invs = Append(lock[c].invs, inv)
        /\ new.mode = lock[c].mode /\ new.gen = lock[c].gen /\ new.wrote = lock[c].wrote
        /\ new.users = lock[c].users /\ new.inving = lock[c].inving
    BY Zenon, <1>3 DEF Lock
  <1> HIDE DEF new, inv
  <1>8. /\ lock'[c] = IF lock[c].have THEN new ELSE lock[c]
        /\ toClient'[c] = Tail(toClient[c])
        /\ \A d \in Client \ {c} : lock'[d] = lock[d] /\ toClient'[d] = toClient[d]
    BY Zenon, <1>1, <1>3
  <1>9. /\ lock'[c].mode = lock[c].mode /\ lock'[c].gen = lock[c].gen
        /\ lock'[c].wrote = lock[c].wrote /\ lock'[c].users = lock[c].users
        /\ CacheMode(c)' = CacheMode(c)
    BY Zenon, <1>1, <1>7, <1>8 DEF CacheMode
  <1>10. IdleKept(c)'
    BY Zenon, <1>4, <1>6, <1>7, <1>8 DEF IdleKept, lock_idle
  <1>11. LinkKept(c)'
    BY Zenon, <1>1, <1>4 DEF LinkKept, Running
  <1>12. Writing(c)' = Writing(c)
    BY Zenon, <1>9 DEF Writing
  <1>13. Allowed(c)'
    BY Zenon, <1>1, <1>4, <1>9, <1>12, AllowedKept DEF AllowedFrame
  <1>14. /\ \A d \in Client \ {c} : \A n \in toServer' : n.rid = d => n \in toServer
         /\ \A n \in toServer' : n.rid = c /\ n.cmd = "request" => n \in toServer
         /\ \A n \in toServer' : n.rid = c /\ n.cmd = "response" /\ n \notin toServer =>
               n.mode = msg.new /\ ~ lock[c].have
    BY SMT, <1>1 DEF Sent, ResponseMsg
  <1>15. ASSUME IsMounted(c) PROVE RequestNeeded(c)' /\ ModesExact(c)'
    <2>1. /\ Lowers(msg, lock[c].mode)
          /\ invalidated[c] = lock[c].mode
          /\ granted[c] = NoEntry
          /\ CacheMode(c) = lock[c].mode
          /\ ~ InvalQueued(c) /\ ~ InvalAnswered(c)
          /\ 1..Len(Tail(toClient[c])) = {}
          /\ Len(lock[c].invs) + 1 = FirstInval(c)
      BY Zenon, <1>1, <1>4, <1>15, InvalidationKnown
    <2>2. RequestNeeded(c) /\ ModesExact(c) /\ MountedInv(c)
      BY Zenon, <1>4, <1>15, LockInvParts DEF Exact, LocalInv
    <2>3. RequestNeeded(c)'
      BY Zenon, <1>2, <1>9, <1>14, <2>2 DEF RequestNeeded, Needed
    <2>4. FirstInval(c)' = FirstInval(c)
      BY Zenon, <1>1 DEF FirstInval
    <2>5. \A i \in FirstInval(c)'..Len(lock'[c].invs) :
             Lowers(lock'[c].invs[i], CacheMode(c)') /\ invalidated'[c] = CacheMode(c)'
      <3>1. CASE lock[c].have
        <4>1. \A i \in FirstInval(c)'..Len(lock'[c].invs) : i = Len(lock[c].invs) + 1
          <5>1. Len(lock[c].invs) \in Nat
            BY Zenon, LockFields
          <5>2. Len(lock'[c].invs) = Len(lock[c].invs) + 1
            BY Zenon, <1>6, <1>7, <1>8, <3>1
          <5>3. FirstInval(c)' = Len(lock[c].invs) + 1
            BY Zenon, <2>1, <2>4
          <5> QED
            BY <5>1, <5>2, <5>3
        <4>2. lock'[c].invs[Len(lock[c].invs) + 1] = inv
          BY Zenon, <1>6, <1>7, <1>8, <3>1
        <4>3. Lowers(inv, lock[c].mode)
          BY Zenon, <1>5, <2>1 DEF Lowers, KeepsCache
        <4> QED
          BY Zenon, <1>2, <1>9, <2>1, <4>1, <4>2, <4>3
      <3>2. CASE ~ lock[c].have
        <4>1. FirstInval(c)'..Len(lock'[c].invs) = {}
          BY Zenon, <1>8, <2>1, <2>4, <3>2, NoneQueued
        <4> QED
          BY Zenon, <4>1
      <3> QED
        BY Zenon, <3>1, <3>2
    <2>6. \A n \in toServer' : n.cmd = "response" /\ n.rid = c => n.mode = lock'[c].mode
      <3>1. \A n \in toServer : ~ (n.cmd = "response" /\ n.rid = c)
        BY Zenon, <2>1 DEF InvalAnswered
      <3>2. ~ lock[c].have => lock[c].mode = "null"
        BY <2>2 DEF MountedInv, LockKept, NoLock
      <3>3. ~ lock[c].have => msg.new = "null"
        BY <2>1, <3>2 DEF Lowers, KeepsCache
      <3> QED
        BY Zenon, <1>9, <1>14, <3>1, <3>2, <3>3
    <2>7. \A i \in 1..Len(toClient'[c]) : FALSE
      BY Zenon, <1>8, <2>1
    <2>8. granted'[c] = NoEntry /\ NoEntry # "null"
      BY Zenon, <1>2, <2>1 DEF NoEntry
    <2>9. ModesExact(c)'
      BY Zenon, <2>5, <2>6, <2>7, <2>8 DEF ModesExact
    <2> QED
      BY Zenon, <2>3, <2>9
  <1>16. MountCacheInv(c)'
    BY Zenon, <1>1, <1>10, <1>11, <1>13, <1>15 DEF MountCacheInv, Exact, IsMounted
  <1> QED
    BY Zenon, <1>1, <1>2, <1>8, <1>14, <1>16, OneMountInv

-----------------------------------------------------------------------------
(* lock_invalidate_worker()                                                *)

\* The invalidation that the worker looks at takes away the mode that the server has on
\* its list, and nothing else of the client is on its way.
LEMMA WorkKnown ==
  ASSUME TypeOK, LockInv, NEW c \in Client, IsMounted(c), Exact(c),
         lock[c].invs # <<>>, worker[c] # "finish"
  PROVE  /\ Head(lock[c].invs) = lock[c].invs[1]
         /\ lock[c].invs[1] \in Inval
         /\ Lowers(lock[c].invs[1], CacheMode(c))
         /\ invalidated[c] = CacheMode(c)
         /\ granted[c] = NoEntry
         /\ FirstInval(c) = 1
         /\ Len(lock[c].invs) = 1
         /\ ~ InvalSent(c) /\ ~ InvalAnswered(c) /\ ~ GrantSent(c)
  <1>1. MountedInv(c) /\ ModesExact(c)
    BY Zenon, LockInvParts DEF LocalInv, Exact
  <1>2. lock[c].invs \in Seq(Inval) /\ Len(lock[c].invs) \in Nat
    BY Zenon, LockFields
  <1>3. /\ Head(lock[c].invs) = lock[c].invs[1] /\ lock[c].invs[1] \in Inval
        /\ Len(lock[c].invs) >= 1
    BY <1>2
  <1>4. FirstInval(c) = 1
    BY Zenon DEF FirstInval
  <1>5. InvalQueued(c)
    BY <1>2, <1>3, <1>4 DEF InvalQueued
  <1>6. Len(lock[c].invs) = 1
    <2>1. Len(lock[c].invs) <= FirstInval(c)
      BY Zenon, <1>1 DEF MountedInv, OneInvalidation
    <2>2. FirstInval(c) \in Nat /\ Len(lock[c].invs) \in Nat /\ Len(lock[c].invs) >= 1
      BY <1>2, <1>3, <1>4
    <2>3. \A m, n \in Nat : n = 1 /\ m >= 1 /\ m <= n => m = 1
      OBVIOUS
    <2> QED
      BY Zenon, <1>4, <2>1, <2>2, <2>3
  <1>7. ~ InvalSent(c) /\ ~ InvalAnswered(c) /\ invalidated[c] # NoEntry
    BY Zenon, <1>1, <1>5 DEF MountedInv, OneInvalidation
  <1>8. ~ GrantSent(c)
    BY Zenon, <1>1, <1>5 DEF MountedInv, GrantsCovered, GrantSent
  <1>9. granted[c] = NoEntry
    BY Zenon, <1>1, <1>7 DEF MountedInv, OneList
  <1>10. 1 \in FirstInval(c)..Len(lock[c].invs)
    BY <1>4, <1>6
  <1>11. Lowers(lock[c].invs[1], CacheMode(c)) /\ invalidated[c] = CacheMode(c)
    BY Zenon, <1>1, <1>10 DEF ModesExact
  <1> QED
    BY Zenon, <1>3, <1>4, <1>6, <1>7, <1>8, <1>9, <1>11

\* First pass: the lock takes its new mode and the caches stay in the old one.
LEMMA InvalidateStartCacheInv ==
  ASSUME TypeOK, TypeOK', LockInv, CacheInv, NEW c \in Client, InvalidateStart(c),
         UNCHANGED serverVars
  PROVE  CacheInv'
  <1> DEFINE inv == Head(lock[c].invs)
             new == [lock[c] EXCEPT !.inving = lock[c].mode, !.mode = inv.new]
  <1>1. /\ worker[c] = "idle" /\ lock[c].invs # <<>>
        /\ lock' = [lock EXCEPT ![c] = new]
        /\ worker' = [worker EXCEPT ![c] = "invalidate"]
        /\ UNCHANGED <<mount, cached, dirty, inode, toClient, toServer, link>>
    BY Zenon DEF InvalidateStart, cacheVars, netVars
  <1>2. UNCHANGED <<granted, requested, invalidated>>
    BY Zenon DEF serverVars
  <1>3. /\ lock \in [Client -> Lock]
        /\ worker \in [Client -> {"idle", "invalidate", "finish"}]
    BY Zenon DEF TypeOK, ClientTypeOK
  <1>4. IdleKept(c) /\ LinkKept(c) /\ Exact(c) /\ Allowed(c)
    BY Zenon, CacheInvParts
  <1>5. /\ new.mode = inv.new /\ new.inving = lock[c].mode /\ new.invs = lock[c].invs
        /\ new.gen = lock[c].gen /\ new.wrote = lock[c].wrote /\ new.users = lock[c].users
    BY ZenonT(60), <1>3 DEF Lock
  <1> HIDE DEF new
  <1>6. /\ lock'[c] = new /\ worker'[c] = "invalidate"
        /\ \A d \in Client \ {c} : lock'[d] = lock[d] /\ worker'[d] = worker[d]
    BY Zenon, <1>1, <1>3
  <1>7. IdleKept(c)' /\ LinkKept(c)'
    BY Zenon, <1>1, <1>4, <1>5, <1>6 DEF IdleKept, lock_idle, LinkKept, Running
  <1>8. CacheMode(c)' = CacheMode(c) /\ CacheMode(c) = lock[c].mode
    BY Zenon, <1>1, <1>5, <1>6 DEF CacheMode
  <1>9. Writing(c)' = Writing(c)
    BY Zenon, <1>5, <1>6 DEF Writing
  <1>10. ASSUME IsMounted(c)
         PROVE  RequestNeeded(c)' /\ ModesExact(c)' /\ CacheAllowed(c)' /\ InodeAllowed(c)'
    <2>1. /\ inv = lock[c].invs[1]
          /\ Lowers(inv, lock[c].mode)
          /\ invalidated[c] = CacheMode(c)
          /\ granted[c] = NoEntry
          /\ FirstInval(c) = 1 /\ Len(lock[c].invs) = 1
          /\ ~ InvalSent(c) /\ ~ InvalAnswered(c) /\ ~ GrantSent(c)
      BY Zenon, <1>1, <1>4, <1>8, <1>10, WorkKnown
    <2>2. RequestNeeded(c) /\ ModesExact(c) /\ CacheAllowed(c) /\ InodeAllowed(c)
      BY Zenon, <1>4, <1>10 DEF Exact, Allowed
    <2>3. \A m : Needed(c, m) => m = "null" \/ ~ lock_modes_match(inv.new, m)
      BY <2>1 DEF Needed, lock_modes_match, Lowers, KeepsCache
    <2>4. RequestNeeded(c)'
      BY Zenon, <1>1, <1>2, <1>5, <1>6, <2>2, <2>3 DEF RequestNeeded, Needed
    <2>5. \A i \in 1..Len(toClient'[c]) :
             toClient'[c][i].cmd # "grant" /\ toClient'[c][i].cmd # "inval"
      BY Zenon, <1>1, <2>1 DEF GrantSent, InvalSent
    <2>6. \A n \in toServer' : ~ (n.cmd = "response" /\ n.rid = c)
      BY Zenon, <1>1, <2>1 DEF InvalAnswered
    <2>7. FirstInval(c)' = 1 /\ Len(lock'[c].invs) = 1 /\ lock'[c].invs[1] = inv
      BY Zenon, <1>5, <1>6, <2>1 DEF FirstInval
    <2>8. \A i \in FirstInval(c)'..Len(lock'[c].invs) :
             Lowers(lock'[c].invs[i], CacheMode(c)') /\ invalidated'[c] = CacheMode(c)'
      <3>1. \A i \in FirstInval(c)'..Len(lock'[c].invs) : i = 1
        BY <2>7
      <3> QED
        BY Zenon, <1>2, <1>8, <2>1, <2>7, <3>1
    <2>9. granted'[c] = NoEntry /\ NoEntry # "null"
      BY Zenon, <1>2, <2>1 DEF NoEntry
    <2>10. ModesExact(c)'
      BY Zenon, <2>5, <2>6, <2>8, <2>9 DEF ModesExact
    <2>11. CacheAllowed(c)'
      BY Zenon, <1>1, <1>5, <1>6, <1>8, <1>9, <2>2 DEF CacheAllowed
    <2>12. lock_mode_can_read(inv.new) => lock_mode_can_read(lock[c].mode)
      BY <2>1 DEF Lowers, KeepsCache, lock_mode_can_read
    <2>13. InodeAllowed(c)'
      BY Zenon, <1>1, <1>5, <1>6, <1>8, <2>2, <2>12 DEF InodeAllowed
    <2> QED
      BY Zenon, <2>4, <2>10, <2>11, <2>13
  <1>11. MountCacheInv(c)'
    BY Zenon, <1>1, <1>7, <1>10 DEF MountCacheInv, Exact, Allowed, IsMounted
  <1> QED
    BY Zenon, <1>1, <1>2, <1>6, <1>11, OneMountInv

\* Second pass: what the new mode does not allow was written and dropped.
LEMMA InvalidateRespondCacheInv ==
  ASSUME TypeOK, TypeOK', LockInv, CacheInv, NEW c \in Client, InvalidateRespond(c),
         UNCHANGED serverVars
  PROVE  CacheInv'
  <1> DEFINE inv  == Head(lock[c].invs)
             drop == mount[c] = "mounted" /\ ~ KeepsCache(inv)
  <1>1. /\ worker[c] = "invalidate"
        /\ mount[c] = "mounted" => ~ NeedsSync(c, inv)
        /\ cached' = [cached EXCEPT ![c] = @ /\ ~ drop]
        /\ toServer' = toServer \cup Sent(c, ResponseMsg(c, inv.new, inv.live))
        /\ worker' = [worker EXCEPT ![c] = "finish"]
        /\ UNCHANGED <<lock, mount, dirty, inode, toClient, link>>
    BY Zenon DEF InvalidateRespond
  <1>2. UNCHANGED <<granted, requested, invalidated>>
    BY Zenon DEF serverVars
  <1>3. /\ cached \in [Client -> BOOLEAN]
        /\ worker \in [Client -> {"idle", "invalidate", "finish"}]
    BY Zenon DEF TypeOK, ClientTypeOK
  <1>4. IdleKept(c) /\ LinkKept(c) /\ Exact(c) /\ Allowed(c)
    BY Zenon, CacheInvParts
  <1>5. /\ worker'[c] = "finish" /\ cached'[c] = (cached[c] /\ ~ drop)
        /\ \A d \in Client \ {c} : worker'[d] = worker[d] /\ cached'[d] = cached[d]
    BY Zenon, <1>1, <1>3
  <1>6. IdleKept(c)' /\ LinkKept(c)'
    BY Zenon, <1>1, <1>4 DEF IdleKept, LinkKept, Running
  <1>7. CacheMode(c)' = lock[c].mode
    BY Zenon, <1>1, <1>5 DEF CacheMode
  <1>8. /\ \A d \in Client \ {c} : \A n \in toServer' : n.rid = d => n \in toServer
        /\ \A n \in toServer' : n.rid = c /\ n.cmd = "request" => n \in toServer
        /\ \A n \in toServer' : n.rid = c /\ n.cmd = "response" /\ n \notin toServer =>
              n.mode = inv.new
    <2> HIDE DEF inv
    <2> QED
      BY SMT, <1>1 DEF Sent, ResponseMsg
  <1>9. ASSUME IsMounted(c)
        PROVE  RequestNeeded(c)' /\ ModesExact(c)' /\ CacheAllowed(c)' /\ InodeAllowed(c)'
    <2>0. lock[c].invs # <<>> /\ worker[c] # "finish"
      BY <1>1 DEF LockInv, WorkerBusy
    <2>1. /\ inv = lock[c].invs[1]
          /\ Lowers(inv, CacheMode(c))
          /\ invalidated[c] = CacheMode(c)
          /\ granted[c] = NoEntry
          /\ Len(lock[c].invs) = 1
          /\ ~ InvalSent(c) /\ ~ InvalAnswered(c) /\ ~ GrantSent(c)
      BY Zenon, <1>4, <1>9, <2>0, WorkKnown
    <2>2. lock[c].mode = inv.new
      BY Zenon, <1>1, <1>4, <1>9, <2>1, InvalidatingMode
    <2>3. RequestNeeded(c) /\ ModesExact(c) /\ CacheAllowed(c) /\ InodeAllowed(c)
      BY Zenon, <1>4, <1>9 DEF Exact, Allowed
    <2> HIDE DEF inv
    <2>4. RequestNeeded(c)'
      BY Zenon, <1>1, <1>2, <1>8, <2>3 DEF RequestNeeded, Needed
    <2>5. \A i \in 1..Len(toClient'[c]) :
             toClient'[c][i].cmd # "grant" /\ toClient'[c][i].cmd # "inval"
      BY Zenon, <1>1, <2>1 DEF GrantSent, InvalSent
    <2>6. \A n \in toServer' : n.cmd = "response" /\ n.rid = c => n.mode = lock'[c].mode
      BY Zenon, <1>1, <1>8, <2>1, <2>2 DEF InvalAnswered
    <2>7. FirstInval(c)'..Len(lock'[c].invs) = {}
      <3>1. FirstInval(c)' = 2
        BY Zenon, <1>5 DEF FirstInval
      <3>2. Len(lock'[c].invs) = 1
        BY Zenon, <1>1, <2>1
      <3> QED
        BY <3>1, <3>2
    <2>8. granted'[c] = NoEntry /\ NoEntry # "null"
      BY Zenon, <1>2, <2>1 DEF NoEntry
    <2>9. ModesExact(c)'
      BY Zenon, <2>5, <2>6, <2>7, <2>8 DEF ModesExact
    <2>10. ~ dirty[c]
      <3> SUFFICES ASSUME dirty[c] PROVE FALSE
        OBVIOUS
      <3>1. lock_mode_can_write(CacheMode(c)) /\ (lock[c].wrote \/ Writing(c))
        BY Zenon, <2>3 DEF CacheAllowed
      <3>2. ~ lock[c].wrote
        BY Zenon, <1>1, <1>9, <2>1, <3>1 DEF NeedsSync, Lowers, IsMounted, inv
      <3>3. lock_mode_can_write(lock[c].mode)
        BY Zenon, <1>4, <3>1, <3>2, WriterMode
      <3> QED
        BY Zenon, <2>1, <2>2, <3>3 DEF Lowers, KeepsCache, lock_mode_can_write
    <2>11. cached'[c] => lock[c].mode # "null"
      BY Zenon, <1>5, <1>9, <2>2 DEF IsMounted, KeepsCache, inv
    <2>12. CacheAllowed(c)'
      BY Zenon, <1>1, <1>7, <2>10, <2>11 DEF CacheAllowed
    <2>13. inode[c] = "stale" => ~ lock_mode_can_read(lock[c].mode)
      BY <2>1, <2>2, <2>3 DEF InodeAllowed, Lowers, KeepsCache, lock_mode_can_read
    <2>14. InodeAllowed(c)'
      BY Zenon, <1>1, <1>7, <2>3, <2>13 DEF InodeAllowed
    <2> QED
      BY Zenon, <2>4, <2>9, <2>12, <2>14
  <1>10. MountCacheInv(c)'
    BY Zenon, <1>1, <1>6, <1>9 DEF MountCacheInv, Exact, Allowed, IsMounted
  <1> QED
    BY Zenon, <1>1, <1>2, <1>5, <1>8, <1>10, OneMountInv

\* Third pass: the mode that the caches have is the lock's again.
LEMMA InvalidateFinishCacheInv ==
  ASSUME TypeOK, TypeOK', LockInv, CacheInv, NEW c \in Client, InvalidateFinish(c),
         UNCHANGED serverVars
  PROVE  CacheInv'
  <1> DEFINE new == [lock[c] EXCEPT !.inving = "null", !.invs = Tail(lock[c].invs)]
  <1>1. /\ worker[c] = "finish"
        /\ lock' = [lock EXCEPT ![c] = put_lock(new)]
        /\ worker' = [worker EXCEPT ![c] = "idle"]
        /\ UNCHANGED <<mount, cached, dirty, inode, toClient, toServer, link>>
    BY Zenon DEF InvalidateFinish, cacheVars, netVars
  <1>2. UNCHANGED <<granted, requested, invalidated>>
    BY Zenon DEF serverVars
  <1>3. /\ lock \in [Client -> Lock]
        /\ worker \in [Client -> {"idle", "invalidate", "finish"}]
    BY Zenon DEF TypeOK, ClientTypeOK
  <1>4. IdleKept(c) /\ LinkKept(c) /\ Exact(c) /\ Allowed(c)
    BY Zenon, CacheInvParts
  <1>5. lock[c].invs # <<>> /\ lock[c].invs \in Seq(Inval)
    BY Zenon, <1>1, LockFields DEF LockInv, WorkerBusy
  <1>6. /\ Tail(lock[c].invs) \in Seq(Inval)
        /\ Len(Tail(lock[c].invs)) = Len(lock[c].invs) - 1
        /\ \A i \in 1..Len(Tail(lock[c].invs)) : Tail(lock[c].invs)[i] = lock[c].invs[i + 1]
        /\ Len(lock[c].invs) \in Nat
    BY <1>5
  <1>7. /\ new.mode = lock[c].mode /\ new.invs = Tail(lock[c].invs)
        /\ new.gen = lock[c].gen /\ new.wrote = lock[c].wrote /\ new.users = lock[c].users
    BY ZenonT(60), <1>3 DEF Lock
  <1>8. new \in Lock
    BY Zenon, <1>3, <1>6, UpdateType
  <1> HIDE DEF new
  <1>9. /\ lock'[c] = put_lock(new) /\ worker'[c] = "idle"
        /\ \A d \in Client \ {c} : lock'[d] = lock[d] /\ worker'[d] = worker[d]
    BY Zenon, <1>1, <1>3
  <1>10. NoLock.mode = "null" /\ NoLock.invs = <<>>
    BY DEF NoLock
  <1>11. /\ lock'[c] = new \/ (lock'[c] = NoLock /\ new.mode = "null" /\ new.invs = <<>>)
         /\ lock'[c].mode = lock[c].mode /\ lock'[c].invs = Tail(lock[c].invs)
    BY Zenon, <1>7, <1>8, <1>9, <1>10, PutLockIdle
  <1>12. lock'[c].mode # "null" => /\ lock'[c].gen = lock[c].gen
                                   /\ lock'[c].wrote = lock[c].wrote
                                   /\ lock'[c].users = lock[c].users
    BY Zenon, <1>7, <1>10, <1>11
  <1>13. IdleKept(c)' /\ LinkKept(c)'
    BY Zenon, <1>1, <1>4, <1>8, <1>9, PutLockIdle DEF IdleKept, LinkKept, Running
  <1>14. CacheMode(c)' = lock[c].mode /\ CacheMode(c) = lock[c].mode
    BY Zenon, <1>1, <1>9, <1>11 DEF CacheMode
  <1>15. ASSUME IsMounted(c)
         PROVE  RequestNeeded(c)' /\ ModesExact(c)' /\ CacheAllowed(c)' /\ InodeAllowed(c)'
    <2>1. RequestNeeded(c) /\ ModesExact(c) /\ CacheAllowed(c) /\ InodeAllowed(c)
      BY Zenon, <1>4, <1>15 DEF Exact, Allowed
    <2>2. RequestNeeded(c)'
      BY Zenon, <1>1, <1>2, <1>11, <2>1 DEF RequestNeeded, Needed
    <2>3. \A i \in FirstInval(c)'..Len(lock'[c].invs) :
             Lowers(lock'[c].invs[i], CacheMode(c)') /\ invalidated'[c] = CacheMode(c)'
      <3>1. FirstInval(c)' = 1 /\ FirstInval(c) = 2
        BY <1>1, <1>9 DEF FirstInval
      <3>2. \A i \in FirstInval(c)..Len(lock[c].invs) :
               Lowers(lock[c].invs[i], CacheMode(c)) /\ invalidated[c] = CacheMode(c)
        BY Zenon, <2>1 DEF ModesExact
      <3>3. \A i \in 1..Len(Tail(lock[c].invs)) : i + 1 \in 2..Len(lock[c].invs)
        BY <1>6
      <3> QED
        BY Zenon, <1>2, <1>6, <1>11, <1>14, <3>1, <3>2, <3>3
    <2>4. ModesExact(c)'
      BY Zenon, <1>1, <1>2, <1>11, <2>1, <2>3 DEF ModesExact, GrantSent, Record
    <2>5. dirty[c] => lock[c].mode # "null" /\ lock_mode_can_write(lock[c].mode)
      BY <1>14, <2>1 DEF CacheAllowed, lock_mode_can_write
    <2>6. CacheAllowed(c)'
      BY Zenon, <1>1, <1>11, <1>12, <1>14, <2>1, <2>5 DEF CacheAllowed, Writing
    <2>7. lock_mode_can_read(lock[c].mode) => lock[c].mode # "null"
      BY DEF lock_mode_can_read
    <2>8. InodeAllowed(c)'
      BY Zenon, <1>1, <1>11, <1>12, <1>14, <2>1, <2>7 DEF InodeAllowed
    <2> QED
      BY Zenon, <2>2, <2>4, <2>6, <2>8
  <1>16. MountCacheInv(c)'
    BY Zenon, <1>1, <1>13, <1>15 DEF MountCacheInv, Exact, Allowed, IsMounted
  <1> QED
    BY Zenon, <1>1, <1>2, <1>9, <1>16, OneMountInv

-----------------------------------------------------------------------------
(* Mounts that leave                                                       *)

\* A mount that is not mounted only has to keep its lock and its connection in order.
LEMMA UnmountedInv ==
  ASSUME NEW c \in Client, ~ IsMounted(c)', IdleKept(c)', LinkKept(c)'
  PROVE  MountCacheInv(c)'
  BY Zenon DEF MountCacheInv, Exact, Allowed

\* scoutfs_lock_shutdown() and scoutfs_shutdown_trans() leave the lock in the tree.
LEMMA ShutdownCacheInv ==
  ASSUME TypeOK, CacheInv, NEW c \in Client, LockShutdown(c) \/ ShutdownTrans(c),
         UNCHANGED serverVars
  PROVE  CacheInv'
  <1>1. /\ lock \in [Client -> Lock]
        /\ mount \in [Client -> {"mounted", "shutdown", "farewell", "reclaimed", "gone", "fenced"}]
        /\ dirty \in [Client -> BOOLEAN]
    BY Zenon DEF TypeOK, ClientTypeOK
  <1>2. IdleKept(c) /\ LinkKept(c)
    BY Zenon, CacheInvParts
  <1>3. UNCHANGED <<granted, requested, invalidated>>
    BY Zenon DEF serverVars
  <1>4. UNCHANGED <<worker, cached, inode, toClient, toServer, link>>
    BY Zenon DEF LockShutdown, ShutdownTrans, cacheVars, netVars
  <1>5. \A d \in Client \ {c} : mount'[d] = mount[d] /\ lock'[d] = lock[d] /\ dirty'[d] = dirty[d]
    BY Zenon, <1>1 DEF LockShutdown, ShutdownTrans, cacheVars
  <1>6. mount'[c] \in {"shutdown", "farewell"} /\ mount[c] \in {"mounted", "shutdown"}
    BY <1>1 DEF LockShutdown, ShutdownTrans
  <1>7. /\ lock'[c].have = lock[c].have /\ lock'[c].mode = lock[c].mode
        /\ lock_idle(lock'[c]) = lock_idle(lock[c])
    <2>1. CASE LockShutdown(c)
      BY Zenon, <2>1 DEF LockShutdown
    <2>2. CASE ShutdownTrans(c)
      <3> DEFINE new == [lock[c] EXCEPT !.wrote = FALSE]
      <3>1. lock'[c] = new
        BY Zenon, <1>1, <2>2 DEF ShutdownTrans
      <3>2. lock[c] \in Lock
        BY Zenon, <1>1
      <3> QED
        BY Zenon, <3>1, <3>2 DEF Lock, lock_idle
    <2> QED
      BY Zenon, <2>1, <2>2
  <1>8. Running(c) /\ ~ IsMounted(c)'
    BY <1>6 DEF Running, IsMounted
  <1>9. IdleKept(c)' /\ LinkKept(c)'
    <2>1. Running(c)'
      BY <1>6 DEF Running
    <2> QED
      BY Zenon, <1>2, <1>4, <1>7, <2>1 DEF IdleKept, LinkKept
  <1>10. MountCacheInv(c)'
    BY Zenon, <1>8, <1>9, UnmountedInv
  <1> QED
    BY Zenon, <1>3, <1>4, <1>5, <1>10, OneMountInv

\* A mount that ended has no lock and no connection.
LEMMA VanishCacheInv ==
  ASSUME TypeOK, CacheInv, NEW c \in Client, NEW how \in {"gone", "fenced"}, Vanish(c, how),
         UNCHANGED serverVars
  PROVE  CacheInv'
  <1>1. /\ lock \in [Client -> Lock]
        /\ mount \in [Client -> {"mounted", "shutdown", "farewell", "reclaimed", "gone", "fenced"}]
        /\ worker \in [Client -> {"idle", "invalidate", "finish"}]
        /\ cached \in [Client -> BOOLEAN]
        /\ dirty \in [Client -> BOOLEAN]
        /\ inode \in [Client -> InodeState]
    BY Zenon DEF TypeOK, ClientTypeOK
  <1>2. /\ toClient \in [Client -> Seq(ClientMsg)]
        /\ link \in [Client -> {"up", "down", "lost"}]
    BY Zenon DEF TypeOK, NetTypeOK
  <1>3. UNCHANGED <<granted, requested, invalidated>>
    BY Zenon DEF serverVars
  <1>4. \A d \in Client \ {c} : /\ lock'[d] = lock[d]
                                /\ worker'[d] = worker[d]
                                /\ mount'[d] = mount[d]
                                /\ toClient'[d] = toClient[d]
                                /\ link'[d] = link[d]
                                /\ cached'[d] = cached[d]
                                /\ dirty'[d] = dirty[d]
                                /\ inode'[d] = inode[d]
                                /\ \A msg \in toServer' : msg.rid = d => msg \in toServer
    BY Zenon, <1>1, <1>2 DEF Vanish
  <1>5. /\ mount'[c] = how /\ lock'[c] = NoLock /\ toClient'[c] = <<>> /\ link'[c] = "lost"
    BY Zenon, <1>1, <1>2 DEF Vanish
  <1>6. ~ NoLock.have
    BY DEF NoLock
  <1>7. ~ IsMounted(c)' /\ IdleKept(c)' /\ LinkKept(c)'
    BY <1>5, <1>6 DEF IsMounted, IdleKept, LinkKept
  <1>8. MountCacheInv(c)'
    BY Zenon, <1>7, UnmountedInv
  <1> QED
    BY Zenon, <1>3, <1>4, <1>8, OneMountInv

\* A mount that lost its connection keeps using what it has.
LEMMA LoseClientCacheInv ==
  ASSUME TypeOK, CacheInv, NEW c \in Client, LoseClient(c), UNCHANGED serverVars
  PROVE  CacheInv'
  <1>1. /\ toClient \in [Client -> Seq(ClientMsg)]
        /\ link \in [Client -> {"up", "down", "lost"}]
    BY Zenon DEF TypeOK, NetTypeOK
  <1>2. UNCHANGED <<granted, requested, invalidated>>
    BY Zenon DEF serverVars
  <1>3. UNCHANGED <<lock, worker, mount, cached, dirty, inode>>
    BY Zenon DEF LoseClient, lockVars, cacheVars
  <1>4. \A d \in Client \ {c} : /\ toClient'[d] = toClient[d] /\ link'[d] = link[d]
                                /\ \A msg \in toServer' : msg.rid = d => msg \in toServer
    BY Zenon, <1>1 DEF LoseClient
  <1>5. toClient'[c] = <<>> /\ link'[c] = "lost" /\ \A msg \in toServer' : msg.rid # c
    BY Zenon, <1>1 DEF LoseClient
  <1>6. IdleKept(c) /\ Exact(c) /\ Allowed(c)
    BY Zenon, CacheInvParts
  <1>7. IdleKept(c)' /\ LinkKept(c)'
    BY Zenon, <1>3, <1>5, <1>6 DEF IdleKept, LinkKept
  <1>8. ASSUME IsMounted(c)
        PROVE  RequestNeeded(c)' /\ ModesExact(c)' /\ CacheAllowed(c)' /\ InodeAllowed(c)'
    <2>1. RequestNeeded(c) /\ ModesExact(c) /\ CacheAllowed(c) /\ InodeAllowed(c)
      BY Zenon, <1>6, <1>8 DEF Exact, Allowed
    <2>2. RequestNeeded(c)'
      BY Zenon, <1>2, <1>3, <1>5, <2>1 DEF RequestNeeded, Needed
    <2>3. 1..Len(toClient'[c]) = {}
      BY <1>5
    <2>4. FirstInval(c)' = FirstInval(c) /\ CacheMode(c)' = CacheMode(c) /\ Writing(c)' = Writing(c)
      BY Zenon, <1>3 DEF FirstInval, CacheMode, Writing
    <2>5. link'[c] # "up"
      BY <1>5
    <2>6. ModesExact(c)'
      BY Zenon, <1>2, <1>3, <1>5, <2>1, <2>3, <2>4, <2>5 DEF ModesExact
    <2>7. CacheAllowed(c)' /\ InodeAllowed(c)'
      BY Zenon, <1>3, <2>1, <2>4 DEF CacheAllowed, InodeAllowed
    <2> QED
      BY Zenon, <2>2, <2>6, <2>7
  <1>9. MountCacheInv(c)'
    BY Zenon, <1>3, <1>7, <1>8 DEF MountCacheInv, Exact, Allowed, IsMounted
  <1> QED
    BY Zenon, <1>2, <1>3, <1>4, <1>9, OneMountInv

=============================================================================
