------------------------ MODULE LockCoherence_proofs ------------------------
(***************************************************************************)
(* The steps of the lock server keep CacheInv and, with the steps of the   *)
(* mounts in LockCache_proofs, the proofs that what a mount caches under   *)
(* the lock is coherent: the items, the fields of an inode and the         *)
(* refresh_gen that guards them, and that the BUG_ONs of the lock client   *)
(* hold, for any number of mounts and callers.                             *)
(***************************************************************************)
EXTENDS LockCache_proofs

-----------------------------------------------------------------------------
(* The lock server                                                         *)

\* What the lock server waits to grant to a mount, it waited to grant before.
QueuedBefore(c) ==
    \A i \in 1..Len(requested') : requested'[i].rid = c =>
       \E j \in 1..Len(requested) : requested[j] = requested'[i]

\* The lock server does not change what a mount has; it has to keep what it knows of the
\* mount, and not send to one that lost its connection.
LEMMA ServerCacheInv ==
  ASSUME CacheInv, UNCHANGED <<lock, worker, cached, dirty, inode, link>>,
         \A c \in Client : IsMounted(c)' => IsMounted(c) /\ RequestNeeded(c)' /\ ModesExact(c)',
         \A c \in Client : link[c] = "lost" => toClient'[c] = toClient[c],
         \A c \in Client : Running(c) => Running(c)'
  PROVE  CacheInv'
  <1> SUFFICES ASSUME NEW c \in Client PROVE MountCacheInv(c)'
    BY Zenon DEF CacheInv, MountCacheInv, Exact, Allowed
  <1>1. IdleKept(c) /\ LinkKept(c) /\ Allowed(c)
    BY Zenon, CacheInvParts
  <1>2. IdleKept(c)' /\ LinkKept(c)'
    BY Zenon, <1>1 DEF IdleKept, LinkKept
  <1>3. IsMounted(c)' => CacheAllowed(c)' /\ InodeAllowed(c)'
    BY Zenon, <1>1 DEF Allowed, CacheAllowed, InodeAllowed, CacheMode, Writing
  <1> QED
    BY Zenon, <1>2, <1>3 DEF MountCacheInv, Exact, Allowed

\* A step of the lock server that is not about a mount keeps what it knows of the mount.
LEMMA ServerFrame ==
  ASSUME NEW c \in Client, RequestNeeded(c), ModesExact(c),
         UNCHANGED <<lock, worker, link>>,
         granted'[c] = granted[c], invalidated'[c] = invalidated[c],
         toClient'[c] = toClient[c], toServer' \subseteq toServer, QueuedBefore(c)
  PROVE  RequestNeeded(c)' /\ ModesExact(c)'
  <1>1. RequestNeeded(c)'
    BY Zenon DEF RequestNeeded, Needed, QueuedBefore
  <1>2. /\ FirstInval(c)' = FirstInval(c) /\ CacheMode(c)' = CacheMode(c)
        /\ GrantSent(c)' = GrantSent(c) /\ Record(c)' = Record(c)
    BY Zenon DEF FirstInval, CacheMode, GrantSent, Record
  <1>3. ModesExact(c)'
    BY Zenon, <1>2 DEF ModesExact
  <1> QED
    BY Zenon, <1>1, <1>3

\* The queue of requests changes at its ends, or loses the requests of a client.
LEMMA QueueEntries ==
  ASSUME TypeOK, TypeOK'
  PROVE  /\ UNCHANGED requested => \A d \in Client : QueuedBefore(d)
         /\ \A c \in Client, m \in Mode :
               requested' = Append(requested, [rid |-> c, mode |-> m]) =>
                  \A i \in 1..Len(requested') :
                     \/ requested'[i] = [rid |-> c, mode |-> m]
                     \/ \E j \in 1..Len(requested) : requested[j] = requested'[i]
         /\ requested # <<>> /\ requested' = Tail(requested) =>
               \A d \in Client : QueuedBefore(d)
         /\ \A c \in Client :
               requested' = WithoutClient(requested, c) => \A d \in Client : QueuedBefore(d)
  <1>1. requested \in Seq(Waiting) /\ Len(requested) \in Nat
    BY DEF TypeOK, ServerTypeOK
  <1>2. UNCHANGED requested => \A d \in Client : QueuedBefore(d)
    BY Zenon DEF QueuedBefore
  <1>3. ASSUME NEW c \in Client, NEW m \in Mode,
               requested' = Append(requested, [rid |-> c, mode |-> m])
        PROVE  \A i \in 1..Len(requested') :
                  \/ requested'[i] = [rid |-> c, mode |-> m]
                  \/ \E j \in 1..Len(requested) : requested[j] = requested'[i]
    <2> DEFINE req == [rid |-> c, mode |-> m]
    <2>1. req \in Waiting
      BY DEF Waiting
    <2> HIDE DEF req
    <2>2. /\ Len(Append(requested, req)) = Len(requested) + 1
          /\ Append(requested, req)[Len(requested) + 1] = req
          /\ \A i \in 1..Len(requested) : Append(requested, req)[i] = requested[i]
      BY <1>1, <2>1
    <2>3. \A i \in 1..(Len(requested) + 1) : i \in 1..Len(requested) \/ i = Len(requested) + 1
      BY <1>1
    <2>4. requested' = Append(requested, req)
      BY Zenon, <1>3 DEF req
    <2>5. \A i \in 1..Len(requested') :
             requested'[i] = req \/ \E j \in 1..Len(requested) : requested[j] = requested'[i]
      BY Zenon, <2>2, <2>3, <2>4
    <2> QED
      BY Zenon, <2>5 DEF req
  <1>4. ASSUME requested # <<>>, requested' = Tail(requested)
        PROVE  \A d \in Client : QueuedBefore(d)
    <2>1. \A i \in 1..Len(requested') :
             i + 1 \in 1..Len(requested) /\ requested'[i] = requested[i + 1]
      BY <1>1, <1>4
    <2> QED
      BY Zenon, <2>1 DEF QueuedBefore
  <1>5. ASSUME NEW c \in Client, requested' = WithoutClient(requested, c)
        PROVE  \A d \in Client : QueuedBefore(d)
    <2> DEFINE mine == {i \in 1..Len(requested) : requested[i].rid = c}
               k    == CHOOSE i \in mine : TRUE
    <2>1. CASE mine = {}
      <3>1. UNCHANGED requested
        BY <1>5, <2>1 DEF WithoutClient
      <3> QED
        BY Zenon, <1>2, <3>1
    <2>2. CASE mine # {}
      <3>1. k \in 1..Len(requested)
        BY Zenon, <2>2
      <3>2. requested' = [j \in 1..(Len(requested) - 1) |->
                            IF j < k THEN requested[j] ELSE requested[j + 1]]
        BY Zenon, <1>5, <2>2 DEF WithoutClient
      <3> HIDE DEF k
      <3>3. Len(requested') = Len(requested) - 1
        BY <1>1, <3>1, <3>2
      <3>4. \A i \in 1..Len(requested') : \E j \in 1..Len(requested) : requested[j] = requested'[i]
        BY <1>1, <3>1, <3>2, <3>3
      <3> QED
        BY Zenon, <3>4 DEF QueuedBefore
    <2> QED
      BY Zenon, <2>1, <2>2
  <1> QED
    BY Zenon, <1>2, <1>3, <1>4, <1>5

\* scoutfs_lock_server_request() queues a request that is still needed.
LEMMA ServerRequestCacheInv ==
  ASSUME TypeOK, TypeOK', LockInv, CacheInv, NEW c \in Client, ServerRequest(c),
         UNCHANGED clientVars
  PROVE  CacheInv'
  <1>1. PICK msg \in toServer : /\ msg.cmd = "request"
                                /\ msg.rid = c
                                /\ toServer' = toServer \ {msg}
                                /\ requested' = Append(requested, [rid |-> c, mode |-> msg.mode])
    BY Zenon DEF ServerRequest
  <1>2. UNCHANGED <<lock, worker, mount, cached, dirty, inode, toClient, link, granted, invalidated>>
    BY Zenon DEF ServerRequest, clientVars, lockVars, cacheVars
  <1>3. msg.mode \in Mode
    BY Zenon DEF TypeOK, NetTypeOK, ServerMsg
  <1> DEFINE req == [rid |-> c, mode |-> msg.mode]
  <1>4. \A i \in 1..Len(requested') :
           requested'[i] = req \/ \E j \in 1..Len(requested) : requested[j] = requested'[i]
    BY Zenon, <1>1, <1>3, QueueEntries
  <1>5. req.rid = c /\ req.mode = msg.mode
    OBVIOUS
  <1> HIDE DEF req
  <1>6. ASSUME NEW d \in Client, IsMounted(d)'
        PROVE  IsMounted(d) /\ RequestNeeded(d)' /\ ModesExact(d)'
    <2>1. IsMounted(d) /\ RequestNeeded(d) /\ ModesExact(d)
      BY Zenon, <1>2, <1>6, CacheInvParts DEF Exact, IsMounted
    <2>2. RequestNeeded(d)'
      <3>1. \A n \in toServer : n.cmd = "request" /\ n.rid = d => Needed(d, n.mode)
        BY Zenon, <2>1 DEF RequestNeeded
      <3>2. \A i \in 1..Len(requested) : requested[i].rid = d => Needed(d, requested[i].mode)
        BY Zenon, <2>1 DEF RequestNeeded
      <3>3. \A i \in 1..Len(requested') : requested'[i].rid = d => Needed(d, requested'[i].mode)
        <4> SUFFICES ASSUME NEW i \in 1..Len(requested'), requested'[i].rid = d
                     PROVE  Needed(d, requested'[i].mode)
          BY Zenon
        <4>1. CASE requested'[i] = req
          BY Zenon, <1>1, <1>5, <3>1, <4>1
        <4>2. CASE \E j \in 1..Len(requested) : requested[j] = requested'[i]
          BY Zenon, <3>2, <4>2
        <4> QED
          BY Zenon, <1>4, <4>1, <4>2
      <3> QED
        BY Zenon, <1>1, <1>2, <3>1, <3>3 DEF RequestNeeded, Needed
    <2>3. /\ FirstInval(d)' = FirstInval(d) /\ CacheMode(d)' = CacheMode(d)
          /\ GrantSent(d)' = GrantSent(d) /\ Record(d)' = Record(d)
      BY Zenon, <1>2 DEF FirstInval, CacheMode, GrantSent, Record
    <2>4. ModesExact(d)'
      BY Zenon, <1>1, <1>2, <2>1, <2>3 DEF ModesExact
    <2> QED
      BY Zenon, <2>1, <2>2, <2>4
  <1>7. \A d \in Client : Running(d) => Running(d)'
    BY Zenon, <1>2 DEF Running
  <1> QED
    BY Zenon, <1>2, <1>6, <1>7, ServerCacheInv

\* scoutfs_lock_server_response() learns the mode that the client has.
LEMMA ServerResponseCacheInv ==
  ASSUME TypeOK, TypeOK', LockInv, CacheInv, NEW c \in Client, ServerResponse(c),
         UNCHANGED clientVars
  PROVE  CacheInv'
  <1>1. PICK msg \in toServer :
           /\ msg.cmd = "response"
           /\ msg.rid = c
           /\ toServer' = toServer \ {msg}
           /\ IF ResponseAccepted(msg)
              THEN /\ invalidated' = [invalidated EXCEPT ![c] = NoEntry]
                   /\ granted' = IF msg.mode = "null" THEN granted
                                 ELSE [granted EXCEPT ![c] = msg.mode]
              ELSE UNCHANGED <<granted, invalidated>>
    BY Zenon DEF ServerResponse
  <1>2. UNCHANGED <<lock, worker, mount, cached, dirty, inode, toClient, link, requested>>
    BY Zenon DEF ServerResponse, clientVars, lockVars, cacheVars
  <1>3. granted \in [Client -> Entry] /\ invalidated \in [Client -> Entry]
    BY Zenon DEF TypeOK, ServerTypeOK
  <1>4. \A d \in Client : QueuedBefore(d)
    BY Zenon, <1>2, QueueEntries
  <1>5. \A d \in Client \ {c} : granted'[d] = granted[d] /\ invalidated'[d] = invalidated[d]
    BY Zenon, <1>1, <1>3
  <1>6. ASSUME NEW d \in Client, IsMounted(d)'
        PROVE  IsMounted(d) /\ RequestNeeded(d)' /\ ModesExact(d)'
    <2>1. IsMounted(d) /\ RequestNeeded(d) /\ ModesExact(d)
      BY Zenon, <1>2, <1>6, CacheInvParts DEF Exact, IsMounted
    <2>2. CASE d # c
      BY Zenon, <1>1, <1>2, <1>4, <1>5, <2>1, <2>2, ServerFrame
    <2>3. CASE d = c
      <3>1. /\ ResponseAccepted(msg) /\ granted[c] = NoEntry
            /\ ~ InvalSent(c) /\ ~ InvalQueued(c) /\ ~ GrantSent(c)
        BY Zenon, <1>1, <2>1, <2>3, ResponseKnown
      <3>2. msg.mode = lock[c].mode
        BY Zenon, <1>1, <2>1, <2>3 DEF ModesExact
      <3>3. granted'[c] = IF msg.mode = "null" THEN NoEntry ELSE msg.mode
        BY Zenon, <1>1, <1>3, <3>1
      <3>4. RequestNeeded(c)'
        BY Zenon, <1>1, <1>2, <2>1, <2>3 DEF RequestNeeded, Needed
      <3>5. \A i \in 1..Len(toClient'[c]) :
               toClient'[c][i].cmd # "grant" /\ toClient'[c][i].cmd # "inval"
        BY Zenon, <1>2, <3>1 DEF GrantSent, InvalSent
      <3>6. FirstInval(c)'..Len(lock'[c].invs) = {}
        <4>1. FirstInval(c)' = FirstInval(c) /\ FirstInval(c) \in Nat
          BY <1>2 DEF FirstInval
        <4>2. Len(lock[c].invs) \in Nat
          BY Zenon, LockFields
        <4>3. ~ (FirstInval(c) <= Len(lock[c].invs))
          BY Zenon, <3>1 DEF InvalQueued
        <4>4. FirstInval(c)..Len(lock[c].invs) = {}
          BY <4>1, <4>2, <4>3
        <4> QED
          BY Zenon, <1>2, <4>1, <4>4
      <3>7. granted'[c] # "null" /\ (granted'[c] # NoEntry => granted'[c] = lock'[c].mode)
        BY <1>2, <3>2, <3>3 DEF NoEntry
      <3>8. ModesExact(c)'
        BY Zenon, <1>1, <1>2, <2>1, <2>3, <3>5, <3>6, <3>7 DEF ModesExact
      <3> QED
        BY Zenon, <2>1, <2>3, <3>4, <3>8
    <2> QED
      BY Zenon, <2>2, <2>3
  <1>7. \A d \in Client : Running(d) => Running(d)'
    BY Zenon, <1>2 DEF Running
  <1> QED
    BY Zenon, <1>2, <1>6, <1>7, ServerCacheInv

\* While no client is on the invalidated list there is no invalidation of a mount.
LEMMA NoInvalidation ==
  ASSUME TypeOK, LockInv, NEW c \in Client, IsMounted(c), invalidated[c] = NoEntry
  PROVE  /\ ~ InvalSent(c) /\ ~ InvalAnswered(c)
         /\ FirstInval(c)..Len(lock[c].invs) = {}
         /\ Record(c) = granted[c]
  <1>1. MountedInv(c)
    BY Zenon, LockInvParts DEF LocalInv
  <1>2. ~ InvalSent(c) /\ ~ InvalQueued(c) /\ ~ InvalAnswered(c)
    BY Zenon, <1>1 DEF MountedInv, OneInvalidation
  <1>3. Len(lock[c].invs) \in Nat
    BY Zenon, LockFields
  <1>4. FirstInval(c) \in Nat
    BY Zenon DEF FirstInval
  <1>5. ~ (FirstInval(c) <= Len(lock[c].invs))
    BY Zenon, <1>2 DEF InvalQueued
  <1>6. FirstInval(c)..Len(lock[c].invs) = {}
    BY <1>3, <1>4, <1>5
  <1> QED
    BY Zenon, <1>2, <1>6 DEF Record

\* The invalidation that is sent takes away the mode that the client has, or will have
\* with the grant before it.
LEMMA InvalidateOneExact ==
  ASSUME TypeOK, LockInv, NEW c \in Client, IsMounted(c), ModesExact(c), link[c] # "lost",
         invalidated[c] = NoEntry, granted[c] # NoEntry, NEW m \in Mode,
         toClient'[c] = Append(toClient[c], InvalMsg(granted[c], invalidation_mode(granted[c], m))),
         invalidated'[c] = granted[c], granted'[c] = NoEntry,
         UNCHANGED <<lock, worker, requested, toServer, link>>
  PROVE  ModesExact(c)'
  <1> DEFINE new == invalidation_mode(granted[c], m)
             msg == InvalMsg(granted[c], new)
  <1>1. link[c] = "up"
    <2>1. link[c] \in {"up", "down", "lost"}
      BY Zenon DEF TypeOK, NetTypeOK
    <2>2. link[c] # "down"
      BY Zenon, LockInvParts DEF LocalInv, MountedInv, LockKept
    <2> QED
      BY Zenon, <2>1, <2>2
  <1>2. /\ ~ InvalSent(c) /\ ~ InvalAnswered(c)
        /\ FirstInval(c)..Len(lock[c].invs) = {}
        /\ Record(c) = granted[c]
    BY Zenon, NoInvalidation
  <1>3. granted[c] \in Mode /\ new \in Mode
    BY Zenon DEF TypeOK, ServerTypeOK, Entry, Mode, invalidation_mode
  <1>4. /\ msg \in ClientMsg /\ msg.cmd = "inval" /\ msg.new = new /\ msg.old = granted[c]
        /\ Lowers(msg, granted[c])
    <2>1. msg \in ClientMsg /\ msg.cmd = "inval" /\ msg.new = new /\ msg.old = granted[c]
      BY Zenon, <1>3 DEF InvalMsg, ClientMsg
    <2>2. new = "null" \/ (granted[c] = "write" /\ new = "read")
      BY Zenon DEF invalidation_mode
    <2> QED
      BY Zenon, <2>1, <2>2 DEF Lowers, KeepsCache
  <1> HIDE DEF new, msg
  <1>5. toClient[c] \in Seq(ClientMsg) /\ toClient'[c] = Append(toClient[c], msg)
    BY Zenon DEF TypeOK, NetTypeOK, msg, new
  <1>6. /\ Len(toClient[c]) \in Nat
        /\ Len(toClient'[c]) = Len(toClient[c]) + 1
        /\ \A i \in 1..Len(toClient[c]) : toClient'[c][i] = toClient[c][i]
        /\ toClient'[c][Len(toClient[c]) + 1] = msg
    BY <1>4, <1>5, AppendProperties
  <1>7. \A i \in 1..Len(toClient'[c]) : i \in 1..Len(toClient[c]) \/ i = Len(toClient[c]) + 1
    BY <1>6
  <1>8. \A i \in 1..Len(toClient[c]) : toClient[c][i].cmd # "inval"
    BY Zenon, <1>2 DEF InvalSent
  <1>9. Record(c)' = granted[c]
    BY Zenon DEF Record
  <1>10. NoEntry # "null"
    BY DEF NoEntry
  <1>11. \A i \in 1..Len(toClient'[c]) : toClient'[c][i].cmd = "grant" =>
            /\ Raises(toClient'[c][i], lock'[c].mode)
            /\ Record(c)' = IF toClient'[c][i].new = "null" THEN NoEntry ELSE toClient'[c][i].new
    <2> SUFFICES ASSUME NEW i \in 1..Len(toClient'[c]), toClient'[c][i].cmd = "grant"
                 PROVE  /\ Raises(toClient'[c][i], lock[c].mode)
                        /\ Record(c)' = IF toClient'[c][i].new = "null" THEN NoEntry
                                        ELSE toClient'[c][i].new
      BY Zenon
    <2>1. i \in 1..Len(toClient[c]) /\ toClient'[c][i] = toClient[c][i]
      BY Zenon, <1>4, <1>6, <1>7
    <2>2. /\ Raises(toClient[c][i], lock[c].mode)
          /\ Record(c) = IF toClient[c][i].new = "null" THEN NoEntry ELSE toClient[c][i].new
      BY Zenon, <2>1 DEF ModesExact
    <2> QED
      BY Zenon, <1>2, <1>9, <2>1, <2>2
  <1>12. ASSUME Len(toClient[c]) + 1 = 1 PROVE granted[c] = lock[c].mode
    <2>1. 1..Len(toClient[c]) = {}
      BY <1>6, <1>12
    <2>2. ~ GrantSent(c)
      BY Zenon, <2>1 DEF GrantSent
    <2> QED
      BY Zenon, <1>1, <2>2 DEF ModesExact
  <1>13. \A i \in 1..Len(toClient'[c]) : toClient'[c][i].cmd = "inval" =>
            /\ Lowers(toClient'[c][i], invalidated'[c])
            /\ i = 1 => invalidated'[c] = lock'[c].mode
    BY Zenon, <1>4, <1>6, <1>7, <1>8, <1>12
  <1>14. FirstInval(c)' = FirstInval(c)
    BY Zenon DEF FirstInval
  <1>15. \A n \in toServer' : ~ (n.cmd = "response" /\ n.rid = c)
    BY Zenon, <1>2 DEF InvalAnswered
  <1>16. FirstInval(c)'..Len(lock'[c].invs) = {}
    BY Zenon, <1>2, <1>14
  <1> QED
    BY Zenon, <1>10, <1>11, <1>13, <1>15, <1>16 DEF ModesExact

\* Sending invalidations keeps what the server knows of every client.
LEMMA ProcessInvalidateCacheInv ==
  ASSUME TypeOK, TypeOK', LockInv, CacheInv, ProcessInvalidate, UNCHANGED clientVars
  PROVE  CacheInv'
  <1> DEFINE req == Head(requested)
  <1>1. PICK sent \in SUBSET Client :
           /\ \A c \in sent : granted[c] # NoEntry /\ link[c] # "lost"
           /\ SendInvalidations(req, sent)
    BY Zenon DEF ProcessInvalidate, Incompatible
  <1>2. /\ UNCHANGED <<lock, worker, mount, cached, dirty, inode, requested, toServer, link>>
        /\ \A c \in Client : invalidated[c] = NoEntry
        /\ requested # <<>>
    BY Zenon DEF ProcessInvalidate, Walking, clientVars, lockVars, cacheVars
  <1>3. req.mode \in Mode
    <2>1. requested \in Seq(Waiting)
      BY Zenon DEF TypeOK, ServerTypeOK
    <2>2. req \in Waiting
      BY Zenon, <1>2, <2>1, HeadTailProperties
    <2> QED
      BY Zenon, <2>2 DEF Waiting
  <1> HIDE DEF req
  <1>4. \A c \in Client \ sent : /\ toClient'[c] = toClient[c]
                                 /\ invalidated'[c] = invalidated[c]
                                 /\ granted'[c] = granted[c]
    BY Zenon, <1>1 DEF SendInvalidations
  <1>5. ASSUME NEW c \in sent
        PROVE  /\ toClient'[c] = Append(toClient[c],
                     InvalMsg(granted[c], invalidation_mode(granted[c], req.mode)))
               /\ invalidated'[c] = granted[c] /\ granted'[c] = NoEntry
               /\ granted[c] # NoEntry /\ link[c] # "lost"
    BY Zenon, <1>1, <1>5 DEF SendInvalidations
  <1>6. \A c \in Client : QueuedBefore(c)
    BY Zenon, <1>2, QueueEntries
  <1>7. ASSUME NEW c \in Client, IsMounted(c)'
        PROVE  IsMounted(c) /\ RequestNeeded(c)' /\ ModesExact(c)'
    <2>1. IsMounted(c) /\ RequestNeeded(c) /\ ModesExact(c)
      BY Zenon, <1>2, <1>7, CacheInvParts DEF Exact, IsMounted
    <2>2. CASE c \notin sent
      BY Zenon, <1>2, <1>4, <1>6, <2>1, <2>2, ServerFrame
    <2>3. CASE c \in sent
      <3>1. ModesExact(c)'
        BY Zenon, <1>2, <1>3, <1>5, <2>1, <2>3, InvalidateOneExact
      <3>2. RequestNeeded(c)'
        BY Zenon, <1>2, <2>1 DEF RequestNeeded, Needed
      <3> QED
        BY Zenon, <2>1, <3>1, <3>2
    <2> QED
      BY Zenon, <2>2, <2>3
  <1>8. \A c \in Client : Running(c) => Running(c)'
    BY Zenon, <1>2 DEF Running
  <1>9. \A c \in Client : link[c] = "lost" => toClient'[c] = toClient[c]
    BY Zenon, <1>4, <1>5
  <1> QED
    BY Zenon, <1>2, <1>7, <1>8, <1>9, ServerCacheInv

\* The request that is granted raises the mode of its client, and the server knows it.
LEMMA GrantOneExact ==
  ASSUME TypeOK, LockInv, NEW c \in Client, IsMounted(c), RequestNeeded(c), ModesExact(c),
         link[c] = "up", requested # <<>>, Head(requested).rid = c,
         Incompatible(Head(requested)) = {}, invalidated[c] = NoEntry,
         NEW m \in Mode, m = Head(requested).mode,
         NEW old \in Mode, old = IF granted[c] = NoEntry THEN "null" ELSE granted[c],
         toClient'[c] = Append(toClient[c], GrantMsg(old, m)),
         granted'[c] = IF m = "null" THEN NoEntry ELSE m,
         UNCHANGED <<lock, worker, invalidated, toServer, link>>
  PROVE  ModesExact(c)'
  <1> DEFINE msg == GrantMsg(old, m)
  <1>1. /\ ~ InvalSent(c) /\ ~ InvalAnswered(c)
        /\ FirstInval(c)..Len(lock[c].invs) = {}
        /\ Record(c) = granted[c]
    BY Zenon, NoInvalidation
  <1>2. MountedInv(c)
    BY Zenon, LockInvParts DEF LocalInv
  <1>3. Head(requested) = requested[1] /\ 1 \in 1..Len(requested)
    BY DEF TypeOK, ServerTypeOK
  <1>4. RequestQueued(c) /\ Needed(c, m)
    BY Zenon, <1>3 DEF RequestQueued, RequestNeeded
  <1>5. ~ GrantSent(c)
    BY Zenon, <1>2, <1>4 DEF MountedInv, OneRequest
  <1>6. lock[c].mode \in Mode
    BY Zenon, LockFields
  <1>7. old = lock[c].mode
    <2>1. CASE granted[c] # NoEntry
      BY Zenon, <1>5, <2>1 DEF ModesExact
    <2>2. CASE granted[c] = NoEntry
      <3>1. link[c] # "lost"
        OBVIOUS
      <3>2. Covers(NoEntry, lock[c].mode)
        BY Zenon, <1>1, <1>2, <2>2, <3>1 DEF MountedInv, ModesCovered, Dropped
      <3> QED
        BY Zenon, <1>6, <2>2, <3>2 DEF Covers, NoEntry, Mode
    <2> QED
      BY Zenon, <2>1, <2>2
  <1>8. old = "null" \/ (old = "read" /\ m = "write")
    <2> SUFFICES ASSUME granted[c] # NoEntry PROVE old = "read" /\ m = "write"
      BY Zenon
    <2>1. client_entries_compatible(c, granted[c], c, m)
      BY Zenon DEF Incompatible
    <2>2. granted[c] = lock[c].mode /\ granted[c] = old
      BY Zenon, <1>7
    <2> QED
      BY <1>4, <2>1, <2>2 DEF client_entries_compatible, Needed, lock_modes_match
  <1>9. /\ msg \in ClientMsg /\ msg.cmd = "grant" /\ msg.new = m /\ msg.old = old
        /\ Raises(msg, lock[c].mode)
    <2>1. msg \in ClientMsg /\ msg.cmd = "grant" /\ msg.new = m /\ msg.old = old
      BY Zenon DEF GrantMsg, ClientMsg
    <2> QED
      BY Zenon, <1>7, <1>8, <2>1 DEF Raises
  <1> HIDE DEF msg
  <1>10. toClient[c] \in Seq(ClientMsg) /\ toClient'[c] = Append(toClient[c], msg)
    BY Zenon DEF TypeOK, NetTypeOK, msg
  <1>11. /\ Len(toClient[c]) \in Nat
         /\ Len(toClient'[c]) = Len(toClient[c]) + 1
         /\ \A i \in 1..Len(toClient[c]) : toClient'[c][i] = toClient[c][i]
         /\ toClient'[c][Len(toClient[c]) + 1] = msg
    BY <1>9, <1>10, AppendProperties
  <1>12. \A i \in 1..Len(toClient'[c]) : i \in 1..Len(toClient[c]) \/ i = Len(toClient[c]) + 1
    BY <1>11
  <1>13. Len(toClient[c]) + 1 \in 1..Len(toClient'[c])
    BY <1>11
  <1>14. \A i \in 1..Len(toClient[c]) : toClient[c][i].cmd # "inval" /\ toClient[c][i].cmd # "grant"
    BY Zenon, <1>1, <1>5 DEF InvalSent, GrantSent
  <1>15. GrantSent(c)'
    BY Zenon, <1>9, <1>11, <1>13 DEF GrantSent
  <1>16. Record(c)' = granted'[c] /\ granted'[c] # "null"
    <2>1. NoEntry # "null"
      BY DEF NoEntry
    <2> QED
      BY Zenon, <2>1 DEF Record
  <1>17. \A i \in 1..Len(toClient'[c]) : toClient'[c][i].cmd = "grant" =>
            /\ Raises(toClient'[c][i], lock'[c].mode)
            /\ Record(c)' = IF toClient'[c][i].new = "null" THEN NoEntry ELSE toClient'[c][i].new
    BY ZenonT(60), <1>9, <1>11, <1>12, <1>14, <1>16
  <1>18. \A i \in 1..Len(toClient'[c]) : toClient'[c][i].cmd # "inval"
    <2>1. "grant" # "inval"
      OBVIOUS
    <2> QED
      BY Zenon, <1>9, <1>11, <1>12, <1>14, <2>1
  <1>19. FirstInval(c)'..Len(lock'[c].invs) = {}
    BY Zenon, <1>1 DEF FirstInval
  <1>20. \A n \in toServer' : ~ (n.cmd = "response" /\ n.rid = c)
    BY Zenon, <1>1 DEF InvalAnswered
  <1> QED
    BY Zenon, <1>15, <1>16, <1>17, <1>18, <1>19, <1>20 DEF ModesExact

\* Granting a request, or failing to, keeps what the server knows of every client.
LEMMA ProcessGrantCacheInv ==
  ASSUME TypeOK, TypeOK', LockInv, CacheInv, ProcessGrant, UNCHANGED clientVars
  PROVE  CacheInv'
  <1>1. /\ requested # <<>> /\ Incompatible(Head(requested)) = {}
        /\ \A d \in Client : invalidated[d] = NoEntry
        /\ UNCHANGED <<lock, worker, mount, cached, dirty, inode, invalidated, toServer, link>>
    BY Zenon DEF ProcessGrant, Walking, clientVars, lockVars, cacheVars
  <1>2. /\ granted \in [Client -> Entry] /\ toClient \in [Client -> Seq(ClientMsg)]
        /\ requested \in Seq(Waiting)
    BY Zenon DEF TypeOK, ServerTypeOK, NetTypeOK
  <1>3. PICK c \in Client, m \in Mode, old \in Mode :
           /\ c = Head(requested).rid
           /\ m = Head(requested).mode
           /\ old = IF granted[c] = NoEntry THEN "null" ELSE granted[c]
    <2>1. Head(requested) \in Waiting
      BY Zenon, <1>1, <1>2, HeadTailProperties
    <2>2. Head(requested).rid \in Client /\ Head(requested).mode \in Mode
      BY Zenon, <2>1 DEF Waiting
    <2> QED
      BY Zenon, <1>2, <2>2 DEF Entry, Mode
  <1>4. /\ requested' = requested \/ requested' = Tail(requested)
        /\ \A d \in Client \ {c} : granted'[d] = granted[d] /\ toClient'[d] = toClient[d]
        /\ link[c] = "up" =>
              /\ toClient'[c] = Append(toClient[c], GrantMsg(old, m))
              /\ granted'[c] = IF m = "null" THEN NoEntry ELSE m
        /\ link[c] # "up" => granted'[c] = NoEntry /\ toClient'[c] = toClient[c]
    <2>1. CASE link[c] = "up"
      BY Zenon, <1>2, <1>3, <2>1 DEF ProcessGrant
    <2>2. CASE link[c] # "up"
      BY Zenon, <1>2, <1>3, <2>2 DEF ProcessGrant
    <2> QED
      BY Zenon, <2>1, <2>2
  <1>5. \A d \in Client : QueuedBefore(d)
    BY Zenon, <1>1, <1>4, QueueEntries
  <1>6. ASSUME NEW d \in Client, IsMounted(d)'
        PROVE  IsMounted(d) /\ RequestNeeded(d)' /\ ModesExact(d)'
    <2>1. IsMounted(d) /\ RequestNeeded(d) /\ ModesExact(d)
      BY Zenon, <1>1, <1>6, CacheInvParts DEF Exact, IsMounted
    <2>2. CASE d # c
      BY Zenon, <1>1, <1>4, <1>5, <2>1, <2>2, ServerFrame
    <2>3. RequestNeeded(d)'
      BY Zenon, <1>1, <1>5, <2>1 DEF RequestNeeded, Needed, QueuedBefore
    <2>4. CASE d = c /\ link[c] = "up"
      <3>1. ModesExact(c)'
        BY ZenonT(60), <1>1, <1>3, <1>4, <2>1, <2>4, GrantOneExact
      <3> QED
        BY Zenon, <2>1, <2>3, <2>4, <3>1
    <2>5. CASE d = c /\ link[c] # "up"
      <3>1. link[c] \in {"up", "down", "lost"}
        BY Zenon DEF TypeOK, NetTypeOK
      <3>2. link[c] # "down"
        BY Zenon, <2>1, <2>5, LockInvParts DEF LocalInv, MountedInv, LockKept
      <3>3. toClient'[c] = <<>>
        BY Zenon, <1>4, <2>5, <3>1, <3>2, CacheInvParts DEF LinkKept
      <3>4. 1..Len(toClient'[c]) = {}
        BY <3>3
      <3>5. /\ FirstInval(c)..Len(lock[c].invs) = {} /\ ~ InvalAnswered(c)
        BY Zenon, <1>1, <2>1, <2>5, NoInvalidation
      <3>6. FirstInval(c)'..Len(lock'[c].invs) = {}
        BY Zenon, <1>1, <3>5 DEF FirstInval
      <3>7. \A n \in toServer' : ~ (n.cmd = "response" /\ n.rid = c)
        BY Zenon, <1>1, <3>5 DEF InvalAnswered
      <3>8. NoEntry # "null"
        BY DEF NoEntry
      <3>9. ModesExact(c)'
        BY Zenon, <1>4, <2>5, <3>4, <3>6, <3>7, <3>8 DEF ModesExact
      <3> QED
        BY Zenon, <2>1, <2>3, <2>5, <3>9
    <2> QED
      BY Zenon, <2>2, <2>4, <2>5
  <1>7. \A d \in Client : Running(d) => Running(d)'
    BY Zenon, <1>1 DEF Running
  <1>8. \A d \in Client : link[d] = "lost" => toClient'[d] = toClient[d]
    <2>1. "lost" # "up"
      OBVIOUS
    <2> QED
      BY Zenon, <1>4, <2>1
  <1> QED
    BY Zenon, <1>1, <1>6, <1>7, <1>8, ServerCacheInv

\* scoutfs_lock_server_farewell() forgets a client that is not mounted any more.
LEMMA ReclaimCacheInv ==
  ASSUME TypeOK, TypeOK', LockInv, CacheInv, NEW c \in Client,
         ReclaimFarewell(c) \/ ReclaimFenced(c)
  PROVE  CacheInv'
  <1>1. /\ ServerFarewell(c) /\ UNCHANGED <<lock, worker, cached, dirty, inode>>
        /\ \A d \in Client \ {c} : mount'[d] = mount[d]
        /\ ~ IsMounted(c)'
        /\ Running(c) => Running(c)'
    BY Zenon DEF ReclaimFarewell, ReclaimFenced, clientVars, lockVars, cacheVars, IsMounted,
       Running, TypeOK, ClientTypeOK
  <1>2. granted \in [Client -> Entry] /\ invalidated \in [Client -> Entry]
    BY Zenon DEF TypeOK, ServerTypeOK
  <1>3. /\ \A d \in Client \ {c} : granted'[d] = granted[d] /\ invalidated'[d] = invalidated[d]
        /\ requested' = WithoutClient(requested, c)
        /\ UNCHANGED <<toClient, toServer, link>>
    BY Zenon, <1>1, <1>2 DEF ServerFarewell, netVars
  <1>4. \A d \in Client : QueuedBefore(d)
    BY Zenon, <1>3, QueueEntries
  <1>5. ASSUME NEW d \in Client, IsMounted(d)'
        PROVE  IsMounted(d) /\ RequestNeeded(d)' /\ ModesExact(d)'
    <2>1. d # c /\ IsMounted(d)
      BY Zenon, <1>1, <1>5 DEF IsMounted
    <2>2. RequestNeeded(d) /\ ModesExact(d)
      BY Zenon, <2>1, CacheInvParts DEF Exact
    <2> QED
      BY Zenon, <1>1, <1>3, <1>4, <2>1, <2>2, ServerFrame
  <1>6. \A d \in Client : Running(d) => Running(d)'
    BY Zenon, <1>1 DEF Running
  <1> QED
    BY Zenon, <1>1, <1>3, <1>5, <1>6, ServerCacheInv

-----------------------------------------------------------------------------
(* The invariant                                                           *)

\* Mounts start without a lock, without cached items and without messages.
LEMMA CacheInit == Init => CacheInv
  <1> SUFFICES ASSUME Init, NEW c \in Client
               PROVE  /\ IdleKept(c) /\ LinkKept(c)
                      /\ RequestNeeded(c) /\ ModesExact(c) /\ CacheAllowed(c) /\ InodeAllowed(c)
    BY Zenon DEF CacheInv
  <1>1. /\ lock[c] = NoLock /\ worker[c] = "idle" /\ mount[c] = "mounted"
        /\ toClient[c] = <<>> /\ link[c] = "up"
        /\ granted[c] = NoEntry /\ invalidated[c] = NoEntry
        /\ cached[c] = FALSE /\ dirty[c] = FALSE /\ inode[c] = "none"
        /\ toServer = {} /\ requested = <<>>
    BY Zenon DEF Init, ServerInit, NetInit, ClientInit
  <1>2. NoLock.mode = "null" /\ NoLock.have = FALSE /\ NoLock.invs = <<>>
    BY DEF NoLock
  <1>3. 1..Len(toClient[c]) = {} /\ 1..Len(requested) = {}
    BY <1>1
  <1>4. IdleKept(c) /\ LinkKept(c)
    BY <1>1, <1>2 DEF IdleKept, LinkKept, Running
  <1>5. RequestNeeded(c)
    BY Zenon, <1>1, <1>3 DEF RequestNeeded
  <1>6. FirstInval(c)..Len(lock[c].invs) = {}
    BY <1>1, <1>2 DEF FirstInval
  <1>7. ModesExact(c)
    <2>1. NoEntry # "null"
      BY DEF NoEntry
    <2> QED
      BY Zenon, <1>1, <1>3, <1>6, <2>1 DEF ModesExact
  <1>8. CacheAllowed(c) /\ InodeAllowed(c)
    BY <1>1, <1>2 DEF CacheAllowed, InodeAllowed, lock_mode_can_read
  <1> QED
    BY Zenon, <1>4, <1>5, <1>7, <1>8

\* Every step of the lock server and of the mounts keeps the invariant.
LEMMA CacheStep == TypeOK /\ LockInv /\ CacheInv /\ [Next]_vars => CacheInv'
  <1> SUFFICES ASSUME TypeOK, LockInv, CacheInv, [Next]_vars PROVE CacheInv'
    BY Zenon
  <1>1. TypeOK'
    BY Zenon, TypeStep, LockInvParts
  <1>2. ASSUME UNCHANGED <<lockVars, netVars, cached, dirty, inode, granted, requested, invalidated>>
        PROVE  CacheInv'
    <2>1. \A d \in Client : QueuedBefore(d)
      BY Zenon, <1>1, <1>2, QueueEntries
    <2>2. UNCHANGED <<lock, worker, mount, toClient, toServer, link>>
      BY Zenon, <1>2 DEF lockVars, netVars
    <2>3. ASSUME NEW d \in Client, IsMounted(d)'
          PROVE  IsMounted(d) /\ RequestNeeded(d)' /\ ModesExact(d)'
      <3>1. IsMounted(d) /\ RequestNeeded(d) /\ ModesExact(d)
        BY Zenon, <2>2, <2>3, CacheInvParts DEF Exact, IsMounted
      <3> QED
        BY Zenon, <1>2, <2>1, <2>2, <3>1, ServerFrame
    <2>4. \A d \in Client : Running(d) => Running(d)'
      BY Zenon, <2>2 DEF Running
    <2> QED
      BY Zenon, <1>2, <2>2, <2>3, <2>4, ServerCacheInv
  <1>3. CASE UNCHANGED vars
    BY Zenon, <1>2, <1>3 DEF vars, serverVars, clientVars, cacheVars
  <1>4. CASE ServerStep /\ UNCHANGED clientVars
    <2>1. CASE ProcessEnd
      BY Zenon, <1>2, <1>4, <2>1 DEF ProcessEnd, clientVars, cacheVars
    <2> QED
      BY Zenon, <1>1, <1>4, <2>1, ServerRequestCacheInv, ServerResponseCacheInv,
         ProcessInvalidateCacheInv, ProcessGrantCacheInv DEF ServerStep
  <1>5. ASSUME NEW c \in Client, CallerStep(c), UNCHANGED serverVars PROVE CacheInv'
    <2>1. CASE ReadItems(c) \/ WriteItems(c) \/ InodeRefresh(c) \/ InodeEvict(c)
      BY Zenon, <1>5, <2>1, ReadCacheInv, WriteCacheInv
    <2>2. CASE \E m \in CallModes[c] : LockCall(c, m)
      <3>1. PICK m \in UseMode : LockCall(c, m)
        BY Zenon, <2>2, CallModesAssumption
      <3> QED
        BY Zenon, <1>5, <3>1, CallerCacheInv DEF CallerAction
    <2>3. CASE \E m \in UseMode : LockAcquire(c, m) \/ LockGiveUp(c, m) \/ scoutfs_unlock(c, m)
      BY Zenon, <1>5, <2>3, CallerCacheInv DEF CallerAction
    <2>4. CASE \E m \in UseMode : LockSend(c, m)
      BY Zenon, <1>5, <2>4, FlagCacheInv
    <2> QED
      BY Zenon, <1>5, <2>1, <2>2, <2>3, <2>4 DEF CallerStep
  <1>6. ASSUME NEW c \in Client, BackgroundStep(c), UNCHANGED serverVars PROVE CacheInv'
    BY Zenon, <1>1, <1>6, GrantCacheInv, InvalidateRequestCacheInv, InvalidateStartCacheInv,
       InvalidateRespondCacheInv, InvalidateFinishCacheInv, FlagCacheInv DEF BackgroundStep
  <1>7. ASSUME NEW c \in Client, LeaveStep(c), UNCHANGED serverVars PROVE CacheInv'
    <2>1. CASE LockShutdown(c) \/ ShutdownTrans(c)
      BY Zenon, <1>7, <2>1, ShutdownCacheInv
    <2>2. CASE LoseClient(c)
      BY Zenon, <1>7, <2>2, LoseClientCacheInv
    <2>3. CASE FarewellResponse(c) \/ FenceClient(c)
      BY Zenon, <1>7, <2>3, VanishCacheInv DEF FarewellResponse, FenceClient
    <2> QED
      BY Zenon, <1>7, <2>1, <2>2, <2>3 DEF LeaveStep
  <1>8. ASSUME NEW c \in Client, ReclaimFarewell(c) \/ ReclaimFenced(c) PROVE CacheInv'
    BY Zenon, <1>1, <1>8, ReclaimCacheInv
  <1> QED
    BY Zenon, <1>3, <1>4, <1>5, <1>6, <1>7, <1>8 DEF Next

\* The invariant holds in every reachable state.
THEOREM CacheInvariant == Spec => []CacheInv
  <1>1. Init => CacheInv
    BY Zenon, CacheInit
  <1>2. TypeOK /\ LockInv /\ CacheInv /\ [Next]_vars => CacheInv'
    BY Zenon, CacheStep
  <1> QED
    BY <1>1, <1>2, TypeCorrect, LockInvariant, PTL DEF Spec

\* The BUG_ONs of scoutfs_lock_grant_response() are never hit: the grant finds its lock
\* and its request, no dirty items, and cached items only when a reader may now write.
THEOREM GrantsConsistent == Spec => []GrantConsistent
  <1>1. TypeOK /\ LockInv /\ CacheInv => GrantConsistent
    <2> SUFFICES ASSUME TypeOK, LockInv, CacheInv, NEW c \in Client,
                        mount[c] \notin {"shutdown", "farewell", "reclaimed"},
                        toClient[c] # <<>>, Head(toClient[c]).cmd = "grant"
                 PROVE  /\ lock[c].have /\ lock[c].pend /\ ~ dirty[c]
                        /\ cached[c] => /\ lock_mode_can_read(Head(toClient[c]).old)
                                        /\ lock_mode_can_read(Head(toClient[c]).new)
      BY Zenon DEF GrantConsistent
    <2> DEFINE msg == Head(toClient[c])
    <2>1. LinkKept(c) /\ Exact(c) /\ Allowed(c)
      BY Zenon, CacheInvParts
    <2>2. IsMounted(c)
      BY <2>1 DEF LinkKept, Running, IsMounted, TypeOK, ClientTypeOK
    <2>3. /\ Raises(msg, lock[c].mode) /\ CacheMode(c) = lock[c].mode
          /\ lock[c].pend /\ lock[c].have
      BY Zenon, <2>1, <2>2, GrantKnown
    <2>4. CacheAllowed(c)
      BY Zenon, <2>1, <2>2 DEF Allowed
    <2> HIDE DEF msg
    <2>5. ~ dirty[c] /\ (cached[c] => lock_mode_can_read(msg.old) /\ lock_mode_can_read(msg.new))
      BY Zenon, <2>3, <2>4 DEF Raises, CacheAllowed, lock_mode_can_read, lock_mode_can_write
    <2> QED
      BY Zenon, <2>3, <2>5 DEF msg
  <1> QED
    BY <1>1, TypeCorrect, LockInvariant, CacheInvariant, PTL

\* The BUG_ONs of lock_scan_objects() and lock_free() are never hit.
THEOREM IdleLocksKept == Spec => []IdleLocks
  <1>1. TypeOK /\ LockInv /\ CacheInv => IdleLocks
    <2> SUFFICES ASSUME TypeOK, LockInv, CacheInv, NEW c \in Client
                 PROVE  /\ IdleKept(c)
                        /\ ~ lock[c].have /\ IsMounted(c) => ~ cached[c]
      BY Zenon DEF IdleLocks, IdleKept, IsMounted
    <2>1. IdleKept(c) /\ Allowed(c)
      BY Zenon, CacheInvParts
    <2>2. ASSUME ~ lock[c].have, IsMounted(c) PROVE ~ cached[c]
      <3>1. lock[c] = NoLock
        BY Zenon, <2>2, LockInvParts DEF LocalInv, MountedInv, LockKept
      <3>2. lock[c].invs = <<>> /\ lock[c].mode = "null"
        BY <3>1 DEF NoLock
      <3>3. CacheMode(c) = "null"
        BY Zenon, <3>2, NoInvsMode
      <3> QED
        BY Zenon, <2>1, <2>2, <3>3 DEF Allowed, CacheAllowed
    <2> QED
      BY Zenon, <2>1, <2>2
  <1> QED
    BY <1>1, TypeCorrect, LockInvariant, CacheInvariant, PTL

\* A reader never trusts inode fields that another mount has changed since they were
\* loaded: scoutfs_inode_refresh() loads them again after a grant that lets it read.
THEOREM InodesCoherent == Spec => []InodeCoherence
  <1>1. TypeOK /\ LockInv /\ CacheInv => InodeCoherence
    <2> SUFFICES ASSUME TypeOK, LockInv, CacheInv, NEW c \in Client, Reading(c)
                 PROVE  inode[c] # "stale"
      BY Zenon DEF InodeCoherence
    <2>1. Exact(c) /\ Allowed(c)
      BY Zenon, CacheInvParts
    <2>2. IsMounted(c) /\ lock_mode_can_read(CacheMode(c))
      BY Zenon, <2>1, ReaderMode
    <2> QED
      BY Zenon, <2>1, <2>2 DEF Allowed, InodeAllowed
  <1> QED
    BY <1>1, TypeCorrect, LockInvariant, CacheInvariant, PTL

\* A reader's lock has been granted a refresh_gen, so that the BUG_ON of
\* scoutfs_inode_refresh() on a decreasing generation is never hit.
THEOREM RefreshGensIncrease == Spec => []RefreshGenIncreases
  <1>1. TypeOK /\ LockInv /\ CacheInv => RefreshGenIncreases
    <2> SUFFICES ASSUME TypeOK, LockInv, CacheInv, NEW c \in Client, Reading(c)
                 PROVE  lock[c].gen
      BY Zenon DEF RefreshGenIncreases
    <2>1. Exact(c) /\ Allowed(c)
      BY Zenon, CacheInvParts
    <2>2. IsMounted(c) /\ lock_mode_can_read(lock[c].mode)
      BY Zenon, <2>1, ReaderMode
    <2> QED
      BY Zenon, <2>1, <2>2 DEF Allowed, InodeAllowed
  <1> QED
    BY <1>1, TypeCorrect, LockInvariant, CacheInvariant, PTL

-----------------------------------------------------------------------------
(* Items that are out of date                                              *)

\* The part of StaleInv about one mount.
ModesCalled(c, l) ==
    \A m \in UseMode : l.users[m] > 0 \/ l.waiters[m] > 0 => m \in CallModes[c]

DirtyAllowed(c) ==
    dirty[c] => /\ c \in Touchers
                /\ \E m \in CallModes[c] : lock_mode_can_write(m)
                /\ IsMounted(c)

StaleAllowed(c) == IsMounted(c) /\ stale[c] => CacheMode(c) = "wonly"

MountStaleInv(c) == ModesCalled(c, lock[c]) /\ DirtyAllowed(c) /\ StaleAllowed(c)

\* StaleInv is about each mount alone.
LEMMA StaleInvParts == StaleInv <=> \A c \in Client : MountStaleInv(c)
  BY Zenon DEF StaleInv, MountStaleInv, ModesCalled, DirtyAllowed, StaleAllowed

\* A mount whose lock and caches do not change keeps its part.
LEMMA StaleFrame ==
  ASSUME NEW d \in Client, MountStaleInv(d), lock'[d] = lock[d], worker'[d] = worker[d],
         mount'[d] = mount[d], dirty'[d] = dirty[d], stale'[d] = stale[d]
  PROVE  MountStaleInv(d)'
  BY Zenon DEF MountStaleInv, ModesCalled, DirtyAllowed, StaleAllowed, IsMounted, CacheMode

\* A step of one mount.
LEMMA OneStaleInv ==
  ASSUME StaleInv, NEW c \in Client, MountStaleInv(c)',
         \A d \in Client \ {c} : /\ lock'[d] = lock[d]
                                 /\ worker'[d] = worker[d]
                                 /\ mount'[d] = mount[d]
                                 /\ dirty'[d] = dirty[d]
                                 /\ stale'[d] = stale[d]
  PROVE  StaleInv'
  <1>1. \A d \in Client \ {c} : MountStaleInv(d)'
    BY Zenon, StaleInvParts, StaleFrame
  <1>2. StaleInv' <=> \A d \in Client : MountStaleInv(d)'
    BY Zenon DEF StaleInv, MountStaleInv, ModesCalled, DirtyAllowed, StaleAllowed
  <1> QED
    BY Zenon, <1>1, <1>2

\* put_lock() does not change whose callers there are, nor the mode.
LEMMA PutLockCalled ==
  ASSUME NEW c \in Client, NEW l \in Lock, ModesCalled(c, l)
  PROVE  /\ ModesCalled(c, put_lock(l))
         /\ put_lock(l).mode = l.mode
  <1>1. /\ NoLock.mode = "null" /\ NoLock.users = Nobody /\ NoLock.waiters = Nobody
        /\ \A m \in UseMode : Nobody[m] = 0
    BY DEF NoLock, Nobody
  <1>2. ModesCalled(c, NoLock)
    <2>1. ~ (0 > 0)
      OBVIOUS
    <2> QED
      BY Zenon, <1>1, <2>1 DEF ModesCalled
  <1> QED
    BY Zenon, <1>1, <1>2, PutLockIdle

\* A step that changes only the lock of a mount, and not the mode of its caches.
LEMMA LockStaleInv ==
  ASSUME TypeOK, LockInv, StaleInv, NEW c \in Client, NEW l \in Lock,
         lock' = [lock EXCEPT ![c] = l] \/ lock' = [lock EXCEPT ![c] = put_lock(l)],
         ModesCalled(c, l), l.mode = lock[c].mode, l.inving = lock[c].inving,
         l.invs = lock[c].invs,
         dirty' = dirty \/ dirty' = [dirty EXCEPT ![c] = FALSE],
         UNCHANGED <<worker, mount, stale>>
  PROVE  StaleInv'
  <1>1. /\ \A d \in Client \ {c} : lock'[d] = lock[d]
        /\ lock'[c] = l \/ lock'[c] = put_lock(l)
    BY Zenon, LockFields
  <1>2. /\ \A d \in Client \ {c} : dirty'[d] = dirty[d]
        /\ dirty'[c] => dirty[c]
    BY Zenon DEF TypeOK, ClientTypeOK
  <1>3. MountStaleInv(c)
    BY Zenon, StaleInvParts
  <1>4. ModesCalled(c, lock'[c])
    BY Zenon, <1>1, PutLockCalled
  <1>5. CacheMode(c)' = CacheMode(c)
    <2>1. CASE lock'[c] = l
      BY Zenon, <2>1 DEF CacheMode
    <2>2. CASE lock'[c] = NoLock /\ lock[c].mode = "null" /\ lock[c].invs = <<>>
      <3>1. NoLock.mode = "null"
        BY DEF NoLock
      <3>2. worker[c] = "idle" /\ CacheMode(c) = lock[c].mode
        BY Zenon, <2>2, NoInvsMode
      <3> QED
        BY Zenon, <2>2, <3>1, <3>2 DEF CacheMode
    <2> QED
      BY Zenon, <1>1, <2>1, <2>2, PutLockIdle
  <1>6. DirtyAllowed(c)' /\ StaleAllowed(c)'
    BY Zenon, <1>2, <1>3, <1>5 DEF MountStaleInv, DirtyAllowed, StaleAllowed, IsMounted
  <1>7. MountStaleInv(c)'
    BY Zenon, <1>4, <1>6 DEF MountStaleInv, ModesCalled
  <1> QED
    BY Zenon, <1>1, <1>2, <1>7, OneStaleInv

\* Callers ask for, and use, the modes that the mount calls with.
LEMMA CallerStaleInv ==
  ASSUME TypeOK, LockInv, StaleInv, NEW c \in Client, NEW m \in UseMode,
         CallerAction(c, m), LockCall(c, m) => m \in CallModes[c]
  PROVE  StaleInv'
  <1> DEFINE l       == lock[c]
             call    == [l EXCEPT !.have = TRUE, !.waiters[m] = @ + 1]
             acquire == [l EXCEPT !.waiters[m] = @ - 1, !.users[m] = @ + 1]
             giveup  == [l EXCEPT !.waiters[m] = @ - 1]
             unlock  == [l EXCEPT !.users[m] = @ - 1, !.wrote = @ \/ lock_mode_can_write(m)]
             Same(n) == n.mode = l.mode /\ n.inving = l.inving /\ n.invs = l.invs
             Others(n) == \A k \in UseMode \ {m} : n.users[k] = l.users[k] /\ n.waiters[k] = l.waiters[k]
  <1>0. /\ l \in Lock /\ l.users \in [UseMode -> Nat] /\ l.waiters \in [UseMode -> Nat]
    BY Zenon, LockFields
  <1>1. UNCHANGED <<worker, mount, dirty, stale>>
    BY Zenon DEF CallerAction, LockCall, LockAcquire, LockGiveUp, scoutfs_unlock, cacheVars
  <1>2. ModesCalled(c, l)
    BY Zenon, StaleInvParts DEF MountStaleInv
  <1>3. ASSUME NEW n \in Lock, Same(n), Others(n), m \in CallModes[c],
               lock' = [lock EXCEPT ![c] = n] \/ lock' = [lock EXCEPT ![c] = put_lock(n)]
        PROVE  StaleInv'
    <2>1. ModesCalled(c, n)
      BY Zenon, <1>2, <1>3 DEF ModesCalled
    <2> QED
      BY Zenon, <1>1, <1>3, <2>1, LockStaleInv
  <1>4. CASE LockCall(c, m)
    <2>1. lock' = [lock EXCEPT ![c] = call] /\ call \in Lock
      BY Zenon, <1>0, <1>4, CountType DEF LockCall
    <2>2. /\ Same(call) /\ call.users = l.users
          /\ call.waiters = [l.waiters EXCEPT ![m] = @ + 1]
      BY Zenon, <1>0 DEF Lock
    <2> HIDE DEF call
    <2>3. Others(call)
      BY Zenon, <1>0, <2>2
    <2> QED
      BY Zenon, <1>3, <1>4, <2>1, <2>2, <2>3
  <1>5. CASE LockAcquire(c, m)
    <2>1. lock' = [lock EXCEPT ![c] = acquire] /\ acquire \in Lock
      BY Zenon, <1>0, <1>5, CountType DEF LockAcquire
    <2>2. /\ Same(acquire) /\ acquire.users = [l.users EXCEPT ![m] = @ + 1]
          /\ acquire.waiters = [l.waiters EXCEPT ![m] = @ - 1]
      BY Zenon, <1>0 DEF Lock
    <2> HIDE DEF acquire
    <2>3. Others(acquire)
      BY Zenon, <1>0, <2>2
    <2>4. m \in CallModes[c]
      BY Zenon, <1>2, <1>5 DEF LockAcquire, ModesCalled
    <2> QED
      BY Zenon, <1>3, <2>1, <2>2, <2>3, <2>4
  <1>6. CASE LockGiveUp(c, m)
    <2>1. lock' = [lock EXCEPT ![c] = put_lock(giveup)] /\ giveup \in Lock
      BY Zenon, <1>0, <1>6, CountType DEF LockGiveUp
    <2>2. /\ Same(giveup) /\ giveup.users = l.users
          /\ giveup.waiters = [l.waiters EXCEPT ![m] = @ - 1]
      BY Zenon, <1>0 DEF Lock
    <2> HIDE DEF giveup
    <2>3. Others(giveup)
      BY Zenon, <1>0, <2>2
    <2>4. m \in CallModes[c]
      BY Zenon, <1>2, <1>6 DEF LockGiveUp, ModesCalled
    <2> QED
      BY Zenon, <1>3, <2>1, <2>2, <2>3, <2>4
  <1>7. CASE scoutfs_unlock(c, m)
    <2>0. lock_mode_can_write(m) \in BOOLEAN
      BY DEF lock_mode_can_write
    <2>1. unlock \in Lock
      BY Zenon, <1>0, <1>7, <2>0, CountType DEF scoutfs_unlock
    <2>2. lock' = [lock EXCEPT ![c] = put_lock(unlock)]
      BY Zenon, <1>7 DEF scoutfs_unlock
    <2>3. /\ Same(unlock) /\ unlock.users = [l.users EXCEPT ![m] = @ - 1]
          /\ unlock.waiters = l.waiters
      BY Zenon, <1>0 DEF Lock
    <2> HIDE DEF unlock
    <2>4. Others(unlock)
      BY Zenon, <1>0, <2>3
    <2>5. m \in CallModes[c]
      BY Zenon, <1>2, <1>7 DEF scoutfs_unlock, ModesCalled
    <2> QED
      BY Zenon, <1>3, <2>1, <2>2, <2>3, <2>4, <2>5
  <1> QED
    BY Zenon, <1>4, <1>5, <1>6, <1>7 DEF CallerAction

\* Requests, the shrinker and transactions change neither callers nor modes.
LEMMA FlagStaleInv ==
  ASSUME TypeOK, LockInv, StaleInv, NEW c \in Client,
         \/ \E m \in UseMode : LockSend(c, m)
         \/ ShrinkScan(c) \/ ShrinkSend(c) \/ TransCommit(c)
  PROVE  StaleInv'
  <1> DEFINE l    == lock[c]
             send == [l EXCEPT !.pend = TRUE]
             scan == [l EXCEPT !.pend = TRUE, !.shrink = TRUE]
             done == [l EXCEPT !.wrote = FALSE]
             off  == [l EXCEPT !.shrink = FALSE]
             fail == [l EXCEPT !.shrink = FALSE, !.pend = FALSE]
             Same(n) == /\ n.mode = l.mode /\ n.inving = l.inving /\ n.invs = l.invs
                        /\ n.users = l.users /\ n.waiters = l.waiters
  <1>0. l \in Lock
    BY Zenon, LockFields
  <1>1. send \in Lock /\ scan \in Lock /\ done \in Lock /\ off \in Lock /\ fail \in Lock
    BY ZenonT(60), <1>0, UpdateType
  <1>2. Same(send) /\ Same(scan) /\ Same(done) /\ Same(off) /\ Same(fail)
    BY ZenonT(60), <1>0 DEF Lock
  <1>3. /\ UNCHANGED <<worker, mount, stale>>
        /\ dirty' = dirty \/ dirty' = [dirty EXCEPT ![c] = FALSE]
    BY Zenon DEF LockSend, ShrinkScan, ShrinkSend, TransCommit, cacheVars
  <1>4. \/ lock' = [lock EXCEPT ![c] = send] \/ lock' = [lock EXCEPT ![c] = scan]
        \/ lock' = [lock EXCEPT ![c] = done] \/ lock' = [lock EXCEPT ![c] = off]
        \/ lock' = [lock EXCEPT ![c] = put_lock(fail)]
    BY Zenon DEF LockSend, ShrinkScan, ShrinkSend, TransCommit
  <1> HIDE DEF send, scan, done, off, fail
  <1>5. ASSUME NEW n \in Lock, Same(n),
               lock' = [lock EXCEPT ![c] = n] \/ lock' = [lock EXCEPT ![c] = put_lock(n)]
        PROVE  StaleInv'
    <2>1. ModesCalled(c, n)
      BY Zenon, <1>5, StaleInvParts DEF MountStaleInv, ModesCalled
    <2> QED
      BY Zenon, <1>3, <1>5, <2>1, LockStaleInv
  <1> QED
    BY Zenon, <1>1, <1>2, <1>4, <1>5

\* Where another mount has dirty items, a mount can have none but a writer's cache.
LEMMA DirtyExcludes ==
  ASSUME TypeOK, LockInv, CacheInv, StaleInv, NEW c \in Client, IsMounted(c), DirtyElsewhere(c)
  PROVE  CacheMode(c) \in {"null", "wonly"}
  <1>1. PICK d \in Client \ {c} : dirty[d]
    BY Zenon DEF DirtyElsewhere
  <1>2. IsMounted(d)
    BY Zenon, <1>1 DEF StaleInv
  <1>3. Exact(c) /\ Exact(d) /\ Allowed(d)
    BY Zenon, CacheInvParts
  <1>4. lock_mode_can_write(CacheMode(d))
    BY Zenon, <1>1, <1>2, <1>3 DEF Allowed, CacheAllowed
  <1>5. Compatible(CacheMode(c), CacheMode(d))
    BY Zenon, <1>1, <1>2, <1>3, CachesExclude
  <1>6. CacheMode(c) \in Mode
    BY Zenon, LockFields
  <1> QED
    BY Zenon, <1>4, <1>5, <1>6 DEF Compatible, lock_mode_can_write, Mode, NoEntry

\* What a reader has cached is up to date and nobody has changed it.
LEMMA ReaderCoherent ==
  ASSUME TypeOK, LockInv, CacheInv, StaleInv, NEW c \in Client, Reading(c)
  PROVE  IsMounted(c) /\ ~ stale[c] /\ ~ DirtyElsewhere(c)
  <1>1. Exact(c)
    BY Zenon, CacheInvParts
  <1>2. IsMounted(c) /\ lock_mode_can_read(CacheMode(c))
    BY Zenon, <1>1, ReaderMode
  <1>3. CacheMode(c) \notin {"null", "wonly"}
    BY <1>2 DEF lock_mode_can_read
  <1>4. ~ stale[c]
    BY Zenon, <1>2, <1>3 DEF StaleInv
  <1> QED
    BY Zenon, <1>2, <1>3, <1>4, DirtyExcludes

\* Reading fills the cache with items that are up to date.
LEMMA ReadStaleInv ==
  ASSUME TypeOK, LockInv, CacheInv, StaleInv, NEW c \in Client,
         ReadItems(c) \/ InodeRefresh(c) \/ InodeEvict(c)
  PROVE  StaleInv'
  <1>1. UNCHANGED <<lock, worker, mount, dirty>>
    BY Zenon DEF ReadItems, InodeRefresh, InodeEvict, lockVars
  <1>2. stale' = stale \/ (Reading(c) /\ Fill(c))
    BY Zenon DEF ReadItems, InodeRefresh, InodeEvict
  <1>3. stale \in [Client -> BOOLEAN]
    BY Zenon DEF TypeOK, ClientTypeOK
  <1>4. \A d \in Client \ {c} : stale'[d] = stale[d]
    BY Zenon, <1>2, <1>3 DEF Fill
  <1>5. stale'[c] => stale[c]
    BY Zenon, <1>2, <1>3, ReaderCoherent DEF Fill
  <1>6. MountStaleInv(c)
    BY Zenon, StaleInvParts
  <1>7. MountStaleInv(c)'
    BY Zenon, <1>1, <1>5, <1>6
       DEF MountStaleInv, ModesCalled, DirtyAllowed, StaleAllowed, IsMounted, CacheMode
  <1> QED
    BY Zenon, <1>1, <1>4, <1>7, OneStaleInv

\* A writer makes others' items stale only where they cannot read them.
LEMMA WriteStaleInv ==
  ASSUME TypeOK, LockInv, CacheInv, StaleInv, NEW c \in Client, WriteItems(c)
  PROVE  StaleInv'
  <1>1. /\ UNCHANGED <<lock, worker, mount>>
        /\ c \in Touchers /\ Writing(c)
        /\ dirty' = [dirty EXCEPT ![c] = TRUE]
        /\ stale' = [d \in Client |-> IF d # c THEN cached[d]
                                      ELSE IF cached[c] THEN stale[c] ELSE DirtyElsewhere(c)]
    BY Zenon DEF WriteItems, lockVars
  <1>2. \A d \in Client : Exact(d) /\ Allowed(d) /\ MountStaleInv(d)
    BY Zenon, CacheInvParts, StaleInvParts
  <1>3. IsMounted(c) /\ lock_mode_can_write(CacheMode(c))
    BY Zenon, <1>1, <1>2, WriterMode
  <1>4. /\ \A d \in Client \ {c} : dirty'[d] = dirty[d] /\ stale'[d] = cached[d]
        /\ stale'[c] = IF cached[c] THEN stale[c] ELSE DirtyElsewhere(c)
    BY Zenon, <1>1 DEF TypeOK, ClientTypeOK
  <1>5. \A d \in Client : CacheMode(d)' = CacheMode(d) /\ (IsMounted(d)' <=> IsMounted(d))
    BY Zenon, <1>1 DEF CacheMode, IsMounted
  <1>6. ASSUME NEW d \in Client, d # c, IsMounted(d), cached[d] PROVE CacheMode(d) = "wonly"
    <2>1. CacheMode(d) # "null"
      BY Zenon, <1>2, <1>6 DEF Allowed, CacheAllowed
    <2>2. Compatible(CacheMode(c), CacheMode(d)) /\ CacheMode(d) \in Mode
      BY Zenon, <1>2, <1>3, <1>6, CachesExclude, LockFields
    <2> QED
      BY Zenon, <1>3, <2>1, <2>2 DEF Compatible, lock_mode_can_write, Mode, NoEntry
  <1>7. StaleAllowed(c)'
    <2>1. CacheMode(c) # "null"
      BY <1>3 DEF lock_mode_can_write
    <2>2. DirtyElsewhere(c) => CacheMode(c) = "wonly"
      BY Zenon, <1>3, <2>1, DirtyExcludes
    <2> QED
      BY Zenon, <1>2, <1>3, <1>4, <1>5, <2>2 DEF StaleAllowed, MountStaleInv
  <1>8. DirtyAllowed(c)'
    <2>1. \E m \in CallModes[c] : lock_mode_can_write(m)
      BY Zenon, <1>1, <1>2 DEF Writing, MountStaleInv, ModesCalled
    <2> QED
      BY Zenon, <1>1, <1>3, <1>5, <2>1 DEF DirtyAllowed
  <1>9. ASSUME NEW d \in Client PROVE MountStaleInv(d)'
    <2>1. ModesCalled(d, lock'[d])
      BY Zenon, <1>1, <1>2 DEF MountStaleInv
    <2>2. CASE d = c
      BY Zenon, <1>7, <1>8, <2>1, <2>2 DEF MountStaleInv, ModesCalled
    <2>3. CASE d # c
      <3>1. DirtyAllowed(d)'
        BY Zenon, <1>2, <1>4, <1>5, <2>3 DEF MountStaleInv, DirtyAllowed
      <3>2. StaleAllowed(d)'
        BY Zenon, <1>4, <1>5, <1>6, <2>3 DEF StaleAllowed
      <3> QED
        BY Zenon, <2>1, <3>1, <3>2 DEF MountStaleInv, ModesCalled
    <2> QED
      BY Zenon, <2>2, <2>3
  <1> QED
    BY Zenon, <1>9 DEF StaleInv, MountStaleInv, ModesCalled, DirtyAllowed, StaleAllowed

\* A grant finds no items that are out of date: it goes to a mount that has no mode, or
\* that can read.
LEMMA GrantStaleInv ==
  ASSUME TypeOK, LockInv, CacheInv, StaleInv, NEW c \in Client, GrantResponse(c)
  PROVE  StaleInv'
  <1> DEFINE msg == Head(toClient[c])
             refresh == ~ lock_mode_can_read(msg.old) /\ lock_mode_can_read(msg.new)
             new == [lock[c] EXCEPT !.pend = FALSE, !.mode = msg.new, !.gen = @ \/ refresh]
  <1>1. /\ toClient[c] # <<>> /\ msg.cmd = "grant"
        /\ lock' = [lock EXCEPT ![c] = put_lock(new)]
        /\ UNCHANGED <<worker, mount, dirty, stale>>
    BY Zenon DEF GrantResponse
  <1>2. msg.new \in Mode /\ lock[c] \in Lock /\ lock \in [Client -> Lock]
    BY Zenon, <1>1, Received, LockFields
  <1>3. refresh \in BOOLEAN
    BY DEF lock_mode_can_read
  <1>4. new \in Lock /\ new.users = lock[c].users /\ new.waiters = lock[c].waiters
    <2> HIDE DEF refresh, msg
    <2>1. new \in Lock
      BY Zenon, <1>2, <1>3, UpdateType
    <2>2. new.users = lock[c].users /\ new.waiters = lock[c].waiters
      BY Zenon, <1>2 DEF Lock
    <2> QED
      BY Zenon, <2>1, <2>2
  <1> HIDE DEF new
  <1>5. /\ lock'[c] = put_lock(new)
        /\ \A d \in Client \ {c} : lock'[d] = lock[d]
    BY Zenon, <1>1, <1>2
  <1>6. MountStaleInv(c) /\ Exact(c)
    BY Zenon, StaleInvParts, CacheInvParts
  <1>7. ModesCalled(c, lock'[c])
    BY Zenon, <1>4, <1>5, <1>6, PutLockCalled DEF MountStaleInv, ModesCalled
  <1>8. IsMounted(c) => ~ stale[c]
    <2> SUFFICES ASSUME IsMounted(c) PROVE CacheMode(c) # "wonly"
      BY Zenon, <1>6 DEF MountStaleInv, StaleAllowed
    <2>1. Raises(msg, lock[c].mode) /\ CacheMode(c) = lock[c].mode
      BY Zenon, <1>1, <1>6, GrantKnown
    <2> QED
      BY <2>1 DEF Raises
  <1>9. MountStaleInv(c)'
    BY Zenon, <1>1, <1>6, <1>7, <1>8
       DEF MountStaleInv, ModesCalled, DirtyAllowed, StaleAllowed, IsMounted
  <1> QED
    BY Zenon, <1>1, <1>5, <1>9, OneStaleInv

\* An invalidation drops what is out of date before it takes the writer's mode away.
LEMMA InvalidateStaleInv ==
  ASSUME TypeOK, LockInv, CacheInv, StaleInv, NEW c \in Client,
         InvalidateRequest(c) \/ InvalidateStart(c) \/ InvalidateRespond(c) \/ InvalidateFinish(c)
  PROVE  StaleInv'
  <1> DEFINE start  == [lock[c] EXCEPT !.inving = lock[c].mode, !.mode = Head(lock[c].invs).new]
             finish == [lock[c] EXCEPT !.inving = "null", !.invs = Tail(lock[c].invs)]
  <1>1. MountStaleInv(c) /\ Exact(c) /\ lock[c] \in Lock /\ lock \in [Client -> Lock]
    BY Zenon, StaleInvParts, CacheInvParts, LockFields
  <1>2. ASSUME lock'[c].users = lock[c].users, lock'[c].waiters = lock[c].waiters,
               \A d \in Client \ {c} : lock'[d] = lock[d] /\ worker'[d] = worker[d] /\ stale'[d] = stale[d],
               UNCHANGED <<mount, dirty>>, StaleAllowed(c)'
        PROVE  StaleInv'
    <2>1. MountStaleInv(c)'
      BY Zenon, <1>1, <1>2 DEF MountStaleInv, ModesCalled, DirtyAllowed, IsMounted
    <2> QED
      BY Zenon, <1>2, <2>1, OneStaleInv
  <1>3. CASE InvalidateRequest(c)
    <2> DEFINE msg == Head(toClient[c])
               inv == [old |-> msg.old, new |-> msg.new, live |-> msg.live]
               got == [lock[c] EXCEPT !.invs = Append(@, inv)]
    <2>1. /\ lock' = lock \/ lock' = [lock EXCEPT ![c] = got]
          /\ UNCHANGED <<worker, mount, dirty, stale>>
      BY Zenon, <1>3 DEF InvalidateRequest, cacheVars
    <2>2. /\ got.users = lock[c].users /\ got.waiters = lock[c].waiters
          /\ got.mode = lock[c].mode /\ got.inving = lock[c].inving
      BY Zenon, <1>1 DEF Lock
    <2> HIDE DEF got
    <2>3. /\ lock'[c] = lock[c] \/ lock'[c] = got
          /\ \A d \in Client \ {c} : lock'[d] = lock[d]
      BY Zenon, <1>1, <2>1
    <2>4. StaleAllowed(c)'
      BY Zenon, <1>1, <2>1, <2>2, <2>3 DEF MountStaleInv, StaleAllowed, IsMounted, CacheMode
    <2> QED
      BY Zenon, <1>2, <2>1, <2>2, <2>3, <2>4
  <1>4. CASE InvalidateStart(c)
    <2>1. /\ worker[c] = "idle"
          /\ lock' = [lock EXCEPT ![c] = start]
          /\ worker' = [worker EXCEPT ![c] = "invalidate"]
          /\ UNCHANGED <<mount, dirty, stale>>
      BY Zenon, <1>4 DEF InvalidateStart, cacheVars
    <2>2. /\ start.users = lock[c].users /\ start.waiters = lock[c].waiters
          /\ start.inving = lock[c].mode
      BY Zenon, <1>1 DEF Lock
    <2> HIDE DEF start
    <2>3. /\ lock'[c] = start /\ worker'[c] = "invalidate"
          /\ \A d \in Client \ {c} : lock'[d] = lock[d] /\ worker'[d] = worker[d]
      BY Zenon, <1>1, <2>1 DEF TypeOK, ClientTypeOK
    <2>4. CacheMode(c)' = CacheMode(c)
      BY Zenon, <2>1, <2>2, <2>3 DEF CacheMode
    <2>5. StaleAllowed(c)'
      BY Zenon, <1>1, <2>1, <2>4 DEF MountStaleInv, StaleAllowed, IsMounted
    <2> QED
      BY Zenon, <1>2, <2>1, <2>2, <2>3, <2>5
  <1>5. CASE InvalidateRespond(c)
    <2> DEFINE inv  == Head(lock[c].invs)
               drop == mount[c] = "mounted" /\ ~ KeepsCache(inv)
    <2>1. /\ worker[c] = "invalidate"
          /\ stale' = [stale EXCEPT ![c] = @ /\ ~ drop]
          /\ worker' = [worker EXCEPT ![c] = "finish"]
          /\ UNCHANGED <<lock, mount, dirty>>
      BY Zenon, <1>5 DEF InvalidateRespond
    <2>2. /\ stale'[c] = (stale[c] /\ ~ drop)
          /\ \A d \in Client \ {c} : stale'[d] = stale[d] /\ worker'[d] = worker[d]
      BY Zenon, <2>1 DEF TypeOK, ClientTypeOK
    <2>3. ASSUME IsMounted(c), stale'[c] PROVE FALSE
      <3>1. lock[c].invs # <<>> /\ worker[c] # "finish"
        BY <2>1 DEF LockInv, WorkerBusy
      <3>2. Lowers(inv, CacheMode(c))
        BY Zenon, <1>1, <2>3, <3>1, WorkKnown
      <3>3. CacheMode(c) = "wonly" /\ KeepsCache(inv)
        BY Zenon, <1>1, <2>2, <2>3 DEF MountStaleInv, StaleAllowed, IsMounted
      <3> QED
        BY Zenon, <3>2, <3>3 DEF Lowers, KeepsCache
    <2>4. StaleAllowed(c)'
      BY Zenon, <2>1, <2>3 DEF StaleAllowed, IsMounted
    <2> QED
      BY Zenon, <1>2, <2>1, <2>2, <2>4
  <1>6. CASE InvalidateFinish(c)
    <2>1. /\ worker[c] = "finish"
          /\ lock' = [lock EXCEPT ![c] = put_lock(finish)]
          /\ worker' = [worker EXCEPT ![c] = "idle"]
          /\ UNCHANGED <<mount, dirty, stale>>
      BY Zenon, <1>6 DEF InvalidateFinish, cacheVars
    <2>2. lock[c].invs # <<>> /\ lock[c].invs \in Seq(Inval)
      BY Zenon, <2>1, LockFields DEF LockInv, WorkerBusy
    <2>3. Tail(lock[c].invs) \in Seq(Inval)
      BY <2>2
    <2>4. finish \in Lock
      BY Zenon, <1>1, <2>3, UpdateType
    <2>5. /\ finish.users = lock[c].users /\ finish.waiters = lock[c].waiters
          /\ finish.mode = lock[c].mode
      BY Zenon, <1>1 DEF Lock
    <2> HIDE DEF finish
    <2>6. /\ lock'[c] = put_lock(finish) /\ worker'[c] = "idle"
          /\ \A d \in Client \ {c} : lock'[d] = lock[d] /\ worker'[d] = worker[d]
      BY Zenon, <1>1, <2>1 DEF TypeOK, ClientTypeOK
    <2>7. ModesCalled(c, finish)
      BY Zenon, <1>1, <2>5 DEF MountStaleInv, ModesCalled
    <2>8. ModesCalled(c, lock'[c]) /\ lock'[c].mode = lock[c].mode
      BY Zenon, <2>4, <2>5, <2>6, <2>7, PutLockCalled
    <2>9. CacheMode(c)' = CacheMode(c)
      BY Zenon, <2>1, <2>6, <2>8 DEF CacheMode
    <2>10. MountStaleInv(c)'
      BY Zenon, <1>1, <2>1, <2>8, <2>9
         DEF MountStaleInv, ModesCalled, DirtyAllowed, StaleAllowed, IsMounted
    <2> QED
      BY Zenon, <2>1, <2>6, <2>10, OneStaleInv
  <1> QED
    BY Zenon, <1>3, <1>4, <1>5, <1>6

\* A mount that begins to unmount has nothing dirty, and one that ended has nothing.
LEMMA LeaveStaleInv ==
  ASSUME CleanLeavers \/ CleanShutdown, TypeOK, StaleInv, NEW c \in Client, LeaveStep(c)
  PROVE  StaleInv'
  <1>1. /\ lock \in [Client -> Lock]
        /\ mount \in [Client -> {"mounted", "shutdown", "farewell", "reclaimed", "gone", "fenced"}]
        /\ worker \in [Client -> {"idle", "invalidate", "finish"}]
        /\ dirty \in [Client -> BOOLEAN]
        /\ stale \in [Client -> BOOLEAN]
    BY Zenon DEF TypeOK, ClientTypeOK
  <1>2. MountStaleInv(c)
    BY Zenon, StaleInvParts
  <1>3. ASSUME ~ IsMounted(c)', ~ dirty'[c], ModesCalled(c, lock'[c]),
               \A d \in Client \ {c} : /\ lock'[d] = lock[d]
                                       /\ worker'[d] = worker[d]
                                       /\ mount'[d] = mount[d]
                                       /\ dirty'[d] = dirty[d]
                                       /\ stale'[d] = stale[d]
        PROVE  StaleInv'
    <2>1. MountStaleInv(c)'
      BY Zenon, <1>3 DEF MountStaleInv, ModesCalled, DirtyAllowed, StaleAllowed
    <2> QED
      BY Zenon, <1>3, <2>1, OneStaleInv
  <1>4. CASE LockShutdown(c)
    <2>1. /\ c \in Leavers /\ mount[c] = "mounted" /\ mount' = [mount EXCEPT ![c] = "shutdown"]
          /\ UNCHANGED <<lock, worker, dirty, stale>>
      BY Zenon, <1>4 DEF LockShutdown, cacheVars
    <2>3. mount'[c] = "shutdown" /\ \A d \in Client \ {c} : mount'[d] = mount[d]
      BY Zenon, <1>1, <2>1
    <2>2. ~ dirty[c]
      BY Zenon, <1>2, <2>1, <2>3 DEF CleanLeavers, CleanShutdown, MountStaleInv, DirtyAllowed
    <2>4. ~ IsMounted(c)'
      BY <2>3 DEF IsMounted
    <2> QED
      BY Zenon, <1>2, <1>3, <2>1, <2>2, <2>3, <2>4 DEF MountStaleInv
  <1>5. CASE ShutdownTrans(c)
    <2> DEFINE new == [lock[c] EXCEPT !.wrote = FALSE]
    <2>1. /\ mount' = [mount EXCEPT ![c] = "farewell"]
          /\ dirty' = [dirty EXCEPT ![c] = FALSE]
          /\ lock' = [lock EXCEPT ![c] = new]
          /\ UNCHANGED <<worker, stale>>
      BY Zenon, <1>5 DEF ShutdownTrans
    <2>2. new.users = lock[c].users /\ new.waiters = lock[c].waiters
      BY ZenonT(60), <1>1 DEF Lock
    <2> HIDE DEF new
    <2>3. /\ mount'[c] = "farewell" /\ dirty'[c] = FALSE /\ lock'[c] = new
          /\ \A d \in Client \ {c} : mount'[d] = mount[d] /\ dirty'[d] = dirty[d] /\ lock'[d] = lock[d]
      BY Zenon, <1>1, <2>1
    <2>4. ~ IsMounted(c)'
      BY <2>3 DEF IsMounted
    <2>5. ModesCalled(c, lock'[c])
      BY Zenon, <1>2, <2>2, <2>3 DEF MountStaleInv, ModesCalled
    <2> QED
      BY Zenon, <1>3, <2>1, <2>3, <2>4, <2>5
  <1>6. ASSUME NEW how \in {"gone", "fenced"}, Vanish(c, how) PROVE StaleInv'
    <2>1. /\ mount'[c] = how /\ dirty'[c] = FALSE /\ lock'[c] = NoLock
          /\ \A d \in Client \ {c} : /\ lock'[d] = lock[d]
                                     /\ worker'[d] = worker[d]
                                     /\ mount'[d] = mount[d]
                                     /\ dirty'[d] = dirty[d]
                                     /\ stale'[d] = stale[d]
      BY Zenon, <1>1, <1>6 DEF Vanish
    <2>2. ~ IsMounted(c)'
      BY <2>1 DEF IsMounted
    <2>3. ModesCalled(c, NoLock)
      <3>1. NoLock.users = Nobody /\ NoLock.waiters = Nobody /\ \A m \in UseMode : ~ (Nobody[m] > 0)
        BY DEF NoLock, Nobody
      <3> QED
        BY Zenon, <3>1 DEF ModesCalled
    <2> QED
      BY Zenon, <1>3, <2>1, <2>2, <2>3
  <1>7. CASE LoseClient(c)
    <2>1. UNCHANGED <<lock, worker, mount, dirty, stale>>
      BY Zenon, <1>7 DEF LoseClient, lockVars, cacheVars
    <2>2. MountStaleInv(c)'
      BY Zenon, <1>2, <2>1, StaleFrame
    <2> QED
      BY Zenon, <2>1, <2>2, OneStaleInv
  <1> QED
    BY Zenon, <1>4, <1>5, <1>6, <1>7 DEF LeaveStep, FarewellResponse, FenceClient

\* Every step of the lock server and of the mounts keeps the invariant.
LEMMA StaleStep ==
  ASSUME CleanLeavers \/ CleanShutdown, TypeOK, LockInv, CacheInv, StaleInv, [Next]_vars
  PROVE  StaleInv'
  <1>1. ASSUME UNCHANGED <<lock, worker, dirty, stale>>, NEW c \in Client,
               \A d \in Client \ {c} : mount'[d] = mount[d],
               mount'[c] = mount[c] \/ ~ (IsMounted(c) \/ IsMounted(c)')
        PROVE  StaleInv'
    <2>1. MountStaleInv(c)
      BY Zenon, StaleInvParts
    <2>2. MountStaleInv(c)'
      BY Zenon, <1>1, <2>1
         DEF MountStaleInv, ModesCalled, DirtyAllowed, StaleAllowed, IsMounted, CacheMode
    <2> QED
      BY Zenon, <1>1, <2>2, OneStaleInv
  <1>2. ASSUME UNCHANGED clientVars PROVE StaleInv'
    <2>1. UNCHANGED <<lock, worker, mount, dirty, stale>>
      BY Zenon, <1>2 DEF clientVars, lockVars, cacheVars
    <2>2. \A d \in Client : MountStaleInv(d)'
      BY Zenon, <2>1, StaleInvParts, StaleFrame
    <2> QED
      BY Zenon, <2>2 DEF StaleInv, MountStaleInv, ModesCalled, DirtyAllowed, StaleAllowed
  <1>3. ASSUME NEW c \in Client, CallerStep(c) PROVE StaleInv'
    <2>1. CASE ReadItems(c) \/ WriteItems(c) \/ InodeRefresh(c) \/ InodeEvict(c)
      BY Zenon, <2>1, ReadStaleInv, WriteStaleInv
    <2>2. CASE \E m \in CallModes[c] : LockCall(c, m)
      <3>1. PICK m \in UseMode : m \in CallModes[c] /\ LockCall(c, m)
        BY Zenon, <2>2, CallModesAssumption
      <3> QED
        BY Zenon, <3>1, CallerStaleInv DEF CallerAction
    <2>3. ASSUME NEW m \in UseMode, LockAcquire(c, m) \/ LockGiveUp(c, m) \/ scoutfs_unlock(c, m)
          PROVE  StaleInv'
      <3>1. ModesCalled(c, lock[c])
        BY Zenon, StaleInvParts DEF MountStaleInv
      <3>2. m \in CallModes[c]
        BY Zenon, <2>3, <3>1 DEF LockAcquire, LockGiveUp, scoutfs_unlock, ModesCalled
      <3> QED
        BY Zenon, <2>3, <3>2, CallerStaleInv DEF CallerAction
    <2>4. CASE \E m \in UseMode : LockSend(c, m)
      BY Zenon, <2>4, FlagStaleInv
    <2> QED
      BY Zenon, <1>3, <2>1, <2>2, <2>3, <2>4 DEF CallerStep
  <1>4. ASSUME NEW c \in Client, BackgroundStep(c) PROVE StaleInv'
    BY Zenon, <1>4, GrantStaleInv, InvalidateStaleInv, FlagStaleInv DEF BackgroundStep
  <1>5. ASSUME NEW c \in Client, ReclaimFarewell(c) PROVE StaleInv'
    <2>1. /\ UNCHANGED <<lock, worker, dirty, stale>>
          /\ mount[c] = "farewell" /\ mount' = [mount EXCEPT ![c] = "reclaimed"]
      BY Zenon, <1>5 DEF ReclaimFarewell, cacheVars
    <2>2. /\ \A d \in Client \ {c} : mount'[d] = mount[d]
          /\ mount'[c] = "reclaimed"
      BY Zenon, <2>1 DEF TypeOK, ClientTypeOK
    <2>3. ~ IsMounted(c) /\ ~ IsMounted(c)'
      BY Zenon, <2>1, <2>2 DEF IsMounted
    <2> QED
      BY Zenon, <1>1, <2>1, <2>2, <2>3
  <1>6. CASE UNCHANGED vars
    BY Zenon, <1>2, <1>6 DEF vars
  <1> QED
    BY Zenon, <1>2, <1>3, <1>4, <1>5, <1>6, LeaveStaleInv DEF Next, ReclaimFenced

\* At first nothing is cached, dirty or called.
LEMMA StaleInit == Init => StaleInv
  <1> SUFFICES ASSUME Init, NEW c \in Client
               PROVE  /\ ~ dirty[c] /\ ~ stale[c]
                      /\ \A m \in UseMode : ~ (lock[c].users[m] > 0 \/ lock[c].waiters[m] > 0)
    BY Zenon DEF StaleInv
  <1>1. lock[c] = NoLock /\ dirty[c] = FALSE /\ stale[c] = FALSE
    BY Zenon DEF Init, ClientInit
  <1>2. NoLock.users = Nobody /\ NoLock.waiters = Nobody /\ \A m \in UseMode : ~ (Nobody[m] > 0)
    BY DEF NoLock, Nobody
  <1> QED
    BY Zenon, <1>1, <1>2

\* "On success the caller can use the given mode to interact with the item cache"
\* (lock.c): a mount that may read never sees items that another mount has changed since
\* it cached them, and no other mount has changes that are not yet written, provided
\* that a mount that calls scoutfs_lock_shutdown() has written what it changed.
THEOREM ItemsCoherent == Spec /\ [][CleanShutdown]_vars => []Coherence
  <1>1. TypeOK /\ LockInv /\ CacheInv /\ StaleInv /\ [Next]_vars /\ [CleanShutdown]_vars => StaleInv'
    <2> SUFFICES ASSUME TypeOK, LockInv, CacheInv, StaleInv, [Next]_vars, [CleanShutdown]_vars
                 PROVE  StaleInv'
      OBVIOUS
    <2>1. CASE CleanShutdown
      BY Zenon, <2>1, StaleStep
    <2>2. CASE UNCHANGED vars
      <3>1. mount' = mount
        BY Zenon, <2>2 DEF vars, clientVars, lockVars
      <3>2. CleanShutdown
        BY <3>1 DEF CleanShutdown
      <3> QED
        BY Zenon, <3>2, StaleStep
    <2> QED
      BY Zenon, <2>1, <2>2
  <1>2. TypeOK /\ LockInv /\ CacheInv /\ StaleInv => Coherence
    BY Zenon, ReaderCoherent DEF Coherence
  <1> QED
    BY <1>1, <1>2, StaleInit, TypeCorrect, LockInvariant, CacheInvariant, PTL DEF Spec

\* The same when the mounts that unmount only read, and so have nothing to write.
THEOREM ReadersLeaveCoherent ==
  ASSUME CleanLeavers
  PROVE  Spec => []Coherence
  <1>1. TypeOK /\ LockInv /\ CacheInv /\ StaleInv /\ [Next]_vars => StaleInv'
    BY Zenon, StaleStep
  <1>2. TypeOK /\ LockInv /\ CacheInv /\ StaleInv => Coherence
    BY Zenon, ReaderCoherent DEF Coherence
  <1> QED
    BY <1>1, <1>2, StaleInit, TypeCorrect, LockInvariant, CacheInvariant, PTL DEF Spec

=============================================================================
