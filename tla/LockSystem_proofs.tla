------------------------- MODULE LockSystem_proofs -------------------------
(***************************************************************************)
(* The steps of the lock server keep LockInv and, with the steps of the    *)
(* mounts in LockClient_proofs, the proof that the lock server enforces    *)
(* mode exclusion for any number of mounts and callers, and that it        *)
(* implements ExclusiveModes.                                              *)
(***************************************************************************)
EXTENDS LockClient_proofs

-----------------------------------------------------------------------------
(* Steps that leave a client alone but for the queue of requests           *)

\* Nothing that the invariant of c looks at changes but the queue, which keeps
\* the request of c and does not take the head position from it.
QueueFrame(c) ==
    /\ lock'[c] = lock[c]
    /\ worker'[c] = worker[c]
    /\ mount'[c] = mount[c]
    /\ toClient'[c] = toClient[c]
    /\ link'[c] = link[c]
    /\ \A msg \in ServerMsg : msg.rid = c => (msg \in toServer' <=> msg \in toServer)
    /\ granted'[c] = granted[c]
    /\ invalidated'[c] = invalidated[c]
    /\ RequestQueued(c)' <=> RequestQueued(c)
    /\ (\A i, j \in 1..Len(requested) : requested[i].rid = c /\ requested[j].rid = c => i = j)
          => (\A i, j \in 1..Len(requested') :
                 requested'[i].rid = c /\ requested'[j].rid = c => i = j)
    /\ Dropped(c) => Dropped(c)'

\* A client that only sees the queue change keeps its invariant.
LEMMA QueueLocal ==
  ASSUME TypeOK, TypeOK', NEW c \in Client, LocalInv(c), QueueFrame(c)
  PROVE  LocalInv(c)'
  <1>1. toServer \subseteq ServerMsg /\ toServer' \subseteq ServerMsg
    BY Zenon DEF TypeOK, NetTypeOK
  <1>2. /\ RequestSent(c)' <=> RequestSent(c)
        /\ GrantSent(c)' <=> GrantSent(c)
        /\ InvalSent(c)' <=> InvalSent(c)
        /\ FirstInval(c)' = FirstInval(c)
        /\ InvalQueued(c)' <=> InvalQueued(c)
        /\ InvalAnswered(c)' <=> InvalAnswered(c)
        /\ Record(c)' = Record(c)
        /\ IsMounted(c)' <=> IsMounted(c)
    BY Zenon, <1>1 DEF QueueFrame, RequestSent, GrantSent, InvalSent, FirstInval, InvalQueued,
                InvalAnswered, Record, IsMounted
  <1>3. lock_counts_match(lock[c].mode, lock[c].users)' /\ NoLateCallers(c)'
    BY Zenon, <1>2 DEF QueueFrame, LocalInv, NoLateCallers
  <1>4. ASSUME IsMounted(c) PROVE MountedInv(c)'
    <2> USE <1>4 DEF LocalInv, MountedInv, QueueFrame
    <2>1. LockKept(c)'
      BY Zenon DEF LockKept
    <2>2. OneRequest(c)'
      BY Zenon, <1>1, <1>2 DEF OneRequest
    <2>3. OneInvalidation(c)'
      BY Zenon, <1>1, <1>2 DEF OneInvalidation
    <2>4. GrantThenInval(c)' /\ OneList(c)'
      BY Zenon DEF GrantThenInval, OneList
    <2>5. InvalidationsCovered(c)'
      BY Zenon, <1>1, <1>2 DEF InvalidationsCovered
    <2>6. GrantsCovered(c)'
      BY Zenon, <1>2 DEF GrantsCovered
    <2>7. ModesCovered(c)'
      BY Zenon, <1>2 DEF ModesCovered
    <2> QED
      BY Zenon, <2>1, <2>2, <2>3, <2>4, <2>5, <2>6, <2>7
  <1> QED
    BY Zenon, <1>2, <1>3, <1>4 DEF LocalInv

\* A step that leaves the mounts alone and raises nothing the server knows keeps
\* the invariant when it keeps that of every client.
LEMMA ServerStepInv ==
  ASSUME TypeOK, TypeOK', LockInv, WorkerBusy', UNCHANGED lock,
         \A c \in Client : LocalInv(c)',
         \A c \in Client : IsMounted(c)' => IsMounted(c) /\ Covers(Record(c), Record(c)')
  PROVE  LockInv'
  <1>1. \A c \in Client : Covers(lock[c].mode, lock'[c].mode)
    BY Zenon DEF Covers
  <1>2. Exclusion'
    BY Zenon, <1>1, LowerExclusion, LockInvParts
  <1>3. LockInv' <=> WorkerBusy' /\ Exclusion' /\ \A d \in Client : LocalInv(d)'
    BY Zenon DEF LockInv, Exclusion, LocalInv, UsersCovered
  <1> QED
    BY Zenon, <1>2, <1>3

\* Nothing of the locks, the lists and the messages changes.
LEMMA QuietInv ==
  ASSUME TypeOK, TypeOK', LockInv, WorkerBusy',
         UNCHANGED <<lockVars, netVars, granted, requested, invalidated>>
  PROVE  LockInv'
  <1>1. \A c \in Client : Frame(c)
    BY Zenon DEF Frame, lockVars, netVars
  <1>2. \A c \in Client : LocalInv(c)'
    BY Zenon, <1>1, FrameLocal, LockInvParts
  <1>3. \A c \in Client : IsMounted(c)' => IsMounted(c) /\ Covers(Record(c), Record(c)')
    BY Zenon DEF IsMounted, Record, Covers, lockVars
  <1> QED
    BY Zenon, <1>2, <1>3, ServerStepInv DEF lockVars

-----------------------------------------------------------------------------
(* Messages from clients                                                   *)

\* Appending the request of one client leaves the requests of others in place.
LEMMA AppendQueue ==
  ASSUME TypeOK, NEW c \in Client, NEW m \in Mode,
         requested' = Append(requested, [rid |-> c, mode |-> m])
  PROVE  /\ RequestQueued(c)'
         /\ \A d \in Client \ {c} : /\ RequestQueued(d)' <=> RequestQueued(d)
         /\ \A d \in Client :
               (/\ d # c \/ ~ RequestQueued(d)
                /\ \A i, j \in 1..Len(requested) :
                      requested[i].rid = d /\ requested[j].rid = d => i = j)
               => (\A i, j \in 1..Len(requested') :
                      requested'[i].rid = d /\ requested'[j].rid = d => i = j)
         /\ requested # <<>> => requested' # <<>> /\ Head(requested') = Head(requested)
  <1> DEFINE req == [rid |-> c, mode |-> m]
  <1>1. requested \in Seq(Waiting) /\ req \in Waiting
    BY Zenon DEF TypeOK, ServerTypeOK, Waiting
  <1>2. /\ Len(requested) \in Nat
        /\ Len(requested') = Len(requested) + 1
        /\ \A i \in 1..Len(requested) : requested'[i] = requested[i]
        /\ requested'[Len(requested) + 1] = req
        /\ requested' \in Seq(Waiting) /\ requested' # <<>>
    BY <1>1, AppendProperties
  <1>3. req.rid = c
    BY Zenon
  <1> HIDE DEF req
  <1>4. \A i \in 1..Len(requested') : i \in 1..Len(requested) \/ i = Len(requested) + 1
    BY <1>2
  <1>5. \A i \in 1..Len(requested) : i \in 1..Len(requested')
    BY <1>2
  <1>6. RequestQueued(c)'
    <2>1. Len(requested) + 1 \in 1..Len(requested')
      BY <1>2
    <2> QED
      BY Zenon, <1>2, <1>3, <2>1 DEF RequestQueued
  <1>7. \A d \in Client \ {c} : RequestQueued(d)' <=> RequestQueued(d)
    BY Zenon, <1>2, <1>3, <1>4, <1>5 DEF RequestQueued
  <1>8. ASSUME NEW d \in Client, d # c \/ ~ RequestQueued(d),
               \A i, j \in 1..Len(requested) :
                  requested[i].rid = d /\ requested[j].rid = d => i = j,
               NEW i \in 1..Len(requested'), NEW j \in 1..Len(requested'),
               requested'[i].rid = d, requested'[j].rid = d
        PROVE  i = j
    BY Zenon, <1>2, <1>3, <1>4, <1>8 DEF RequestQueued
  <1>9. requested # <<>> => requested' # <<>> /\ Head(requested') = Head(requested)
    <2> SUFFICES ASSUME requested # <<>> PROVE Head(requested') = Head(requested)
      BY Zenon, <1>2
    <2>1. 1 \in 1..Len(requested) /\ Head(requested) = requested[1] /\ Head(requested') = requested'[1]
      BY <1>1, <1>2, HeadTailProperties
    <2> QED
      BY Zenon, <1>2, <2>1
  <1> QED
    BY <1>6, <1>7, <1>8, <1>9

\* scoutfs_lock_server_request() moves a request from the wire to the queue.
LEMMA ServerRequestInv ==
  ASSUME TypeOK, TypeOK', LockInv, WorkerBusy', NEW c \in Client,
         ServerRequest(c), UNCHANGED clientVars
  PROVE  LockInv'
  <1>1. PICK msg \in toServer : /\ msg.cmd = "request"
                                /\ msg.rid = c
                                /\ toServer' = toServer \ {msg}
                                /\ requested' = Append(requested, [rid |-> c, mode |-> msg.mode])
    BY Zenon DEF ServerRequest
  <1>2. /\ UNCHANGED <<lock, worker, mount, toClient, link, granted, invalidated>>
        /\ link[c] = "up"
    BY Zenon DEF ServerRequest, clientVars, lockVars
  <1>3. msg.mode \in Mode /\ toServer \subseteq ServerMsg
    BY Zenon DEF TypeOK, NetTypeOK, ServerMsg
  <1>4. \A d \in Client : /\ LocalInv(d)
                          /\ Record(d)' = Record(d)
                          /\ IsMounted(d)' <=> IsMounted(d)
                          /\ Dropped(d) => Dropped(d)'
    BY Zenon, <1>1, <1>2, <1>3, AppendQueue, LockInvParts DEF Record, IsMounted, Dropped
  <1>5. ASSUME NEW d \in Client, d # c PROVE LocalInv(d)'
    <2>1. QueueFrame(d)
      BY ZenonT(60), <1>1, <1>2, <1>3, <1>4, <1>5, AppendQueue DEF QueueFrame
    <2> QED
      BY Zenon, <1>4, <2>1, QueueLocal
  <1>6. LocalInv(c)'
    <2>1. CASE ~ IsMounted(c)
      BY Zenon, <1>2, <1>4, <2>1 DEF LocalInv, NoLateCallers
    <2>2. CASE IsMounted(c)
      <3> USE DEF MountedInv
      <3>1. MountedInv(c)
        BY Zenon, <1>4, <2>2 DEF LocalInv
      <3>2. RequestSent(c)
        BY Zenon, <1>1 DEF RequestSent
      <3>3. ~ RequestQueued(c) /\ ~ GrantSent(c) /\ ~ lock[c].shrink /\ lock[c].pend
        BY Zenon, <3>1, <3>2 DEF OneRequest
      <3>4. ~ RequestSent(c)'
        BY Zenon, <1>1, <3>1 DEF RequestSent, OneRequest
      <3>5. RequestQueued(c)'
        BY Zenon, <1>1, <1>3, AppendQueue
      <3>6. /\ \A n \in toServer : n.cmd = "response" => n \in toServer'
            /\ \A n \in toServer' : n \in toServer
        BY Zenon, <1>1
      <3>7. /\ GrantSent(c)' <=> GrantSent(c)
            /\ InvalSent(c)' <=> InvalSent(c)
            /\ FirstInval(c)' = FirstInval(c)
            /\ InvalQueued(c)' <=> InvalQueued(c)
            /\ InvalAnswered(c)' <=> InvalAnswered(c)
        BY Zenon, <1>2, <3>6 DEF GrantSent, InvalSent, FirstInval, InvalQueued, InvalAnswered
      <3>8. LockKept(c)' /\ GrantThenInval(c)' /\ OneList(c)'
        BY Zenon, <1>2, <3>1 DEF LockKept, GrantThenInval, OneList
      <3>9. OneRequest(c)'
        <4>1. \A i, j \in 1..Len(requested') :
                 requested'[i].rid = c /\ requested'[j].rid = c => i = j
          BY SMT, <1>1, <1>3, <3>1, <3>3, AppendQueue DEF OneRequest
        <4>2. \A m, n \in toServer' :
                 m.cmd = "request" /\ m.rid = c /\ n.cmd = "request" /\ n.rid = c => m = n
          BY Zenon, <3>1, <3>6 DEF OneRequest
        <4> QED
          BY Zenon, <1>2, <3>3, <3>4, <3>5, <3>7, <4>1, <4>2 DEF OneRequest
      <3>10. OneInvalidation(c)'
        BY Zenon, <1>2, <3>1, <3>6, <3>7 DEF OneInvalidation
      <3>11. InvalidationsCovered(c)'
        BY Zenon, <1>2, <3>1, <3>6, <3>7 DEF InvalidationsCovered
      <3>12. GrantsCovered(c)' /\ ModesCovered(c)'
        BY Zenon, <1>2, <1>4, <3>1, <3>7 DEF GrantsCovered, ModesCovered
      <3>13. MountedInv(c)'
        BY Zenon, <3>8, <3>9, <3>10, <3>11, <3>12
      <3> QED
        BY Zenon, <1>2, <1>4, <3>13 DEF LocalInv, NoLateCallers
    <2> QED
      BY Zenon, <2>1, <2>2
  <1>7. \A d \in Client : LocalInv(d)'
    BY Zenon, <1>5, <1>6
  <1>8. \A d \in Client : IsMounted(d)' => IsMounted(d) /\ Covers(Record(d), Record(d)')
    BY Zenon, <1>4 DEF Covers
  <1> QED
    BY Zenon, <1>2, <1>7, <1>8, ServerStepInv

\* The one response of a mount is accepted, and covers the mode of its lock.
LEMMA ResponseKnown ==
  ASSUME TypeOK, LockInv, NEW c \in Client, IsMounted(c), NEW msg \in toServer,
         msg.cmd = "response", msg.rid = c
  PROVE  /\ ResponseAccepted(msg)
         /\ Covers(invalidated[c], msg.mode) /\ Covers(msg.mode, lock[c].mode)
         /\ Record(c) = invalidated[c] /\ granted[c] = NoEntry
         /\ ~ InvalSent(c) /\ ~ InvalQueued(c) /\ ~ GrantSent(c)
  <1> USE DEF MountedInv
  <1>1. MountedInv(c)
    BY Zenon, LockInvParts DEF LocalInv
  <1>2. InvalAnswered(c)
    BY Zenon DEF InvalAnswered
  <1>3. /\ msg.live /\ Covers(invalidated[c], msg.mode) /\ Covers(msg.mode, lock[c].mode)
    BY Zenon, <1>1 DEF InvalidationsCovered
  <1>4. invalidated[c] # NoEntry /\ ~ InvalSent(c) /\ ~ InvalQueued(c)
    BY Zenon, <1>1, <1>2 DEF OneInvalidation
  <1>5. ~ GrantSent(c)
    BY Zenon, <1>1, <1>2 DEF GrantsCovered, GrantSent
  <1>6. granted[c] = NoEntry /\ Record(c) = invalidated[c]
    BY Zenon, <1>1, <1>4 DEF OneList, Record
  <1> QED
    BY Zenon, <1>3, <1>4, <1>5, <1>6 DEF ResponseAccepted

\* scoutfs_lock_server_response() brings the record of a client down to what its
\* lock was brought down to.
LEMMA ServerResponseInv ==
  ASSUME TypeOK, TypeOK', LockInv, WorkerBusy', NEW c \in Client,
         ServerResponse(c), UNCHANGED clientVars
  PROVE  LockInv'
  <1>1. PICK msg \in toServer :
           /\ msg.cmd = "response"
           /\ msg.rid = c
           /\ toServer' = toServer \ {msg}
           /\ IF ResponseAccepted(msg)
              THEN /\ invalidated' = [invalidated EXCEPT ![c] = NoEntry]
                   /\ granted' = IF msg.mode = "null" THEN granted
                                 ELSE [granted EXCEPT ![c] = msg.mode]
                   /\ busy' = "message"
              ELSE UNCHANGED <<granted, invalidated, busy>>
    BY Zenon DEF ServerResponse
  <1>2. /\ UNCHANGED <<lock, worker, mount, toClient, link, requested>>
        /\ link[c] = "up"
    BY Zenon DEF ServerResponse, clientVars, lockVars
  <1>3. /\ msg.mode \in Mode /\ toServer \subseteq ServerMsg
        /\ granted \in [Client -> Entry] /\ invalidated \in [Client -> Entry]
        /\ lock[c].mode \in Mode
    BY Zenon, RecordType DEF TypeOK, NetTypeOK, ServerTypeOK, ServerMsg
  <1>4. ASSUME NEW d \in Client, d # c PROVE Frame(d)
    <2>1. granted'[d] = granted[d] /\ invalidated'[d] = invalidated[d]
      BY Zenon, <1>1, <1>3, <1>4
    <2> QED
      BY Zenon, <1>1, <1>2, <1>3, <1>4, <2>1 DEF Frame
  <1>5. \A d \in Client : LocalInv(d) /\ (IsMounted(d)' <=> IsMounted(d))
    BY Zenon, <1>2, LockInvParts DEF IsMounted
  <1>6. ASSUME IsMounted(c)
        PROVE  /\ invalidated'[c] = NoEntry
               /\ granted'[c] = IF msg.mode = "null" THEN NoEntry ELSE msg.mode
               /\ Record(c)' = granted'[c]
               /\ Covers(Record(c), Record(c)')
               /\ Covers(Record(c)', lock[c].mode)
    <2>1. /\ ResponseAccepted(msg)
          /\ Covers(invalidated[c], msg.mode) /\ Covers(msg.mode, lock[c].mode)
          /\ Record(c) = invalidated[c] /\ granted[c] = NoEntry
      BY Zenon, <1>1, <1>6, ResponseKnown
    <2>2. invalidated'[c] = NoEntry
      BY Zenon, <1>1, <1>3, <2>1
    <2>3. granted'[c] = IF msg.mode = "null" THEN NoEntry ELSE msg.mode
      BY Zenon, <1>1, <1>3, <2>1
    <2>4. Record(c)' = granted'[c]
      BY Zenon, <2>2 DEF Record
    <2> QED
      BY Zenon, <1>3, <2>1, <2>2, <2>3, <2>4 DEF Covers, Mode, NoEntry
  <1>7. LocalInv(c)'
    <2>1. CASE ~ IsMounted(c)
      BY Zenon, <1>2, <1>5, <2>1 DEF LocalInv, NoLateCallers
    <2>2. CASE IsMounted(c)
      <3> USE DEF MountedInv
      <3>1. MountedInv(c)
        BY Zenon, <1>5, <2>2 DEF LocalInv
      <3>2. /\ \A n \in toServer : n.cmd = "request" => n \in toServer'
            /\ \A n \in toServer' : n \in toServer
        BY Zenon, <1>1
      <3>3. ~ InvalAnswered(c)'
        BY Zenon, <1>1, <3>1, <3>2 DEF OneInvalidation, InvalAnswered
      <3>4. /\ GrantSent(c)' <=> GrantSent(c)
            /\ InvalSent(c)' <=> InvalSent(c)
            /\ FirstInval(c)' = FirstInval(c)
            /\ InvalQueued(c)' <=> InvalQueued(c)
            /\ RequestSent(c)' <=> RequestSent(c)
            /\ RequestQueued(c)' <=> RequestQueued(c)
        BY Zenon, <1>2, <3>2 DEF GrantSent, InvalSent, FirstInval, InvalQueued, RequestSent, RequestQueued
      <3>5. ~ InvalSent(c)' /\ ~ InvalQueued(c)' /\ ~ GrantSent(c)'
        BY Zenon, <1>1, <2>2, <3>4, ResponseKnown
      <3>6. LockKept(c)' /\ GrantThenInval(c)' /\ OneList(c)'
        BY Zenon, <1>2, <1>6, <2>2, <3>1 DEF LockKept, GrantThenInval, OneList
      <3>7. OneRequest(c)'
        BY Zenon, <1>2, <3>1, <3>2, <3>4 DEF OneRequest
      <3>8. OneInvalidation(c)'
        BY Zenon, <1>2, <3>1, <3>2, <3>3, <3>4, <3>5 DEF OneInvalidation
      <3>9. InvalidationsCovered(c)'
        <4>1. \A i \in 1..Len(toClient'[c]) : toClient'[c][i].cmd # "inval"
          BY Zenon, <3>5 DEF InvalSent
        <4>2. \A n \in toServer' : ~ (n.cmd = "response" /\ n.rid = c)
          BY Zenon, <3>3 DEF InvalAnswered
        <4>3. FirstInval(c)'..Len(lock'[c].invs) = {}
          <5>1. Len(lock[c].invs) \in Nat
            BY DEF TypeOK, ClientTypeOK, Lock
          <5>2. FirstInval(c) \in Nat
            BY Zenon DEF FirstInval
          <5> QED
            BY <1>2, <3>4, <3>5, <5>1, <5>2 DEF InvalQueued
        <4> QED
          BY Zenon, <1>2, <3>1, <4>1, <4>2, <4>3 DEF InvalidationsCovered
      <3>10. GrantsCovered(c)'
        BY Zenon, <3>5 DEF GrantsCovered, GrantSent
      <3>11. ModesCovered(c)'
        BY Zenon, <1>2, <1>6, <2>2 DEF ModesCovered
      <3>12. MountedInv(c)'
        BY Zenon, <3>6, <3>7, <3>8, <3>9, <3>10, <3>11
      <3> QED
        BY Zenon, <1>2, <1>5, <3>12 DEF LocalInv, NoLateCallers
    <2> QED
      BY Zenon, <2>1, <2>2
  <1>8. ASSUME NEW d \in Client, IsMounted(d)'
        PROVE  IsMounted(d) /\ Covers(Record(d), Record(d)')
    <2>1. CASE d = c
      BY Zenon, <1>5, <1>6, <1>8, <2>1
    <2>2. CASE d # c
      BY Zenon, <1>4, <1>5, <1>8, <2>2 DEF Frame, Record, Covers
    <2> QED
      BY Zenon, <2>1, <2>2
  <1>9. \A d \in Client : LocalInv(d)'
    BY Zenon, <1>4, <1>5, <1>7, FrameLocal
  <1> QED
    BY Zenon, <1>2, <1>8, <1>9, ServerStepInv

-----------------------------------------------------------------------------
(* process_waiting_requests()                                              *)

\* A grant whose client is sent an invalidation moves to the invalidated list.
LEMMA InvalidateOne ==
  ASSUME TypeOK, TypeOK', NEW c \in Client, LocalInv(c), IsMounted(c),
         invalidated[c] = NoEntry, granted[c] # NoEntry, NEW m \in Mode,
         toClient'[c] = Append(toClient[c], InvalMsg(granted[c], invalidation_mode(granted[c], m))),
         invalidated'[c] = granted[c], granted'[c] = NoEntry,
         UNCHANGED <<lock, worker, mount, requested, toServer, link>>
  PROVE  LocalInv(c)'
  <1> DEFINE new == invalidation_mode(granted[c], m)
             msg == InvalMsg(granted[c], new)
  <1> USE DEF MountedInv
  <1>1. MountedInv(c) /\ IsMounted(c)'
    BY Zenon DEF LocalInv, IsMounted
  <1>2. ~ InvalSent(c) /\ ~ InvalQueued(c) /\ ~ InvalAnswered(c)
    BY Zenon, <1>1 DEF OneInvalidation
  <1>3. granted[c] \in Mode /\ new \in Mode /\ Covers(granted[c], new)
    BY Zenon DEF TypeOK, ServerTypeOK, Entry, Mode, invalidation_mode, Covers
  <1>4. msg \in ClientMsg /\ msg.cmd = "inval" /\ msg.new = new /\ msg.live
    BY Zenon, <1>3 DEF InvalMsg, ClientMsg
  <1> HIDE DEF new, msg
  <1>5. toClient[c] \in Seq(ClientMsg) /\ toClient'[c] = Append(toClient[c], msg)
    BY Zenon DEF TypeOK, NetTypeOK, msg, new
  <1>6. /\ Len(toClient[c]) \in Nat
        /\ Len(toClient'[c]) = Len(toClient[c]) + 1
        /\ \A i \in 1..Len(toClient[c]) : toClient'[c][i] = toClient[c][i]
        /\ toClient'[c][Len(toClient[c]) + 1] = msg
    BY <1>4, <1>5, AppendProperties
  <1>7. /\ \A i \in 1..Len(toClient'[c]) : i \in 1..Len(toClient[c]) \/ i = Len(toClient[c]) + 1
        /\ \A i \in 1..Len(toClient[c]) : i \in 1..Len(toClient'[c])
        /\ Len(toClient[c]) + 1 \in 1..Len(toClient'[c])
    BY <1>6
  <1>8. \A i \in 1..Len(toClient[c]) : toClient[c][i].cmd # "inval"
    BY Zenon, <1>2 DEF InvalSent
  <1>9. /\ RequestSent(c)' <=> RequestSent(c)
        /\ RequestQueued(c)' <=> RequestQueued(c)
        /\ FirstInval(c)' = FirstInval(c)
        /\ InvalQueued(c)' <=> InvalQueued(c)
        /\ InvalAnswered(c)' <=> InvalAnswered(c)
        /\ Dropped(c)' <=> Dropped(c)
    BY Zenon DEF RequestSent, RequestQueued, FirstInval, InvalQueued, InvalAnswered, Dropped
  <1>10. Record(c)' = Record(c) /\ Record(c) = granted[c]
    BY Zenon DEF Record
  <1>11. GrantSent(c)' <=> GrantSent(c)
    BY Zenon, <1>4, <1>6, <1>7 DEF GrantSent
  <1>12. LockKept(c)' /\ OneList(c)'
    BY Zenon, <1>1 DEF LockKept, OneList
  <1>13. OneRequest(c)'
    BY Zenon, <1>1, <1>9, <1>11 DEF OneRequest
  <1>14. OneInvalidation(c)'
    BY Zenon, <1>1, <1>2, <1>9 DEF OneInvalidation
  <1>15. GrantThenInval(c)'
    BY Zenon, <1>1, <1>4, <1>6, <1>7, <1>8 DEF GrantThenInval
  <1>16. InvalidationsCovered(c)'
    <2>1. \A i \in 1..Len(toClient'[c]) : toClient'[c][i].cmd = "inval" =>
             toClient'[c][i].live /\ Covers(invalidated'[c], toClient'[c][i].new)
      BY Zenon, <1>3, <1>4, <1>6, <1>7, <1>8
    <2>2. FirstInval(c)'..Len(lock'[c].invs) = {}
      <3>1. Len(lock[c].invs) \in Nat
        BY SMT DEF TypeOK, ClientTypeOK, Lock
      <3>2. FirstInval(c) \in Nat
        BY Zenon DEF FirstInval
      <3> QED
        BY SMT, <1>2, <1>9, <3>1, <3>2 DEF InvalQueued
    <2>3. \A n \in toServer' : ~ (n.cmd = "response" /\ n.rid = c)
      BY Zenon, <1>2 DEF InvalAnswered
    <2> QED
      BY Zenon, <1>1, <2>1, <2>2, <2>3 DEF InvalidationsCovered
  <1>17. GrantsCovered(c)'
    BY Zenon, <1>1, <1>4, <1>6, <1>7, <1>9, <1>10 DEF GrantsCovered
  <1>18. ModesCovered(c)'
    BY Zenon, <1>1, <1>9, <1>10 DEF ModesCovered
  <1>19. MountedInv(c)'
    BY Zenon, <1>12, <1>13, <1>14, <1>15, <1>16, <1>17, <1>18
  <1> QED
    BY Zenon, <1>1, <1>19 DEF LocalInv, NoLateCallers

\* Sending invalidations keeps what the server knows of every client.
LEMMA ProcessInvalidateInv ==
  ASSUME TypeOK, TypeOK', LockInv, WorkerBusy', ProcessInvalidate, UNCHANGED clientVars
  PROVE  LockInv'
  <1> DEFINE req == Head(requested)
  <1>1. PICK sent \in SUBSET Client :
           /\ \A c \in sent : granted[c] # NoEntry
           /\ SendInvalidations(req, sent)
    BY Zenon DEF ProcessInvalidate, Incompatible
  <1>2. /\ UNCHANGED <<lock, worker, mount, requested, toServer, link>>
        /\ \A c \in Client : invalidated[c] = NoEntry
        /\ requested # <<>>
    BY Zenon DEF ProcessInvalidate, Walking, clientVars, lockVars
  <1>3. req.mode \in Mode
    <2>1. requested \in Seq(Waiting)
      BY Zenon DEF TypeOK, ServerTypeOK
    <2>2. req \in Waiting
      BY Zenon, <1>2, <2>1, HeadTailProperties
    <2> QED
      BY Zenon, <2>2 DEF Waiting
  <1>4. \A c \in Client : LocalInv(c) /\ (IsMounted(c)' <=> IsMounted(c))
    BY Zenon, <1>2, LockInvParts DEF IsMounted
  <1> HIDE DEF req
  <1>5. ASSUME NEW c \in Client, c \notin sent PROVE Frame(c)
    BY Zenon, <1>1, <1>2, <1>5 DEF SendInvalidations, Frame
  <1>6. ASSUME NEW c \in sent
        PROVE  /\ toClient'[c] = Append(toClient[c],
                     InvalMsg(granted[c], invalidation_mode(granted[c], req.mode)))
               /\ invalidated'[c] = granted[c] /\ granted'[c] = NoEntry
               /\ granted[c] # NoEntry
    BY Zenon, <1>1, <1>6 DEF SendInvalidations
  <1>7. ASSUME NEW c \in Client
        PROVE  LocalInv(c)' /\ Record(c)' = Record(c)
    <2>1. CASE c \notin sent
      BY Zenon, <1>4, <1>5, <2>1, FrameLocal DEF Frame, Record
    <2>2. CASE c \in sent /\ ~ IsMounted(c)
      BY Zenon, <1>2, <1>4, <1>6, <2>2 DEF LocalInv, NoLateCallers, Record
    <2>3. CASE c \in sent /\ IsMounted(c)
      <3>1. LocalInv(c)'
        BY Zenon, <1>2, <1>3, <1>4, <1>6, <2>3, InvalidateOne
      <3> QED
        BY Zenon, <1>2, <1>6, <2>3, <3>1 DEF Record
    <2> QED
      BY Zenon, <2>1, <2>2, <2>3
  <1> QED
    BY Zenon, <1>2, <1>4, <1>7, ServerStepInv DEF Covers

\* Taking the request of one client off the head of the queue leaves the requests
\* of others in place.
LEMMA TailQueue ==
  ASSUME TypeOK, requested # <<>>, requested' = Tail(requested)
  PROVE  \A d \in Client :
            /\ Head(requested).rid # d => (RequestQueued(d)' <=> RequestQueued(d))
            /\ (\A i, j \in 1..Len(requested) :
                   requested[i].rid = d /\ requested[j].rid = d => i = j)
               => /\ \A i, j \in 1..Len(requested') :
                        requested'[i].rid = d /\ requested'[j].rid = d => i = j
                  /\ Head(requested).rid = d => ~ RequestQueued(d)'
            /\ Head(requested).rid = d => RequestQueued(d)
  <1>1. requested \in Seq(Waiting)
    BY Zenon DEF TypeOK, ServerTypeOK
  <1>2. /\ Len(requested) \in Nat \ {0}
        /\ Len(requested') = Len(requested) - 1
        /\ \A i \in 1..Len(requested') : requested'[i] = requested[i + 1]
        /\ Head(requested) = requested[1]
    BY <1>1, HeadTailProperties
  <1>3. /\ \A i \in 1..Len(requested') : i + 1 \in 1..Len(requested) /\ i + 1 # 1
        /\ 1 \in 1..Len(requested)
        /\ \A k \in 1..Len(requested) : k = 1 \/ (k - 1 \in 1..Len(requested') /\ (k - 1) + 1 = k)
        /\ \A i, j \in 1..Len(requested') : i + 1 = j + 1 => i = j
    BY <1>2
  <1>4. ASSUME NEW d \in Client, Head(requested).rid # d
        PROVE  RequestQueued(d)' <=> RequestQueued(d)
    <2>1. ASSUME RequestQueued(d)' PROVE RequestQueued(d)
      BY <1>2, <1>3, <2>1 DEF RequestQueued
    <2>2. ASSUME RequestQueued(d) PROVE RequestQueued(d)'
      <3>1. PICK k \in 1..Len(requested) : requested[k].rid = d
        BY Zenon, <2>2 DEF RequestQueued
      <3>2. k - 1 \in 1..Len(requested') /\ requested'[k - 1] = requested[k]
        BY Zenon, <1>2, <1>3, <1>4, <3>1
      <3> QED
        BY Zenon, <3>1, <3>2 DEF RequestQueued
    <2> QED
      BY Zenon, <2>1, <2>2
  <1>5. ASSUME NEW d \in Client,
               \A i, j \in 1..Len(requested) :
                  requested[i].rid = d /\ requested[j].rid = d => i = j
        PROVE  /\ \A i, j \in 1..Len(requested') :
                     requested'[i].rid = d /\ requested'[j].rid = d => i = j
               /\ Head(requested).rid = d => ~ RequestQueued(d)'
    <2>1. ASSUME NEW i \in 1..Len(requested'), NEW j \in 1..Len(requested'),
                 requested'[i].rid = d, requested'[j].rid = d
          PROVE  i = j
      <3>1. requested[i + 1].rid = d /\ requested[j + 1].rid = d
        BY Zenon, <1>2, <2>1
      <3>2. i + 1 = j + 1
        BY Zenon, <1>3, <1>5, <3>1
      <3> QED
        BY Zenon, <1>3, <3>2
    <2>2. ASSUME Head(requested).rid = d PROVE ~ RequestQueued(d)'
      BY <1>2, <1>3, <1>5, <2>2 DEF RequestQueued
    <2> QED
      BY Zenon, <2>1, <2>2
  <1>6. \A d \in Client : Head(requested).rid = d => RequestQueued(d)
    BY Zenon, <1>2, <1>3 DEF RequestQueued
  <1> QED
    BY Zenon, <1>4, <1>5, <1>6

\* The mode that is granted excludes what others have, and covers what the client
\* already has.
LEMMA GrantCompatible ==
  ASSUME TypeOK, LockInv, Walking, Incompatible(Head(requested)) = {},
         NEW c \in Client, c = Head(requested).rid,
         NEW m \in Mode, m = Head(requested).mode
  PROVE  /\ \A d \in Client : IsMounted(d) /\ d # c =>
               Compatible(m, Record(d)) /\ Compatible(m, lock[d].mode)
         /\ IsMounted(c) /\ link[c] = "up" => Covers(m, lock[c].mode)
  <1>1. \A d \in Client : Record(d) = granted[d] /\ Record(d) \in Entry /\ lock[d].mode \in Mode
    BY Zenon, RecordType DEF Walking, Record
  <1>2. \A d \in Client : granted[d] # NoEntry => client_entries_compatible(d, granted[d], c, m)
    BY Zenon DEF Incompatible
  <1>3. \A d \in Client : IsMounted(d) =>
           (link[d] = "lost" /\ d = c) \/ Covers(Record(d), lock[d].mode)
    BY Zenon, LockInvParts DEF LocalInv, MountedInv, ModesCovered, Dropped
  <1>4. ASSUME NEW d \in Client, IsMounted(d), d # c
        PROVE  Compatible(m, Record(d)) /\ Compatible(m, lock[d].mode)
    <2>1. Compatible(m, Record(d))
      BY Zenon, <1>1, <1>2, <1>4 DEF Compatible, client_entries_compatible
    <2>2. Covers(Record(d), lock[d].mode)
      BY Zenon, <1>3, <1>4
    <2>3. m \in Entry /\ lock[d].mode \in Entry
      BY Zenon, <1>1 DEF Entry
    <2>4. Compatible(Record(d), m)
      BY Zenon, <1>1, <2>1, <2>3, CompatibleSym
    <2> QED
      BY ZenonT(60), <1>1, <2>1, <2>2, <2>3, <2>4, CoveredCompatible
  <1>5. ASSUME IsMounted(c), link[c] = "up"
        PROVE  Covers(m, lock[c].mode)
    <2>1. Covers(granted[c], lock[c].mode)
      BY Zenon, <1>1, <1>3, <1>5
    <2>2. CASE granted[c] = NoEntry
      BY Zenon, <1>1, <2>1, <2>2 DEF Covers, Mode, NoEntry
    <2>3. CASE granted[c] # NoEntry
      BY Zenon, <1>1, <1>2, <2>1, <2>3 DEF Covers, client_entries_compatible
    <2> QED
      BY Zenon, <2>2, <2>3
  <1> QED
    BY Zenon, <1>4, <1>5

\* The invariant of the client whose request is granted.
LEMMA GrantOne ==
  ASSUME TypeOK, TypeOK', NEW c \in Client, LocalInv(c), IsMounted(c),
         Head(requested).rid = c, requested # <<>>, requested' = Tail(requested),
         invalidated[c] = NoEntry, NEW m \in Mode, NEW old \in Mode,
         Covers(m, lock[c].mode),
         toClient'[c] = Append(toClient[c], GrantMsg(old, m)),
         granted'[c] = IF m = "null" THEN NoEntry ELSE m,
         UNCHANGED <<lock, worker, mount, invalidated, toServer, link>>
  PROVE  LocalInv(c)'
  <1> DEFINE msg == GrantMsg(old, m)
  <1> USE DEF MountedInv
  <1>1. MountedInv(c) /\ IsMounted(c)' /\ lock[c].mode \in Mode
    BY Zenon, RecordType DEF LocalInv, IsMounted
  <1>2. ~ InvalSent(c) /\ ~ InvalQueued(c) /\ ~ InvalAnswered(c)
    BY Zenon, <1>1 DEF OneInvalidation
  <1>3. RequestQueued(c) /\ ~ RequestQueued(c)'
    BY Zenon, <1>1, TailQueue DEF OneRequest
  <1>4. ~ RequestSent(c) /\ ~ GrantSent(c) /\ ~ lock[c].shrink /\ lock[c].pend
    BY Zenon, <1>1, <1>3 DEF OneRequest
  <1>5. msg \in ClientMsg /\ msg.cmd = "grant" /\ msg.new = m
    BY Zenon DEF GrantMsg, ClientMsg
  <1> HIDE DEF msg
  <1>6. toClient[c] \in Seq(ClientMsg) /\ toClient'[c] = Append(toClient[c], msg)
    BY Zenon DEF TypeOK, NetTypeOK, msg
  <1>7. Len(toClient[c]) = 0
    <2>1. \A i \in 1..Len(toClient[c]) : toClient[c][i] \in ClientMsg
      BY SMT, <1>6
    <2>2. \A i \in 1..Len(toClient[c]) : FALSE
      BY Zenon, <1>2, <1>4, <2>1 DEF InvalSent, GrantSent, ClientMsg
    <2>3. Len(toClient[c]) \in Nat
      BY SMT, <1>6
    <2> QED
      BY <2>2, <2>3
  <1>8. Len(toClient'[c]) = 1 /\ toClient'[c][1] = msg
    BY SMT, <1>5, <1>6, <1>7, AppendProperties
  <1>9. \A i \in 1..Len(toClient'[c]) : i = 1
    BY SMT, <1>8
  <1>10. /\ RequestSent(c)' <=> RequestSent(c)
         /\ FirstInval(c)' = FirstInval(c)
         /\ InvalQueued(c)' <=> InvalQueued(c)
         /\ InvalAnswered(c)' <=> InvalAnswered(c)
         /\ ~ InvalSent(c)'
    BY Zenon, <1>5, <1>8, <1>9 DEF RequestSent, FirstInval, InvalQueued, InvalAnswered, InvalSent
  <1>11. Covers(Record(c)', m) /\ Covers(Record(c)', lock[c].mode)
    BY Zenon, <1>1 DEF Record, Covers
  <1>12. LockKept(c)' /\ OneList(c)'
    BY Zenon, <1>1 DEF LockKept, OneList
  <1>13. OneRequest(c)'
    <2>1. \A i, j \in 1..Len(requested') :
             requested'[i].rid = c /\ requested'[j].rid = c => i = j
      BY Zenon, <1>1, TailQueue DEF OneRequest
    <2> QED
      BY Zenon, <1>1, <1>3, <1>4, <1>10, <2>1 DEF OneRequest
  <1>14. OneInvalidation(c)'
    BY Zenon, <1>1, <1>2, <1>10 DEF OneInvalidation
  <1>15. GrantThenInval(c)'
    BY Zenon, <1>5, <1>8, <1>9 DEF GrantThenInval
  <1>16. InvalidationsCovered(c)'
    BY Zenon, <1>1, <1>5, <1>8, <1>9, <1>10 DEF InvalidationsCovered
  <1>17. GrantsCovered(c)'
    BY Zenon, <1>2, <1>5, <1>8, <1>9, <1>10, <1>11 DEF GrantsCovered
  <1>18. ModesCovered(c)'
    BY Zenon, <1>11 DEF ModesCovered
  <1>19. MountedInv(c)'
    BY Zenon, <1>12, <1>13, <1>14, <1>15, <1>16, <1>17, <1>18
  <1> QED
    BY Zenon, <1>1, <1>19 DEF LocalInv, NoLateCallers

\* The grant of a client whose response can not be sent is freed.  Its request
\* stays where it keeps all others waiting.
LEMMA DropOne ==
  ASSUME TypeOK, TypeOK', NEW c \in Client, LocalInv(c), IsMounted(c),
         Head(requested).rid = c, requested # <<>>, link[c] # "up",
         invalidated[c] = NoEntry, granted'[c] = NoEntry,
         UNCHANGED <<lock, worker, mount, requested, invalidated, toClient, toServer, link>>
  PROVE  LocalInv(c)'
  <1> USE DEF MountedInv
  <1>1. MountedInv(c) /\ IsMounted(c)'
    BY Zenon DEF LocalInv, IsMounted
  <1>2. Dropped(c)'
    <2>1. link[c] \in {"up", "down", "lost"}
      BY Zenon DEF TypeOK, NetTypeOK
    <2> QED
      BY Zenon, <1>1, <2>1 DEF Dropped, LockKept
  <1>3. RequestQueued(c)
    <2>1. requested \in Seq(Waiting)
      BY Zenon DEF TypeOK, ServerTypeOK
    <2>2. 1 \in 1..Len(requested) /\ Head(requested) = requested[1]
      BY SMT, <2>1, HeadTailProperties
    <2> QED
      BY Zenon, <2>2 DEF RequestQueued
  <1>4. ~ GrantSent(c)
    BY Zenon, <1>1, <1>3 DEF OneRequest
  <1>5. /\ RequestSent(c)' <=> RequestSent(c)
        /\ RequestQueued(c)' <=> RequestQueued(c)
        /\ GrantSent(c)' <=> GrantSent(c)
        /\ InvalSent(c)' <=> InvalSent(c)
        /\ FirstInval(c)' = FirstInval(c)
        /\ InvalQueued(c)' <=> InvalQueued(c)
        /\ InvalAnswered(c)' <=> InvalAnswered(c)
    BY Zenon DEF RequestSent, RequestQueued, GrantSent, InvalSent, FirstInval, InvalQueued, InvalAnswered
  <1>6. LockKept(c)' /\ OneList(c)' /\ GrantThenInval(c)'
    BY Zenon, <1>1 DEF LockKept, OneList, GrantThenInval
  <1>7. OneRequest(c)' /\ OneInvalidation(c)'
    BY Zenon, <1>1, <1>5 DEF OneRequest, OneInvalidation
  <1>8. InvalidationsCovered(c)'
    BY Zenon, <1>1, <1>5 DEF InvalidationsCovered
  <1>9. GrantsCovered(c)'
    BY Zenon, <1>4 DEF GrantsCovered, GrantSent
  <1>10. ModesCovered(c)'
    BY Zenon, <1>2 DEF ModesCovered
  <1>11. MountedInv(c)'
    BY Zenon, <1>6, <1>7, <1>8, <1>9, <1>10
  <1> QED
    BY Zenon, <1>1, <1>11 DEF LocalInv, NoLateCallers

\* Granting the request at the head of the queue.
LEMMA ProcessGrantInv ==
  ASSUME TypeOK, TypeOK', LockInv, WorkerBusy', ProcessGrant, UNCHANGED clientVars
  PROVE  LockInv'
  <1>1. /\ requested # <<>> /\ Walking /\ Incompatible(Head(requested)) = {}
        /\ \A d \in Client : invalidated[d] = NoEntry
        /\ UNCHANGED <<lock, worker, mount, invalidated, toServer, link>>
    BY Zenon DEF ProcessGrant, Walking, clientVars, lockVars
  <1>2. PICK c \in Client, m \in Mode, old \in Mode :
           /\ c = Head(requested).rid
           /\ m = Head(requested).mode
           /\ old = IF granted[c] = NoEntry THEN "null" ELSE granted[c]
    <2>1. requested \in Seq(Waiting) /\ granted \in [Client -> Entry]
      BY Zenon DEF TypeOK, ServerTypeOK
    <2>2. Head(requested) \in Waiting
      BY Zenon, <1>1, <2>1, HeadTailProperties
    <2>3. Head(requested).rid \in Client /\ Head(requested).mode \in Mode
      BY Zenon, <2>2 DEF Waiting
    <2> QED
      BY Zenon, <2>1, <2>3 DEF Entry, Mode
  <1>3. /\ granted \in [Client -> Entry] /\ toClient \in [Client -> Seq(ClientMsg)]
        /\ toServer \subseteq ServerMsg
    BY Zenon DEF TypeOK, ServerTypeOK, NetTypeOK
  <1>4. \A d \in Client : LocalInv(d) /\ (IsMounted(d)' <=> IsMounted(d))
    BY Zenon, <1>1, LockInvParts DEF IsMounted
  <1>5. CASE link[c] # "up"
    <2>1. granted' = [granted EXCEPT ![c] = NoEntry] /\ UNCHANGED <<requested, toClient>>
      BY Zenon, <1>2, <1>5 DEF ProcessGrant
    <2>2. \A d \in Client \ {c} : Frame(d)
      BY Zenon, <1>1, <1>3, <2>1 DEF Frame
    <2>3. granted'[c] = NoEntry
      BY Zenon, <1>2, <1>3, <2>1
    <2>4. LocalInv(c)'
      <3>1. CASE IsMounted(c)
        BY Zenon, <1>1, <1>2, <1>4, <1>5, <2>1, <2>3, <3>1, DropOne
      <3>2. CASE ~ IsMounted(c)
        BY Zenon, <1>1, <1>2, <1>4, <3>2 DEF LocalInv, NoLateCallers
      <3> QED
        BY Zenon, <3>1, <3>2
    <2>5. \A d \in Client : LocalInv(d)'
      BY Zenon, <1>2, <1>4, <2>2, <2>4, FrameLocal
    <2>6. \A d \in Client : Covers(Record(d), Record(d)')
      <3>1. Covers(Record(c), Record(c)')
        BY Zenon, <1>1, <1>2, <2>3 DEF Record, Covers
      <3>2. \A d \in Client \ {c} : Covers(Record(d), Record(d)')
        BY Zenon, <2>2 DEF Record, Covers, Frame
      <3> QED
        BY Zenon, <3>1, <3>2
    <2> QED
      BY Zenon, <1>1, <1>4, <2>5, <2>6, ServerStepInv
  <1>6. CASE link[c] = "up"
    <2>1. /\ toClient' = [toClient EXCEPT ![c] = Append(@, GrantMsg(old, m))]
          /\ granted' = [granted EXCEPT ![c] = IF m = "null" THEN NoEntry ELSE m]
          /\ requested' = Tail(requested)
      BY Zenon, <1>2, <1>6 DEF ProcessGrant
    <2>2. /\ toClient'[c] = Append(toClient[c], GrantMsg(old, m))
          /\ granted'[c] = IF m = "null" THEN NoEntry ELSE m
          /\ \A d \in Client \ {c} : toClient'[d] = toClient[d] /\ granted'[d] = granted[d]
      BY Zenon, <1>2, <1>3, <2>1
    <2>3. /\ \A d \in Client : IsMounted(d) /\ d # c =>
                Compatible(m, Record(d)) /\ Compatible(m, lock[d].mode)
          /\ IsMounted(c) => Covers(m, lock[c].mode)
      BY Zenon, <1>1, <1>2, <1>6, GrantCompatible
    <2>4. ASSUME NEW d \in Client, d # c PROVE LocalInv(d)'
      <3>1. ~ Dropped(d)
        BY Zenon, <1>2, <2>4 DEF Dropped
      <3>2. QueueFrame(d)
        BY Zenon, <1>1, <1>2, <1>3, <2>1, <2>2, <2>4, <3>1, TailQueue DEF QueueFrame
      <3> QED
        BY Zenon, <1>4, <3>2, QueueLocal
    <2>5. LocalInv(c)'
      <3>1. CASE IsMounted(c)
        BY Zenon, <1>1, <1>2, <1>4, <2>1, <2>2, <2>3, <3>1, GrantOne
      <3>2. CASE ~ IsMounted(c)
        BY Zenon, <1>1, <1>2, <1>4, <3>2 DEF LocalInv, NoLateCallers
      <3> QED
        BY Zenon, <3>1, <3>2
    <2>6. /\ Record(c)' = IF m = "null" THEN NoEntry ELSE m
          /\ \A d \in Client \ {c} : Record(d)' = Record(d)
      BY Zenon, <1>1, <1>2, <2>2 DEF Record
    <2>7. Exclusion'
      <3>1. Exclusion
        BY Zenon, LockInvParts
      <3>2. /\ \A d \in Client : Record(d) \in Entry /\ lock[d].mode \in Entry
            /\ m \in Entry
        BY Zenon, <1>2, RecordType DEF Entry
      <3>3. ASSUME NEW d \in Client, d # c, IsMounted(c), IsMounted(d)
            PROVE  Exclude(c, d)' /\ Exclude(d, c)'
        <4>1. Compatible(m, Record(d)) /\ Compatible(m, lock[d].mode) /\ Covers(m, lock[c].mode)
          BY Zenon, <2>3, <3>3
        <4>2. Compatible(Record(c)', Record(d)) /\ Compatible(Record(c)', lock[d].mode)
          BY Zenon, <2>6, <4>1 DEF Compatible
        <4>3. Compatible(lock[c].mode, Record(d)) /\ Compatible(lock[c].mode, lock[d].mode)
          BY Zenon, <1>2, <3>2, <4>1, CoveredCompatible
        <4>4. Record(c)' \in Entry
          BY Zenon, <2>6, <3>2 DEF Entry
        <4>5. Record(d)' = Record(d)
          BY Zenon, <2>6, <3>3
        <4> QED
          BY ZenonT(60), <1>1, <1>2, <3>2, <4>2, <4>3, <4>4, <4>5, CompatibleSym DEF Exclude
      <3>4. ASSUME NEW d \in Client, NEW e \in Client, d # e, d # c, e # c,
                   IsMounted(d), IsMounted(e)
            PROVE  Exclude(d, e)'
        <4>1. Exclude(d, e)
          BY Zenon, <3>1, <3>4 DEF Exclusion
        <4>2. Record(d)' = Record(d) /\ Record(e)' = Record(e)
          BY Zenon, <2>6, <3>4
        <4> QED
          BY Zenon, <1>1, <4>1, <4>2 DEF Exclude
      <3> QED
        BY Zenon, <1>4, <3>3, <3>4 DEF Exclusion
    <2>8. \A d \in Client : LocalInv(d)'
      BY Zenon, <2>4, <2>5
    <2>9. LockInv' <=> WorkerBusy' /\ Exclusion' /\ \A d \in Client : LocalInv(d)'
      BY Zenon DEF LockInv, Exclusion, LocalInv, UsersCovered
    <2> QED
      BY Zenon, <2>7, <2>8, <2>9
  <1> QED
    BY Zenon, <1>5, <1>6

-----------------------------------------------------------------------------
(* scoutfs_lock_server_farewell()                                          *)

\* Removing the request of a client leaves the requests of others in place, and
\* a request at the head of the queue stays there.
LEMMA WithoutQueue ==
  ASSUME TypeOK, TypeOK', NEW c \in Client, requested' = WithoutClient(requested, c),
         NEW d \in Client, d # c
  PROVE  /\ RequestQueued(d)' <=> RequestQueued(d)
         /\ (\A i, j \in 1..Len(requested) :
                requested[i].rid = d /\ requested[j].rid = d => i = j)
            => \A i, j \in 1..Len(requested') :
                  requested'[i].rid = d /\ requested'[j].rid = d => i = j
         /\ requested # <<>> /\ Head(requested).rid = d =>
               requested' # <<>> /\ Head(requested').rid = d
  <1> DEFINE mine == {i \in 1..Len(requested) : requested[i].rid = c}
  <1>1. requested \in Seq(Waiting) /\ requested' \in Seq(Waiting)
    BY Zenon DEF TypeOK, ServerTypeOK
  <1>2. CASE mine = {}
    <2>1. requested' = requested
      BY Zenon, <1>2 DEF WithoutClient
    <2> QED
      BY Zenon, <2>1 DEF RequestQueued
  <1>3. CASE mine # {}
    <2>1. PICK k \in 1..Len(requested) :
             /\ requested[k].rid = c
             /\ requested' = [j \in 1..(Len(requested) - 1) |->
                                IF j < k THEN requested[j] ELSE requested[j + 1]]
      <3>1. (CHOOSE i \in mine : TRUE) \in mine
        BY Zenon, <1>3
      <3> QED
        BY Zenon, <1>3, <3>1 DEF WithoutClient
    <2> DEFINE n      == Len(requested)
               pos(j) == IF j < k THEN j ELSE j + 1
    <2>2. n \in Nat \ {0} /\ Len(requested') = n - 1 /\ 1..Len(requested') = 1..(n - 1)
      <3>1. n \in Nat /\ k \in 1..n
        BY <1>1
      <3>2. n - 1 \in Nat
        BY <3>1
      <3> QED
        BY <2>1, <3>1, <3>2
    <2>3. \A j \in 1..Len(requested') : requested'[j] = requested[pos(j)]
      BY Zenon, <2>1, <2>2
    <2>4. /\ \A j \in 1..Len(requested') : pos(j) \in 1..n /\ pos(j) # k
          /\ \A i, j \in 1..Len(requested') : pos(i) = pos(j) => i = j
      BY <2>2
    <2>5. \A i \in 1..n : i # k => \E j \in 1..Len(requested') : pos(j) = i
      <3> SUFFICES ASSUME NEW i \in 1..n, i # k
                   PROVE  \E j \in 1..Len(requested') : pos(j) = i
        BY Zenon
      <3>1. CASE i < k
        BY <2>2, <3>1
      <3>2. CASE i > k
        <4>1. i - 1 \in 1..Len(requested') /\ pos(i - 1) = i
          BY <2>2, <3>2
        <4> QED
          BY Zenon, <4>1
      <3> QED
        BY <3>1, <3>2
    <2> HIDE DEF pos
    <2>6. RequestQueued(d)' <=> RequestQueued(d)
      <3>1. ASSUME RequestQueued(d)' PROVE RequestQueued(d)
        BY Zenon, <2>3, <2>4, <3>1 DEF RequestQueued
      <3>2. ASSUME RequestQueued(d) PROVE RequestQueued(d)'
        <4>1. PICK i \in 1..n : requested[i].rid = d
          BY Zenon, <3>2 DEF RequestQueued
        <4>2. PICK j \in 1..Len(requested') : pos(j) = i
          BY Zenon, <2>1, <2>5, <4>1
        <4> QED
          BY Zenon, <2>3, <4>1, <4>2 DEF RequestQueued
      <3> QED
        BY Zenon, <3>1, <3>2
    <2>7. ASSUME \A i, j \in 1..n : requested[i].rid = d /\ requested[j].rid = d => i = j,
                 NEW i \in 1..Len(requested'), NEW j \in 1..Len(requested'),
                 requested'[i].rid = d, requested'[j].rid = d
          PROVE  i = j
      <3>1. pos(i) = pos(j)
        BY ZenonT(60), <2>3, <2>4, <2>7
      <3> QED
        BY Zenon, <2>4, <3>1
    <2>8. ASSUME requested # <<>>, Head(requested).rid = d
          PROVE  requested' # <<>> /\ Head(requested').rid = d
      <3>1. Head(requested) = requested[1]
        BY <1>1, <2>8
      <3>2. k # 1
        BY Zenon, <2>1, <2>8, <3>1
      <3>3. 1 \in 1..Len(requested') /\ pos(1) = 1
        BY <2>2, <3>2 DEF pos
      <3>4. requested' # <<>>
        BY <1>1, <2>2, <3>3
      <3>5. Head(requested') = requested'[1]
        BY <1>1, <3>4
      <3> QED
        BY Zenon, <2>3, <2>8, <3>1, <3>3, <3>4, <3>5
    <2> QED
      BY Zenon, <2>6, <2>7, <2>8
  <1> QED
    BY Zenon, <1>2, <1>3

\* Reclaiming a client that can not have users leaves the other clients alone.
LEMMA ReclaimInv ==
  ASSUME TypeOK, TypeOK', LockInv, WorkerBusy', NEW c \in Client,
         ReclaimFarewell(c) \/ ReclaimFenced(c)
  PROVE  LockInv'
  <1>1. /\ ServerFarewell(c) /\ UNCHANGED <<lock, worker>>
        /\ \A d \in Client \ {c} : mount'[d] = mount[d]
        /\ ~ IsMounted(c) /\ ~ IsMounted(c)'
    BY Zenon DEF ReclaimFarewell, ReclaimFenced, clientVars, lockVars, IsMounted, TypeOK, ClientTypeOK
  <1>2. /\ granted' = [granted EXCEPT ![c] = NoEntry]
        /\ invalidated' = [invalidated EXCEPT ![c] = NoEntry]
        /\ requested' = WithoutClient(requested, c)
        /\ UNCHANGED <<toClient, toServer, link>>
    BY Zenon, <1>1 DEF ServerFarewell, netVars
  <1>3. granted \in [Client -> Entry] /\ invalidated \in [Client -> Entry]
    BY Zenon DEF TypeOK, ServerTypeOK
  <1>4. \A d \in Client : LocalInv(d)
    BY Zenon, LockInvParts
  <1>5. ASSUME NEW d \in Client, d # c
        PROVE  LocalInv(d)' /\ Record(d)' = Record(d) /\ (IsMounted(d)' <=> IsMounted(d))
    <2>1. granted'[d] = granted[d] /\ invalidated'[d] = invalidated[d]
      BY Zenon, <1>2, <1>3, <1>5
    <2>2. Dropped(d) => Dropped(d)'
      BY Zenon, <1>2, <1>5, WithoutQueue DEF Dropped
    <2>3. QueueFrame(d)
      BY ZenonT(60), <1>1, <1>2, <1>5, <2>1, <2>2, WithoutQueue DEF QueueFrame
    <2>4. LocalInv(d)'
      BY Zenon, <1>4, <2>3, QueueLocal
    <2> QED
      BY Zenon, <1>1, <1>5, <2>1, <2>4 DEF Record, IsMounted
  <1>6. LocalInv(c)'
    BY Zenon, <1>1, <1>4, LeftLocal DEF LocalInv, NoLateCallers
  <1>7. \A d \in Client : LocalInv(d)'
    BY Zenon, <1>5, <1>6
  <1>8. \A d \in Client : IsMounted(d)' => IsMounted(d) /\ Covers(Record(d), Record(d)')
    BY Zenon, <1>1, <1>5 DEF Covers
  <1> QED
    BY Zenon, <1>1, <1>7, <1>8, ServerStepInv

-----------------------------------------------------------------------------
(* The lock system                                                         *)

\* Initially nobody has or asks for anything.
LEMMA LockInit == Init => LockInv
  <1> SUFFICES ASSUME Init PROVE LockInv
    BY Zenon
  <1>1. \A c \in Client : /\ lock[c] = NoLock /\ worker[c] = "idle" /\ IsMounted(c)
                          /\ toClient[c] = <<>> /\ link[c] = "up"
                          /\ granted[c] = NoEntry /\ invalidated[c] = NoEntry
    BY Zenon DEF Init, ServerInit, NetInit, ClientInit, IsMounted
  <1>2. toServer = {} /\ requested = <<>> /\ Len(requested) = 0
    BY Zenon DEF Init, ServerInit, NetInit
  <1>3. /\ NoLock.users = Nobody /\ NoLock.waiters = Nobody /\ NoLock.invs = <<>>
        /\ NoLock.mode = "null" /\ NoLock.have = FALSE /\ NoLock.shrink = FALSE
        /\ NoLock.pend = FALSE
        /\ \A m \in UseMode : Nobody[m] = 0
    BY Zenon DEF NoLock, Nobody
  <1> HIDE DEF NoLock, Nobody
  <1>4. Len(<<>>) = 0 /\ 1..0 = {}
    OBVIOUS
  <1>5. WorkerBusy
    BY Zenon, <1>1 DEF WorkerBusy
  <1>6. ASSUME NEW c \in Client PROVE LocalInv(c)
    <2>1. /\ ~ RequestSent(c) /\ ~ RequestQueued(c) /\ ~ GrantSent(c) /\ ~ InvalSent(c)
          /\ FirstInval(c) = 1 /\ ~ InvalAnswered(c) /\ Record(c) = NoEntry
      BY Zenon, <1>1, <1>2, <1>4 DEF RequestSent, RequestQueued, GrantSent, InvalSent, FirstInval,
                              InvalAnswered, Record
    <2>2. ~ InvalQueued(c)
      BY SMT, <1>1, <1>3, <1>4, <2>1 DEF InvalQueued
    <2>3. LockKept(c) /\ OneList(c) /\ GrantThenInval(c) /\ GrantsCovered(c)
      BY Zenon, <1>1, <1>4 DEF LockKept, OneList, GrantThenInval, GrantsCovered
    <2>4. OneRequest(c)
      BY Zenon, <1>1, <1>2, <1>3, <1>4, <2>1 DEF OneRequest
    <2>5. OneInvalidation(c)
      BY SMT, <1>1, <1>2, <1>3, <1>4, <2>1, <2>2 DEF OneInvalidation
    <2>6. InvalidationsCovered(c)
      BY Zenon, <1>1, <1>2, <1>3, <1>4, <2>1 DEF InvalidationsCovered
    <2>7. ModesCovered(c)
      BY Zenon, <1>1, <1>3 DEF ModesCovered, Covers
    <2>8. MountedInv(c)
      BY Zenon, <2>3, <2>4, <2>5, <2>6, <2>7 DEF MountedInv
    <2> QED
      BY SMT, <1>1, <1>3, <2>8 DEF LocalInv, NoLateCallers, lock_counts_match
  <1>7. Exclusion
    BY Zenon, <1>1, <1>3 DEF Exclusion, Exclude, Compatible, Record
  <1> QED
    BY Zenon, <1>5, <1>6, <1>7, LockInvParts

\* Every step of the lock server and of the mounts keeps the invariant.
LEMMA LockStep == TypeOK /\ LockInv /\ [Next]_vars => LockInv'
  <1> SUFFICES ASSUME TypeOK, LockInv, [Next]_vars PROVE LockInv'
    BY Zenon
  <1>1. WorkerBusy
    BY Zenon, LockInvParts
  <1>2. TypeOK' /\ WorkerBusy'
    BY Zenon, <1>1, TypeStep, WorkerStep
  <1>3. CASE UNCHANGED vars
    BY Zenon, <1>2, <1>3, QuietInv DEF vars, serverVars, clientVars
  <1>4. CASE ServerStep /\ UNCHANGED clientVars
    <2>1. CASE ProcessEnd
      BY Zenon, <1>2, <1>4, <2>1, QuietInv DEF ProcessEnd, clientVars
    <2> QED
      BY Zenon, <1>2, <1>4, <2>1, ServerRequestInv, ServerResponseInv, ProcessInvalidateInv,
         ProcessGrantInv DEF ServerStep
  <1>5. ASSUME NEW c \in Client, CallerStep(c), UNCHANGED serverVars PROVE LockInv'
    <2>1. CASE ReadItems(c) \/ WriteItems(c) \/ InodeRefresh(c) \/ InodeEvict(c)
      <3>1. UNCHANGED <<lockVars, netVars>>
        BY Zenon, <2>1 DEF ReadItems, WriteItems, InodeRefresh, InodeEvict
      <3> QED
        BY Zenon, <1>2, <1>5, <3>1, QuietInv DEF serverVars
    <2>2. CASE \E m \in CallModes[c] : LockCall(c, m)
      <3>1. PICK m \in UseMode : LockCall(c, m)
        BY Zenon, <2>2, CallModesAssumption
      <3> QED
        BY Zenon, <1>2, <1>5, <3>1, CallerInv DEF CallerAction
    <2>3. CASE \E m \in UseMode : LockAcquire(c, m) \/ LockGiveUp(c, m) \/ scoutfs_unlock(c, m)
      BY Zenon, <1>2, <1>5, <2>3, CallerInv DEF CallerAction
    <2>4. CASE \E m \in UseMode : LockSend(c, m)
      BY Zenon, <1>2, <1>5, <2>4, SendInv
    <2> QED
      BY Zenon, <1>5, <2>1, <2>2, <2>3, <2>4 DEF CallerStep
  <1>6. ASSUME NEW c \in Client, BackgroundStep(c), UNCHANGED serverVars PROVE LockInv'
    BY Zenon, <1>2, <1>6, GrantInv, InvalidateRequestInv, InvalidateStartInv, InvalidateRespondInv,
       InvalidateFinishInv, ShrinkScanInv, ShrinkSendInv, CommitInv DEF BackgroundStep
  <1>7. ASSUME NEW c \in Client, LeaveStep(c), UNCHANGED serverVars PROVE LockInv'
    BY Zenon, <1>2, <1>7, LeaveInv
  <1>8. ASSUME NEW c \in Client, ReclaimFarewell(c) \/ ReclaimFenced(c) PROVE LockInv'
    BY Zenon, <1>2, <1>8, ReclaimInv
  <1> QED
    BY Zenon, <1>3, <1>4, <1>5, <1>6, <1>7, <1>8 DEF Next

\* Users in modes that exclude each other would have locks in such modes.
LEMMA InvExcludes == TypeOK /\ LockInv => ModeExclusion
  <1> SUFFICES ASSUME TypeOK, LockInv,
                      NEW c \in Client, NEW d \in Client, c # d,
                      NEW m \in UseMode, NEW n \in UseMode,
                      lock[c].users[m] > 0, lock[d].users[n] > 0
               PROVE  Compatible(m, n)
    BY Zenon DEF ModeExclusion
  <1>1. lock_modes_match(lock[c].mode, m) /\ lock_modes_match(lock[d].mode, n)
    BY Zenon DEF LockInv, UsersCovered, lock_counts_match
  <1>2. IsMounted(c) /\ IsMounted(d)
    BY SMT DEF LockInv, NoLateCallers, Nobody
  <1>3. Compatible(lock[c].mode, lock[d].mode)
    BY Zenon, <1>2 DEF LockInv, Exclude
  <1> QED
    BY Zenon, <1>1, <1>3 DEF lock_modes_match, Compatible, UseMode, Mode, NoEntry

\* The invariant holds in every reachable state.
THEOREM LockInvariant == Spec => []LockInv
  <1>1. Init => TypeOK /\ LockInv
    BY Zenon, TypeInit, LockInit
  <1>2. TypeOK /\ LockInv /\ [Next]_vars => (TypeOK /\ LockInv)'
    BY Zenon, TypeStep, LockStep, LockInvParts
  <1> QED
    BY <1>1, <1>2, PTL DEF Spec

\* The lock server enforces mode exclusion: no two mounts ever have users of the
\* lock in modes that exclude each other, whatever callers, shrinkers and lost
\* connections do and however many mounts there are.
THEOREM LockExclusion == Spec => []ModeExclusion
  <1>1. TypeOK /\ LockInv => ModeExclusion
    BY Zenon, InvExcludes
  <1> QED
    BY <1>1, TypeCorrect, LockInvariant, PTL

\* No grant and no invalidation takes the mode of a lock away under a user.
THEOREM UsersKeepMode == Spec => []UsersCovered
  <1>1. LockInv => UsersCovered
    BY Zenon DEF LockInv
  <1> QED
    BY <1>1, LockInvariant, PTL


-----------------------------------------------------------------------------
(* The lock system implements ExclusiveModes                               *)

\* All mounts but one keep their users.
OthersKeepUsers(c) == \A d \in Client \ {c} : lock'[d].users = lock[d].users

\* What a step does to the users of the locks: nothing, one more or one less in one
\* mode of one mount, or none any more when a mount ends.
UsersChange ==
    \/ \A d \in Client : lock'[d].users = lock[d].users
    \/ \E c \in Client :
          /\ OthersKeepUsers(c)
          /\ \/ \E m \in UseMode : lock'[c].users = [lock[c].users EXCEPT ![m] = @ + 1]
             \/ \E m \in UseMode : lock'[c].users = [lock[c].users EXCEPT ![m] = @ - 1]
             \/ lock'[c].users = Nobody

\* Only callers that acquire and unlock, and mounts that end, change users.
LEMMA UsersStep == TypeOK /\ TypeOK' /\ [Next]_vars => UsersChange
  <1> SUFFICES ASSUME TypeOK, [Next]_vars PROVE UsersChange
    OBVIOUS
  <1>0. lock \in [Client -> Lock]
    BY Zenon DEF TypeOK, ClientTypeOK
  <1>1. CASE UNCHANGED lock
    BY Zenon, <1>1 DEF UsersChange
  <1>2. ASSUME NEW c \in Client, NEW new \in Lock, lock' = [lock EXCEPT ![c] = new],
               new.users = lock[c].users
        PROVE  UsersChange
    BY Zenon, <1>0, <1>2 DEF UsersChange
  <1>3. ASSUME NEW c \in Client, NEW new \in Lock, NEW m \in UseMode,
               lock' = [lock EXCEPT ![c] = new],
               \/ new.users = [lock[c].users EXCEPT ![m] = @ + 1]
               \/ new.users = [lock[c].users EXCEPT ![m] = @ - 1]
        PROVE  UsersChange
    BY Zenon, <1>0, <1>3 DEF UsersChange, OthersKeepUsers
  <1>4. ASSUME NEW c \in Client, NEW m \in UseMode, CallerAction(c, m)
        PROVE  UsersChange
    <2> DEFINE l       == lock[c]
               call    == [l EXCEPT !.have = TRUE, !.waiters[m] = @ + 1]
               acquire == [l EXCEPT !.waiters[m] = @ - 1, !.users[m] = @ + 1]
               giveup  == [l EXCEPT !.waiters[m] = @ - 1]
               unlock  == [l EXCEPT !.users[m] = @ - 1, !.wrote = @ \/ lock_mode_can_write(m)]
    <2>0. l \in Lock /\ lock_mode_can_write(m) \in BOOLEAN
      BY <1>0 DEF lock_mode_can_write
    <2>1. CASE LockCall(c, m)
      <3>1. lock' = [lock EXCEPT ![c] = call] /\ call \in Lock /\ call.users = l.users
        BY Zenon, <2>0, <2>1, CountType, CallKeeps DEF LockCall
      <3> HIDE DEF call
      <3> QED
        BY Zenon, <1>2, <3>1
    <2>2. CASE LockAcquire(c, m)
      <3>1. /\ lock' = [lock EXCEPT ![c] = acquire] /\ acquire \in Lock
            /\ acquire.users = [l.users EXCEPT ![m] = @ + 1]
        BY Zenon, <2>0, <2>2, CountType, AcquireKeeps DEF LockAcquire
      <3> HIDE DEF acquire
      <3> QED
        BY Zenon, <1>3, <3>1
    <2>3. CASE LockGiveUp(c, m)
      <3>1. lock' = [lock EXCEPT ![c] = put_lock(giveup)] /\ giveup \in Lock /\ giveup.users = l.users
        BY Zenon, <2>0, <2>3, CountType, GiveUpKeeps DEF LockGiveUp
      <3> HIDE DEF giveup
      <3>2. put_lock(giveup) \in Lock /\ put_lock(giveup).users = l.users
        BY Zenon, <3>1, PutLockType, PutLockKeeps
      <3> QED
        BY Zenon, <1>2, <3>1, <3>2
    <2>4. CASE scoutfs_unlock(c, m)
      <3>1. unlock \in Lock
        BY Zenon, <2>0, <2>4, CountType DEF scoutfs_unlock
      <3>2. lock' = [lock EXCEPT ![c] = put_lock(unlock)]
        BY Zenon, <2>4 DEF scoutfs_unlock
      <3>3. unlock.users = [l.users EXCEPT ![m] = @ - 1]
        BY Zenon, <2>0, UnlockKeeps
      <3> HIDE DEF unlock
      <3>4. put_lock(unlock) \in Lock /\ put_lock(unlock).users = [l.users EXCEPT ![m] = @ - 1]
        BY Zenon, <3>1, <3>3, PutLockType, PutLockKeeps
      <3> QED
        BY Zenon, <1>3, <3>2, <3>4
    <2> QED
      BY Zenon, <1>4, <2>1, <2>2, <2>3, <2>4 DEF CallerAction
  <1>5. ASSUME NEW c \in Client,
               \/ \E m \in UseMode : LockSend(c, m)
               \/ ShrinkScan(c) \/ TransCommit(c) \/ ShutdownTrans(c) \/ ShrinkSend(c)
        PROVE  UsersChange
    <2> DEFINE send == [lock[c] EXCEPT !.pend = TRUE]
               scan == [lock[c] EXCEPT !.pend = TRUE, !.shrink = TRUE]
               done == [lock[c] EXCEPT !.wrote = FALSE]
               off  == [lock[c] EXCEPT !.shrink = FALSE]
               fail == [lock[c] EXCEPT !.shrink = FALSE, !.pend = FALSE]
    <2>1. /\ send \in Lock /\ send.users = lock[c].users
          /\ scan \in Lock /\ scan.users = lock[c].users
          /\ done \in Lock /\ done.users = lock[c].users
          /\ off \in Lock /\ off.users = lock[c].users
          /\ fail \in Lock /\ fail.users = lock[c].users
      BY ZenonT(60), <1>0, UpdateType, FlagKeeps DEF SameCounts
    <2>2. \/ \E n \in {send, scan, done, off} : lock' = [lock EXCEPT ![c] = n]
          \/ lock' = [lock EXCEPT ![c] = put_lock(fail)]
      BY Zenon, <1>5 DEF LockSend, ShrinkScan, TransCommit, ShutdownTrans, ShrinkSend
    <2> HIDE DEF send, scan, done, off, fail
    <2>3. put_lock(fail) \in Lock /\ put_lock(fail).users = lock[c].users
      BY Zenon, <2>1, PutLockType, PutLockKeeps
    <2> QED
      BY Zenon, <1>2, <2>1, <2>2, <2>3
  <1>6. ASSUME NEW c \in Client,
               GrantResponse(c) \/ InvalidateRequest(c) \/ InvalidateStart(c)
               \/ InvalidateRespond(c) \/ InvalidateFinish(c)
        PROVE  UsersChange
    <2> DEFINE rest(n) == n.users = lock[c].users
    <2>1. CASE GrantResponse(c)
      <3> DEFINE msg     == Head(toClient[c])
                 refresh == ~ lock_mode_can_read(msg.old) /\ lock_mode_can_read(msg.new)
                 new     == [lock[c] EXCEPT !.pend = FALSE, !.mode = msg.new, !.gen = @ \/ refresh]
      <3>1. new \in Lock
        <4>1. msg \in ClientMsg
          BY <2>1 DEF GrantResponse, TypeOK, NetTypeOK
        <4>2. refresh \in BOOLEAN
          BY Zenon DEF lock_mode_can_read
        <4> HIDE DEF msg, refresh
        <4> QED
          BY Zenon, <1>0, <4>1, <4>2, UpdateType DEF ClientMsg
      <3>2. new.users = lock[c].users
        BY <1>0 DEF Lock
      <3>3. lock' = [lock EXCEPT ![c] = put_lock(new)]
        BY Zenon, <2>1 DEF GrantResponse
      <3> HIDE DEF new
      <3> QED
        BY Zenon, <1>2, <3>1, <3>2, <3>3, PutLockType, PutLockKeeps
    <2>2. CASE InvalidateRespond(c)
      BY Zenon, <1>1, <2>2 DEF InvalidateRespond
    <2>3. ASSUME NEW s, lock' = [lock EXCEPT ![c] = [lock[c] EXCEPT !.invs = s]]
          PROVE  UsersChange
      BY Zenon, <1>0, <2>3 DEF UsersChange, Lock
    <2>4. CASE InvalidateRequest(c)
      BY Zenon, <1>1, <2>3, <2>4 DEF InvalidateRequest
    <2>5. CASE InvalidateStart(c)
      BY Zenon, <1>0, <2>5 DEF InvalidateStart, UsersChange, Lock
    <2>6. CASE InvalidateFinish(c)
      <3> DEFINE new == [lock[c] EXCEPT !.inving = "null", !.invs = Tail(lock[c].invs)]
      <3>1. new.users = lock[c].users
        BY Zenon, <1>0 DEF Lock
      <3>2. lock' = [lock EXCEPT ![c] = put_lock(new)]
        BY Zenon, <2>6 DEF InvalidateFinish
      <3> HIDE DEF new
      <3>3. put_lock(new).users = lock[c].users
        BY Zenon, <3>1 DEF put_lock, lock_idle, NoLock
      <3> QED
        BY Zenon, <1>0, <3>2, <3>3 DEF UsersChange
    <2> QED
      BY Zenon, <1>6, <2>1, <2>2, <2>4, <2>5, <2>6
  <1>7. ASSUME NEW c \in Client, NEW how, Vanish(c, how)
        PROVE  UsersChange
    BY Zenon, <1>0, <1>7 DEF Vanish, UsersChange, OthersKeepUsers, NoLock
  <1>8. CASE UNCHANGED clientVars
    BY Zenon, <1>1, <1>8 DEF clientVars, lockVars
  <1>9. ASSUME NEW c \in Client, CallerStep(c) PROVE UsersChange
    BY Zenon, <1>9, <1>1, <1>4, <1>5, CallModesAssumption
    DEF CallerStep, CallerAction, ReadItems, WriteItems, InodeRefresh, InodeEvict, lockVars
  <1>10. ASSUME NEW c \in Client, BackgroundStep(c) PROVE UsersChange
    BY Zenon, <1>10, <1>5, <1>6 DEF BackgroundStep
  <1>11. ASSUME NEW c \in Client, LeaveStep(c) PROVE UsersChange
    BY Zenon, <1>11, <1>1, <1>5, <1>7
    DEF LeaveStep, LockShutdown, LoseClient, FarewellResponse, FenceClient, lockVars
  <1>12. ASSUME NEW c \in Client, ReclaimFarewell(c) \/ ReclaimFenced(c) PROVE UsersChange
    BY Zenon, <1>12, <1>1 DEF ReclaimFarewell, ReclaimFenced, clientVars, lockVars
  <1> QED
    BY Zenon, <1>8, <1>9, <1>10, <1>11, <1>12 DEF Next, vars

\* A step that keeps mode exclusion is a step of ExclusiveModes, or changes nothing there.
LEMMA ModesStep ==
  ASSUME TypeOK, TypeOK', ModeExclusion', UsersChange
  PROVE  [Modes!Next]_Using
  <1>1. /\ \A d \in Client : lock[d].users \in [UseMode -> Nat]
        /\ \A d \in Client : lock'[d].users \in [UseMode -> Nat]
    BY Zenon DEF TypeOK, ClientTypeOK, Lock
  <1>0. /\ Modes!UseMode = UseMode
        /\ \A a, b : Compatible(a, b) => Modes!Compatible(a, b)
    BY DEF UseMode, Mode, Compatible, NoEntry,
           Modes!UseMode, Modes!Mode, Modes!Compatible, Modes!NoEntry
  <1>2. CASE \A d \in Client : lock'[d].users = lock[d].users
    BY <1>2 DEF Using
  <1>3. ASSUME NEW c \in Client, OthersKeepUsers(c), NEW m \in UseMode,
               lock'[c].users = [lock[c].users EXCEPT ![m] = @ + 1]
        PROVE  [Modes!Next]_Using
    <2>1. \A k \in UseMode : lock'[c].users[k] = IF k = m THEN lock[c].users[m] + 1 ELSE lock[c].users[k]
      BY <1>1, <1>3
    <2>2. \A k \in UseMode : lock'[c].users[k] > 0 <=> lock[c].users[k] > 0 \/ k = m
      BY <1>1, <2>1
    <2>3. Using' = [Using EXCEPT ![c] = @ \cup {m}]
      <3>1. Using[c]' = Using[c] \cup {m}
        BY <2>2 DEF Using
      <3>2. \A d \in Client \ {c} : Using[d]' = Using[d]
        BY <1>3 DEF Using, OthersKeepUsers
      <3> QED
        BY Zenon, <3>1, <3>2 DEF Using
    <2>4. \A d \in Client \ {c} : \A n \in Using[d] : Compatible(m, n)
      BY Zenon, <1>3, <2>2 DEF ModeExclusion, Using, OthersKeepUsers
    <2>5. CASE m \in Using[c]
      BY Zenon, <2>3, <2>5 DEF Using
    <2>6. CASE m \notin Using[c]
      BY Zenon, <1>0, <2>3, <2>4, <2>6 DEF Modes!Next, Modes!Acquire
    <2> QED
      BY Zenon, <2>5, <2>6
  <1>4. ASSUME NEW c \in Client, OthersKeepUsers(c), NEW m \in UseMode,
               lock'[c].users = [lock[c].users EXCEPT ![m] = @ - 1]
        PROVE  [Modes!Next]_Using
    <2>1. \A k \in UseMode : lock'[c].users[k] = IF k = m THEN lock[c].users[m] - 1 ELSE lock[c].users[k]
      BY <1>1, <1>4
    <2>2. \A k \in UseMode : k # m => (lock'[c].users[k] > 0 <=> lock[c].users[k] > 0)
      BY <2>1
    <2>3. lock[c].users[m] > 0
      BY <1>1, <2>1
    <2>4. CASE lock'[c].users[m] > 0
      BY Zenon, <1>4, <2>2, <2>3, <2>4 DEF Using, OthersKeepUsers
    <2>5. CASE ~ (lock'[c].users[m] > 0)
      <3>1. Using' = [Using EXCEPT ![c] = @ \ {m}]
        BY Zenon, <1>4, <2>2, <2>5 DEF Using, OthersKeepUsers
      <3>2. m \in Using[c]
        BY <2>3 DEF Using
      <3> QED
        BY Zenon, <1>0, <3>1, <3>2 DEF Modes!Next, Modes!Release
    <2> QED
      BY Zenon, <2>4, <2>5
  <1>5. ASSUME NEW c \in Client, OthersKeepUsers(c), lock'[c].users = Nobody
        PROVE  [Modes!Next]_Using
    <2>1. Using' = [Using EXCEPT ![c] = {}]
      <3>1. Using[c]' = {}
        BY <1>5 DEF Using, Nobody
      <3>2. \A d \in Client \ {c} : Using[d]' = Using[d]
        BY <1>5 DEF Using, OthersKeepUsers
      <3> QED
        BY Zenon, <3>1, <3>2 DEF Using
    <2> QED
      BY Zenon, <1>5, <2>1 DEF Modes!Next, Modes!Leave
  <1> QED
    BY Zenon, <1>2, <1>3, <1>4, <1>5 DEF UsersChange

\* The lock server, the lock clients and the messages between them implement the
\* abstract lock, for any number of mounts and callers: in every step that lets a
\* caller use a new mode, the mode goes with all that other mounts use.
THEOREM LockRefinement == Spec => ImplementsModes
  <1>1. Init => Modes!Init
    BY DEF Init, ClientInit, NoLock, Nobody, Using, Modes!Init
  <1>2. TypeOK /\ TypeOK' /\ ModeExclusion' /\ [Next]_vars => [Modes!Next]_Using
    BY Zenon, UsersStep, ModesStep
  <1> QED
    BY <1>1, <1>2, TypeCorrect, LockExclusion, PTL DEF Spec, ImplementsModes, Modes!Spec

=============================================================================
