------------------------ MODULE InodeDeletion_proofs ------------------------
(***************************************************************************)
(* The proofs about InodeDeletion: one task deletes at a time, under the   *)
(* write lock, orphan items follow nlink, and, when the server handles no  *)
(* omap request between the two parts of a greeting, nothing is deleted    *)
(* that a mount uses.                                                      *)
(***************************************************************************)
EXTENDS InodeDeletion, TLAPS

-----------------------------------------------------------------------------
(* The cluster lock. *)

\* No task of another mount holds the lock over its steps when a mount is granted it.
LEMMA GrantExcludes ==
    ASSUME DeletionInv, NEW m \in Mount, NEW want \in {"read", "write"}, CanLock(m, want)
    PROVE  /\ Runs(m)
           /\ \A p \in Mount \ {m} : ~ Held(p)
<1>1. Runs(m) BY DEF CanLock, Runs
<1>2. SUFFICES ASSUME NEW p \in Mount \ {m}, Held(p) PROVE FALSE BY <1>1
<1>3. mode[p] = "write" BY <1>2 DEF DeletionInv, TasksRun
<1>4. mode[m] = "null" BY <1>3 DEF DeletionInv, LockedItems
<1>5. Invalidated("write", want) # "write" BY DEF Invalidated
<1>6. QED BY <1>2, <1>3, <1>4, <1>5 DEF CanLock, Covers

\* The modes after a grant exclude each other as before.
LEMMA GrantModes ==
    ASSUME DeletionInv, NEW m \in Mount, NEW want \in {"read", "write"}, CanLock(m, want)
    PROVE  /\ GrantedModes(m, want) \in [Mount -> Modes]
           /\ GrantedModes(m, want)[m] \in {want, "write"}
           /\ \A p \in Mount \ {m} : GrantedModes(m, want)[p] # "write"
           /\ GrantedModes(m, want)[m] = "write" =>
                 \A p \in Mount \ {m} : GrantedModes(m, want)[p] = "null"
           /\ mode[m] = "write" => GrantedModes(m, want) = mode
           /\ dirty # None /\ dirty # m => Committed(m, want)
<1>1. mode \in [Mount -> Modes] /\ dirty \in Mount \cup {None} BY DEF DeletionInv, TypeOK
<1>2. \A p, o \in Mount : mode[p] = "write" /\ o # p => mode[o] = "null"
      BY DEF DeletionInv, LockedItems
<1>3. dirty # None => mode[dirty] = "write" BY DEF DeletionInv, LockedItems
<1>4. CASE Covers(mode[m], want)
  <2>1. GrantedModes(m, want) = mode BY <1>4 DEF GrantedModes
  <2>2. mode[m] \in {want, "write"} BY <1>4 DEF Covers
  <2>3. \A p \in Mount \ {m} : mode[p] # "write" BY <1>2, <2>2
  <2>4. dirty = None \/ dirty = m BY <1>1, <1>3, <2>3
  <2>5. QED BY <1>1, <1>2, <2>1, <2>2, <2>3, <2>4
<1>5. CASE ~ Covers(mode[m], want)
  <2>1. GrantedModes(m, want) = [o \in Mount |-> IF o = m THEN want ELSE Invalidated(mode[o], want)]
        BY <1>5 DEF GrantedModes
  <2>2. \A o \in Mount : Invalidated(mode[o], want) \in {"null", "read"}
        BY <1>1 DEF Invalidated, Modes
  <2>3. want = "write" => \A o \in Mount : Invalidated(mode[o], want) = "null"
        BY DEF Invalidated
  <2>4. mode[m] # want /\ mode[m] # "write" BY <1>5 DEF Covers
  <2>5. GrantedModes(m, want)[m] = want BY <2>1
  <2>6. GrantedModes(m, want) # mode BY <2>4, <2>5
  <2>7. GrantedModes(m, want) \in [Mount -> Modes] BY <2>1, <2>2 DEF Modes
  <2>8. \A p \in Mount \ {m} : GrantedModes(m, want)[p] = Invalidated(mode[p], want) BY <2>1
  <2>9. dirty # None /\ dirty # m => Committed(m, want) BY <2>6 DEF Committed
  <2>10. QED BY <2>2, <2>3, <2>4, <2>5, <2>7, <2>8, <2>9
<1>6. QED BY <1>4, <1>5

\* A grant changes nothing of an inode but whether a lock covers it.
LEMMA GrantVino ==
    ASSUME TypeOK, NEW m \in Mount, NEW want
    PROVE  /\ GrantedVino(m, want) \in [Mount -> Vino]
           /\ \A p \in Mount :
                 /\ GrantedVino(m, want)[p].st = vino[p].st
                 /\ GrantedVino(m, want)[p].open = vino[p].open
                 /\ GrantedVino(m, want)[p].nlink = vino[p].nlink
                 /\ GrantedVino(m, want)[p].linked = vino[p].linked
                 /\ GrantedVino(m, want)[p].linkable = vino[p].linkable
<1> DEFINE cov(o) == vino[o].cov /\ GrantedModes(m, want)[o] # "null"
<1>1. vino \in [Mount -> Vino] BY DEF TypeOK
<1>2. GrantedVino(m, want) = [o \in Mount |-> [vino[o] EXCEPT !.cov = cov(o)]] BY DEF GrantedVino
<1>3. \A o \in Mount : cov(o) \in BOOLEAN OBVIOUS
<1> HIDE DEF cov
<1>4. GrantedVino(m, want) \in [Mount -> Vino]
  <2>1. ASSUME NEW p \in Mount PROVE [vino[p] EXCEPT !.cov = cov(p)] \in Vino
        BY <1>1, <1>3 DEF Vino
  <2>2. QED BY Zenon, <1>2, <2>1
<1>5. ASSUME NEW p \in Mount
      PROVE  /\ GrantedVino(m, want)[p].st = vino[p].st
             /\ GrantedVino(m, want)[p].open = vino[p].open
             /\ GrantedVino(m, want)[p].nlink = vino[p].nlink
             /\ GrantedVino(m, want)[p].linked = vino[p].linked
             /\ GrantedVino(m, want)[p].linkable = vino[p].linkable
  <2>1. GrantedVino(m, want)[p] = [vino[p] EXCEPT !.cov = cov(p)] BY <1>2
  <2>2. vino[p] \in Vino BY <1>1
  <2>3. QED BY <2>1, <2>2 DEF Vino
<1>6. QED BY <1>4, <1>5

\* A new grant of the lock makes its data stale.
LEMMA GrantMap ==
    ASSUME DeletionInv, NEW m \in Mount, NEW want \in {"read", "write"}, CanLock(m, want)
    PROVE  /\ GrantedMap(m, want) \in [Mount -> {"stale", "asking", "clear", "set"}]
           /\ \A p \in Mount \ {m} : GrantedMap(m, want)[p] = map[p]
           /\ mode[m] = "write" => GrantedMap(m, want) = map
           /\ mode[m] # "write" /\ GrantedModes(m, want)[m] = "write" =>
                 GrantedMap(m, want)[m] = "stale"
<1>1. map \in [Mount -> {"stale", "asking", "clear", "set"}] BY DEF DeletionInv, TypeOK
<1>2. mode[m] # "write" /\ GrantedModes(m, want)[m] = "write" => ~ Covers(mode[m], want)
      BY DEF Covers, GrantedModes
<1>3. mode[m] = "write" => Covers(mode[m], want) BY DEF Covers
<1>4. QED BY <1>1, <1>2, <1>3 DEF GrantedMap

-----------------------------------------------------------------------------
(* What a step leaves alone. *)

\* A step that leaves the state of a mount's tasks.
LEMMA TasksFrame ==
    ASSUME NEW p \in Mount, TasksRun(p), try'[p] = try[p], vino'[p].st = vino[p].st,
           found'[p] = found[p], mode'[p] = mode[p], map'[p] = map[p], trying'[p] = trying[p],
           mount'[p] = mount[p]
    PROVE  TasksRun(p)'
BY DEF TasksRun, Runs, Held

\* A step that leaves what a deletion rests on.
LEMMA DeleterFrame ==
    ASSUME NEW p \in Mount, DeleterAlone(p), item' = item, \A o \in Mount : InUse(o)' => InUse(o),
           \A x \in Task : try'[p][x] = "delete" => try[p][x] = "delete",
           vino'[p].st = "cached" => vino[p].st = "cached",
           vino'[p].nlink = vino[p].nlink, vino'[p].linkable = vino[p].linkable
    PROVE  DeleterAlone(p)'
BY DEF DeleterAlone

\* A step that leaves a mount's map and requests, and puts no inode in use.
LEMMA MapsFrame ==
    ASSUME NEW p \in Mount, MapsTrue(p), mode'[p] = "write" => mode[p] = "write",
           map'[p] = map[p], Runs(p)' => Runs(p), \A o \in Mount : InUse(o)' => InUse(o),
           \A x \in Task : try'[p][x] = try[p][x], \A x \in Task : req'[p][x] = req[p][x]
    PROVE  MapsTrue(p)'
<1>1. mode'[p] = "write" /\ map'[p] = "clear" => \A o \in Mount \ {p} : ~ InUse(o)' BY DEF MapsTrue
<1>2. ASSUME NEW x \in Task
      PROVE  /\ Runs(p)' /\ try'[p][x] \notin {"wait", "scanwait"} => req'[p][x] = NoReq
             /\ req'[p][x].st \in {"sent", "queued"} => req'[p][x].ask = {} /\ req'[p][x].answer = {}
      BY DEF MapsTrue
<1>3. ASSUME NEW x \in Task, NEW o \in Mount \ {p}, try'[p][x] = "wait", InUse(o)'
      PROVE  /\ req'[p][x].st # "clear"
             /\ req'[p][x].st = "collect" =>
                   req'[p][x].bits \/ (o \in req'[p][x].wait /\ o \notin req'[p][x].answer)
      BY <1>3 DEF MapsTrue
<1>4. QED BY <1>1, <1>2, <1>3, Zenon DEF MapsTrue

\* A step that leaves the items, the lock and the mounts, and puts no inode in the cache.
LEMMA LockedFrame ==
    ASSUME LockedItems, item' = item, stable' = stable, dirty' = dirty, mode' = mode,
           \A o \in Mount : Runs(o) => Runs(o)',
           \A o \in Mount : (InUse(o)' => InUse(o)) /\ (Known(o)' => Known(o)), TypeOK
    PROVE  LockedItems'
BY DEF LockedItems, TypeOK

\* A task takes a step.
LEMMA TryPut ==
    ASSUME TypeOK, NEW m \in Mount, NEW x \in Task,
           NEW s \in {"idle", "ask", "scanwait", "lock", "data", "wait", "test", "delete"},
           try' = [try EXCEPT ![m][x] = s]
    PROVE  /\ try' \in [Mount -> [Task -> {"idle", "ask", "scanwait", "lock", "data", "wait", "test", "delete"}]]
           /\ try'[m][x] = s
           /\ \A y \in Task : y # x => try'[m][y] = try[m][y]
           /\ \A p \in Mount \ {m} : try'[p] = try[p]
<1>1. try \in [Mount -> [Task -> {"idle", "ask", "scanwait", "lock", "data", "wait", "test", "delete"}]]
      BY Zenon DEF TypeOK
<1>2. QED BY <1>1

\* What the tasks of a mount that runs have sent: nothing, unless they wait for it.
LEMMA NothingSent ==
    ASSUME DeletionInv, NEW m \in Mount, NEW x \in Task,
           try[m][x] \notin {"idle", "wait", "scanwait"}
    PROVE  Runs(m) /\ req[m][x] = NoReq
<1>1. Runs(m) BY DEF DeletionInv, TasksRun
<1>2. QED BY <1>1 DEF DeletionInv, MapsTrue

-----------------------------------------------------------------------------
(* Commits, and the requests for open ino maps. *)

\* A transaction is committed.
LEMMA CommitInv ==
    ASSUME DeletionInv, Commit
    PROVE  DeletionInv'
<1>i. /\ TypeOK /\ BitsMatchCache /\ OrphanTracked /\ UsedNotDeleted /\ LockedItems
      /\ \A p \in Mount : TasksRun(p) /\ DeleterAlone(p) /\ MapsTrue(p)
      BY Zenon DEF DeletionInv
<1>u. /\ dirty # None
      /\ stable' = item
      /\ dirty' = None
      /\ UNCHANGED <<item, merged, mode, vino, bit, found, map, trying, try, req,
                     mount, rids, recov, failovers>>
      BY Zenon DEF Commit, vars, itemVars, cacheVars, tryVars, serverVars
<1>1. TypeOK' BY <1>i, <1>u DEF TypeOK
<1>2. BitsMatchCache' BY <1>i, <1>u, Zenon DEF BitsMatchCache
<1>3. OrphanTracked' BY <1>i, <1>u DEF OrphanTracked
<1>4. UsedNotDeleted' BY <1>i, <1>u, Zenon DEF UsedNotDeleted, InUse
<1>5. LockedItems'
  <2>1. \A p \in Mount : (InUse(p)' <=> InUse(p)) /\ (Known(p)' <=> Known(p))
        BY <1>u, Zenon DEF InUse, Known
  <2>2. \A p \in Mount : InUse(p) => item.st = "live" BY <1>i DEF UsedNotDeleted, InUse
  <2>3. QED BY <1>i, <1>u, <2>1, <2>2 DEF LockedItems
<1>6. ASSUME NEW p \in Mount PROVE TasksRun(p)' /\ DeleterAlone(p)' /\ MapsTrue(p)'
  <2>i. TasksRun(p) /\ DeleterAlone(p) /\ MapsTrue(p) BY <1>i
  <2>1. TasksRun(p)' BY <1>u, <2>i, TasksFrame, Zenon
  <2>2. DeleterAlone(p)' BY <1>u, <2>i, DeleterFrame, Zenon DEF InUse
  <2>3. MapsTrue(p)' BY <1>u, <2>i, MapsFrame, Zenon DEF InUse, Runs
  <2>4. QED BY <2>1, <2>2, <2>3, Zenon
<1>7. QED BY <1>1, <1>2, <1>3, <1>4, <1>5, <1>6, Zenon DEF DeletionInv

\* A log merge moves the orphan item.
LEMMA MergeInv ==
    ASSUME DeletionInv, Merge
    PROVE  DeletionInv'
<1>i. /\ TypeOK /\ BitsMatchCache /\ OrphanTracked /\ UsedNotDeleted /\ LockedItems
      /\ \A p \in Mount : TasksRun(p) /\ DeleterAlone(p) /\ MapsTrue(p)
      BY Zenon DEF DeletionInv
<1>u. /\ merged' = stable.orphan
      /\ UNCHANGED <<item, stable, dirty, mode, vino, bit, found, map, trying, try,
                     req, mount, rids, recov, failovers>>
      BY Zenon DEF Merge, vars, itemVars, cacheVars, tryVars, serverVars
<1>1. TypeOK'
  <2>1. stable.orphan \in BOOLEAN BY <1>i DEF TypeOK, Item
  <2>2. merged' \in BOOLEAN BY <1>u, <2>1, Zenon
  <2>3. QED BY <1>i, <1>u, <2>2, Zenon DEF TypeOK
<1>2. BitsMatchCache' BY <1>i, <1>u, Zenon DEF BitsMatchCache
<1>3. OrphanTracked' BY <1>i, <1>u, Zenon DEF OrphanTracked
<1>4. UsedNotDeleted' BY <1>i, <1>u, Zenon DEF UsedNotDeleted, InUse
<1>5. LockedItems' BY <1>i, <1>u, LockedFrame, Zenon DEF InUse, Known, Runs
<1>6. ASSUME NEW p \in Mount PROVE TasksRun(p)' /\ DeleterAlone(p)' /\ MapsTrue(p)'
  <2>i. TasksRun(p) /\ DeleterAlone(p) /\ MapsTrue(p) BY <1>i
  <2>1. TasksRun(p)' BY <1>u, <2>i, TasksFrame, Zenon
  <2>2. DeleterAlone(p)' BY <1>u, <2>i, DeleterFrame, Zenon DEF InUse
  <2>3. MapsTrue(p)' BY <1>u, <2>i, MapsFrame, Zenon DEF InUse, Runs
  <2>4. QED BY <2>1, <2>2, <2>3, Zenon
<1>7. QED BY <1>1, <1>2, <1>3, <1>4, <1>5, <1>6, Zenon DEF DeletionInv

\* A step that only changes a request that is on its way, and doesn't forget who uses the inode.
LEMMA ReqStep ==
    ASSUME DeletionInv, NEW m \in Mount, NEW x \in Task, NEW r \in Req,
           req' = [req EXCEPT ![m][x] = r],
           UNCHANGED <<item, stable, dirty, merged, mode, vino, bit, found, map, trying, try>>,
           UNCHANGED <<mount, rids, recov, failovers>>,
           req[m][x] # NoReq,
           r.st \in {"sent", "queued"} => r.ask = {} /\ r.answer = {},
           \A o \in Mount \ {m} : try[m][x] = "wait" /\ InUse(o) =>
              /\ r.st # "clear"
              /\ r.st = "collect" => r.bits \/ (o \in r.wait /\ o \notin r.answer)
    PROVE  DeletionInv'
<1>i. /\ TypeOK /\ BitsMatchCache /\ OrphanTracked /\ UsedNotDeleted /\ LockedItems
      /\ \A p \in Mount : TasksRun(p) /\ DeleterAlone(p) /\ MapsTrue(p)
      BY Zenon DEF DeletionInv
<1>u. /\ UNCHANGED <<item, stable, dirty, merged, mode, vino, bit, found, map, trying,
                     try, mount, rids, recov, failovers>>
      BY Zenon DEF NoReq, vars, itemVars, cacheVars, tryVars, serverVars
<1>r. /\ req' \in [Mount -> [Task -> Req]]
      /\ \A p \in Mount, y \in Task : p # m \/ y # x => req'[p][y] = req[p][y]
      /\ req'[m][x] = r
        <2>1. req \in [Mount -> [Task -> Req]] BY <1>i, Zenon DEF TypeOK
  <2>2. req' = [req EXCEPT ![m][x] = r] OBVIOUS
  <2>3. req' \in [Mount -> [Task -> Req]] BY <2>1, <2>2
  <2>4. req'[m][x] = r BY <2>1, <2>2
  <2>5. ASSUME NEW p \in Mount, NEW y \in Task, p # m \/ y # x PROVE req'[p][y] = req[p][y]
        BY <2>1, <2>2, <2>5
  <2>6. QED BY <2>3, <2>4, <2>5, Zenon
<1>1. TypeOK' BY <1>i, <1>u, <1>r, Zenon DEF TypeOK
<1>2. BitsMatchCache' BY <1>i, <1>u, Zenon DEF BitsMatchCache
<1>3. OrphanTracked' BY <1>i, <1>u, Zenon DEF OrphanTracked
<1>4. UsedNotDeleted' BY <1>i, <1>u, Zenon DEF UsedNotDeleted, InUse
<1>5. LockedItems' BY <1>i, <1>u, LockedFrame, Zenon DEF InUse, Known, Runs
<1>6. ASSUME NEW p \in Mount PROVE TasksRun(p)' /\ DeleterAlone(p)' /\ MapsTrue(p)'
  <2>i. TasksRun(p) /\ DeleterAlone(p) /\ MapsTrue(p) BY <1>i
  <2>1. TasksRun(p)' BY <1>u, <2>i, TasksFrame, Zenon
  <2>2. DeleterAlone(p)' BY <1>u, <2>i, DeleterFrame, Zenon DEF InUse
  <2>3. MapsTrue(p)'
    <3>1. CASE p # m
      <4>1. \A y \in Task : req'[p][y] = req[p][y] BY <1>r, <3>1
      <4>2. QED BY <1>u, <2>i, <4>1, MapsFrame, Zenon DEF Runs, InUse
    <3>2. CASE p = m
      <4>1. \A y \in Task : y # x => req'[p][y] = req[p][y] BY <1>r, <3>2
      <4>2. req[p][x] # NoReq BY <3>2
      <4>3. req'[p][x] = r BY <1>r, <3>2
      <4>4. \A o \in Mount : InUse(o)' <=> InUse(o) BY <1>u, Zenon DEF InUse
      <4>5. Runs(p)' <=> Runs(p) BY <1>u, Zenon DEF Runs
      <4>6. \A y \in Task : Runs(p)' /\ try'[p][y] \notin {"wait", "scanwait"} => req'[p][y] = NoReq
            BY <1>u, <2>i, <3>2, <4>1, <4>2, <4>5 DEF MapsTrue
      <4>7. \A y \in Task : req'[p][y].st \in {"sent", "queued"} =>
               req'[p][y].ask = {} /\ req'[p][y].answer = {}
            BY <2>i, <4>1, <4>3 DEF MapsTrue
      <4>8. ASSUME NEW y \in Task, NEW o \in Mount \ {p}, try'[p][y] = "wait", InUse(o)'
            PROVE  /\ req'[p][y].st # "clear"
                   /\ req'[p][y].st = "collect" =>
                         req'[p][y].bits \/ (o \in req'[p][y].wait /\ o \notin req'[p][y].answer)
            BY <1>u, <2>i, <3>2, <4>1, <4>3, <4>4, <4>8 DEF MapsTrue
      <4>9. mode'[p] = "write" /\ map'[p] = "clear" => \A o \in Mount \ {p} : ~ InUse(o)'
            BY <1>u, <2>i, <4>4, Zenon DEF MapsTrue
      <4>10. QED BY <4>6, <4>7, <4>8, <4>9, Zenon DEF MapsTrue
    <3>3. QED BY <3>1, <3>2
  <2>4. QED BY <2>1, <2>2, <2>3, Zenon
<1>7. QED BY <1>1, <1>2, <1>3, <1>4, <1>5, <1>6, Zenon DEF DeletionInv

\* What a request waits for isn't lost when one of the clients no longer counts.
LEMMA ContributedFacts ==
    ASSUME NEW r \in Req, NEW o \in Mount, NEW b \in BOOLEAN
    PROVE  /\ Contributed(r, o, b) \in Req
           /\ r.st # "collect" => Contributed(r, o, b) = r
           /\ r.st = "collect" => Contributed(r, o, b).st \in {"collect", "clear", "set"}
           /\ \A u \in Mount :
                 /\ r.st = "collect"
                 /\ r.bits \/ (u \in r.wait /\ u \notin r.answer)
                 /\ u # o \/ b \/ r.bits
                 => /\ Contributed(r, o, b).st # "clear"
                    /\ Contributed(r, o, b).st = "collect" =>
                          \/ Contributed(r, o, b).bits
                          \/ u \in Contributed(r, o, b).wait /\ u \notin Contributed(r, o, b).answer
<1> DEFINE left == r.wait \ {o}
           bits == r.bits \/ b
<1>0. bits \in BOOLEAN /\ left \in SUBSET Mount BY DEF Req
<1>1. CASE r.st # "collect" \/ o \notin r.wait
  <2>1. Contributed(r, o, b) = r BY <1>1 DEF Contributed
  <2>2. QED BY <2>1
<1>2. CASE r.st = "collect" /\ o \in r.wait /\ left # {}
  <2>1. Contributed(r, o, b) = [r EXCEPT !.wait = left, !.bits = bits] BY <1>2 DEF Contributed
  <2> HIDE DEF left, bits
  <2>2. Contributed(r, o, b) \in Req BY Zenon, <1>0, <2>1 DEF Req
  <2>3. /\ Contributed(r, o, b).st = "collect"
        /\ Contributed(r, o, b).bits = bits
        /\ Contributed(r, o, b).wait = left
        /\ Contributed(r, o, b).answer = r.answer
        BY <1>2, <2>1 DEF Req
  <2>4. QED BY Zenon, <1>2, <2>2, <2>3 DEF left, bits
<1>3. CASE r.st = "collect" /\ o \in r.wait /\ left = {}
  <2>1. Contributed(r, o, b) = [NoReq EXCEPT !.st = IF bits THEN "set" ELSE "clear"]
        BY <1>3 DEF Contributed
  <2>2. Contributed(r, o, b) \in Req BY Zenon, <2>1 DEF NoReq, Req
  <2>3. Contributed(r, o, b).st = IF bits THEN "set" ELSE "clear" BY <2>1 DEF NoReq
  <2>4. \A u \in Mount : u \in r.wait /\ u # o => FALSE BY <1>3
  <2>5. QED BY <1>3, <2>2, <2>3, <2>4
<1>4. QED BY <1>1, <1>2, <1>3

\* A request that isn't there has no parts on their way.
LEMMA ReqThere ==
    ASSUME DeletionInv, NEW m \in Mount, NEW x \in Task
    PROVE  /\ req[m][x] \in Req
           /\ req[m][x].st \in {"sent", "queued"} => req[m][x].ask = {} /\ req[m][x].answer = {}
           /\ \A o \in Mount \ {m} : try[m][x] = "wait" /\ InUse(o) =>
                 /\ req[m][x].st # "clear"
                 /\ req[m][x].st = "collect" =>
                       req[m][x].bits \/ (o \in req[m][x].wait /\ o \notin req[m][x].answer)
<1>1. req \in [Mount -> [Task -> Req]] BY Zenon DEF DeletionInv, TypeOK
<1>2. MapsTrue(m) BY Zenon DEF DeletionInv
<1>3. req[m][x] \in Req BY <1>1, Zenon
<1>4. QED BY <1>2, <1>3, Zenon DEF MapsTrue

\* The server queues a request.
LEMMA ServerOpenInoMapInv ==
    ASSUME DeletionInv, NEW m \in Mount, NEW x \in Task, ServerOpenInoMap(m, x)
    PROVE  DeletionInv'
<1> DEFINE r == [req[m][x] EXCEPT !.st = "queued"]
<1>1. /\ req[m][x].st = "sent" /\ req' = [req EXCEPT ![m][x] = r]
      /\ UNCHANGED <<item, stable, dirty, merged, mode, vino, bit, found, map, trying, try>>
      /\ UNCHANGED <<mount, rids, recov, failovers>>
      BY DEF ServerOpenInoMap, vars, itemVars, cacheVars, tryVars, serverVars
<1>2. r \in Req /\ r.st = "queued" /\ r.ask = {} /\ r.answer = {}
      BY <1>1, ReqThere DEF Req
<1> HIDE DEF r
<1>3. req[m][x] # NoReq BY <1>1 DEF NoReq
<1>4. r.st \notin {"clear", "collect"} BY <1>2
<1>5. QED BY <1>1, <1>2, <1>3, <1>4, ReqStep, Zenon

\* handle_request() asks every mount that uses the inode: all that run are in the list.
LEMMA HandleRequestInv ==
    ASSUME DeletionInv, NEW m \in Mount, NEW x \in Task, handle_request(m, x), PromptGreetings
    PROVE  DeletionInv'
<1> DEFINE ask == OtherRids(m)
           r == [req[m][x] EXCEPT !.st = IF rids = {m} THEN "clear" ELSE "collect",
                                  !.ask = ask, !.wait = ask]
           e == [NoReq EXCEPT !.st = "error"]
<1>1. /\ req[m][x].st = "queued" /\ recov = {}
      /\ req' = [req EXCEPT ![m][x] = r] \/ req' = [req EXCEPT ![m][x] = e]
      /\ UNCHANGED <<item, stable, dirty, merged, mode, vino, bit, found, map, trying, try>>
      /\ UNCHANGED <<mount, rids, recov, failovers>>
      BY DEF handle_request, vars, itemVars, cacheVars, tryVars, serverVars
<1>2. req[m][x] \in Req /\ req[m][x].answer = {} BY <1>1, ReqThere
<1>3. rids \in SUBSET Mount /\ req \in [Mount -> [Task -> Req]] BY DEF DeletionInv, TypeOK
<1>4. /\ e \in Req /\ e.st = "error"
      /\ r \in Req /\ r.st = (IF rids = {m} THEN "clear" ELSE "collect")
      /\ r.wait = rids \ {m} /\ r.answer = {}
      BY Zenon, <1>2, <1>3 DEF NoReq, Req, OtherRids
<1> HIDE DEF r, e
<1>9. req[m][x] # NoReq BY <1>1 DEF NoReq
<1>5. CASE req' = [req EXCEPT ![m][x] = e]
  <2>1. e.st \notin {"clear", "collect", "sent", "queued"} BY <1>4
  <2>2. QED BY <1>1, <1>4, <1>5, <1>9, <2>1, ReqStep, Zenon
<1>6. CASE req' = [req EXCEPT ![m][x] = r]
  <2>1. req'[m][x].st \notin {"queued", "sent"} BY <1>3, <1>4, <1>6
  <2>2. ASSUME NEW o \in Mount, Runs(o), Prompt PROVE o \in rids
        BY <1>1, <2>2 DEF PromptGreetings, Runs
  <2>3. \A o \in Mount : InUse(o) => Runs(o) /\ Prompt BY DEF DeletionInv, TasksRun, InUse
  <2>4. \A o \in Mount \ {m} : InUse(o) => r.st = "collect" /\ o \in r.wait /\ o \notin r.answer
        BY <1>4, <2>2, <2>3
  <2>5. r.st \notin {"sent", "queued"} BY <1>4
  <2>6. r.st = "collect" => r.st # "clear" OBVIOUS
  <2>7. \A o \in Mount \ {m} : try[m][x] = "wait" /\ InUse(o) =>
           r.st # "clear" /\ (r.st = "collect" => r.bits \/ (o \in r.wait /\ o \notin r.answer))
        BY <2>4, <2>6, Zenon
  <2>8. r \in Req BY <1>4
  <2>9. QED BY <1>1, <1>6, <1>9, <2>5, <2>7, <2>8, ReqStep, ZenonT(60)
<1>7. QED BY <1>1, <1>5, <1>6

\* A client answers with its own bit, which is set while it uses the inode.
LEMMA ClientHandleRequestInv ==
    ASSUME DeletionInv, NEW m \in Mount, NEW x \in Task, NEW o \in Mount,
           ClientHandleRequest(o, m, x)
    PROVE  DeletionInv'
<1> DEFINE r == [req[m][x] EXCEPT !.ask = @ \ {o},
                                  !.answer = @ \cup (IF bit[o] THEN {} ELSE {o}),
                                  !.answerSet = @ \cup (IF bit[o] THEN {o} ELSE {})]
<1>1. /\ o \in req[m][x].ask
      /\ req' = [req EXCEPT ![m][x] = r]
      /\ UNCHANGED <<item, stable, dirty, merged, mode, vino, bit, found, map, trying, try>>
      /\ UNCHANGED <<mount, rids, recov, failovers>>
  <2>1. req \in [Mount -> [Task -> Req]] BY DEF DeletionInv, TypeOK
  <2>2. req' = [req EXCEPT ![m][x].ask = @ \ {o},
                           ![m][x].answer = @ \cup (IF bit[o] THEN {} ELSE {o}),
                           ![m][x].answerSet = @ \cup (IF bit[o] THEN {o} ELSE {})]
        BY Zenon DEF ClientHandleRequest
  <2>3. req' = [req EXCEPT ![m][x] = r] BY Zenon, <2>1, <2>2 DEF Req
  <2>4. QED BY <2>3, Zenon DEF ClientHandleRequest, vars, itemVars, cacheVars, tryVars, serverVars
<1>2. req[m][x] \in Req BY ReqThere
<1>3. /\ r \in Req /\ r.st = req[m][x].st /\ r.bits = req[m][x].bits /\ r.wait = req[m][x].wait
      /\ r.answer = req[m][x].answer \cup (IF bit[o] THEN {} ELSE {o})
      BY Zenon, <1>2 DEF Req
<1> HIDE DEF r
<1>4. bit[o] <=> vino[o].st = "cached" BY DEF DeletionInv, BitsMatchCache
<1>5. InUse(o) => r.answer = req[m][x].answer BY <1>3, <1>4 DEF InUse
<1>6. req[m][x].st \notin {"sent", "queued"} BY <1>1, ReqThere
<1>7. req[m][x] # NoReq BY <1>1 DEF NoReq
<1>8. r.st \notin {"sent", "queued"} BY <1>3, <1>6
<1>9. ASSUME NEW u \in Mount \ {m}, try[m][x] = "wait", InUse(u)
      PROVE  /\ r.st # "clear"
             /\ r.st = "collect" => r.bits \/ (u \in r.wait /\ u \notin r.answer)
  <2>1. /\ req[m][x].st # "clear"
        /\ req[m][x].st = "collect" =>
              req[m][x].bits \/ (u \in req[m][x].wait /\ u \notin req[m][x].answer)
        BY <1>9, ReqThere
  <2>2. u \in r.answer => u \in req[m][x].answer BY <1>3, <1>5, <1>9
  <2>3. QED BY <1>3, <2>1, <2>2
<1>10. r \in Req BY <1>3
<1>11. QED BY <1>1, <1>7, <1>8, <1>9, <1>10, ReqStep, ZenonT(60)

\* The server takes a client's response.
LEMMA ServerHandleResponseInv ==
    ASSUME DeletionInv, NEW m \in Mount, NEW x \in Task, NEW o \in Mount,
           ServerHandleResponse(o, m, x)
    PROVE  DeletionInv'
<1> DEFINE q == req[m][x]
           c == [q EXCEPT !.answer = @ \ {o}]
           s == [q EXCEPT !.answerSet = @ \ {o}]
<1>1. /\ UNCHANGED <<item, stable, dirty, merged, mode, vino, bit, found, map, trying, try>>
      /\ UNCHANGED <<mount, rids, recov, failovers>>
      BY Zenon DEF ServerHandleResponse, vars, itemVars, cacheVars, tryVars, serverVars
<1>2. \/ o \in q.answer /\ req' = [req EXCEPT ![m][x] = Contributed(c, o, FALSE)]
      \/ o \in q.answerSet /\ req' = [req EXCEPT ![m][x] = Contributed(s, o, TRUE)]
      BY Zenon DEF ServerHandleResponse
<1>3. q \in Req /\ q # NoReq
  <2>1. q \in Req BY ReqThere, Zenon
  <2>2. NoReq.answer = {} /\ NoReq.answerSet = {} BY DEF NoReq
  <2>3. QED BY Zenon, <1>2, <2>1, <2>2
<1>4. /\ q.st \in {"sent", "queued"} => q.ask = {} /\ q.answer = {}
      /\ \A u \in Mount \ {m} : try[m][x] = "wait" /\ InUse(u) =>
            /\ q.st # "clear"
            /\ q.st = "collect" => q.bits \/ (u \in q.wait /\ u \notin q.answer)
      BY ReqThere, Zenon
<1> HIDE DEF q
<1>5. /\ c \in Req /\ c.st = q.st /\ c.bits = q.bits /\ c.wait = q.wait /\ c.ask = q.ask
      /\ c.answer = q.answer \ {o}
      /\ s \in Req /\ s.st = q.st /\ s.bits = q.bits /\ s.wait = q.wait /\ s.ask = q.ask
      /\ s.answer = q.answer
      BY <1>3 DEF Req
<1> HIDE DEF c, s
<1>6. CASE o \in q.answer /\ req' = [req EXCEPT ![m][x] = Contributed(c, o, FALSE)]
  <2> DEFINE r == Contributed(c, o, FALSE)
  <2>1. /\ r \in Req
        /\ c.st # "collect" => r = c
        /\ c.st = "collect" => r.st \in {"collect", "clear", "set"}
        /\ \A u \in Mount : c.st = "collect" /\ (c.bits \/ (u \in c.wait /\ u \notin c.answer))
                             /\ (u # o \/ c.bits)
              => r.st # "clear" /\ (r.st = "collect" => r.bits \/ (u \in r.wait /\ u \notin r.answer))
        BY Zenon, <1>5, ContributedFacts
  <2>2. req' = [req EXCEPT ![m][x] = r] BY <1>6
  <2> HIDE DEF r
  <2>3. r.st \in {"sent", "queued"} => r.ask = {} /\ r.answer = {}
        BY <1>4, <1>5, <2>1
  <2>4. ASSUME NEW u \in Mount \ {m}, try[m][x] = "wait", InUse(u)
        PROVE  r.st # "clear" /\ (r.st = "collect" => r.bits \/ (u \in r.wait /\ u \notin r.answer))
    <3>1. q.st # "clear" /\ (q.st = "collect" => q.bits \/ (u \in q.wait /\ u \notin q.answer))
          BY <1>4, <2>4
    <3>2. CASE q.st = "collect"
      <4>1. u # o \/ c.bits BY <1>5, <1>6, <3>1, <3>2
      <4>2. c.bits \/ (u \in c.wait /\ u \notin c.answer) BY <1>5, <3>1, <3>2
      <4>3. QED BY <1>5, <2>1, <3>2, <4>1, <4>2
    <3>3. CASE q.st # "collect" BY <1>5, <2>1, <3>1, <3>3
    <3>4. QED BY <3>2, <3>3
  <2>5. QED BY <1>1, <1>3, <2>1, <2>2, <2>3, <2>4, ReqStep, ZenonT(60) DEF q
<1>7. CASE o \in q.answerSet /\ req' = [req EXCEPT ![m][x] = Contributed(s, o, TRUE)]
  <2> DEFINE r == Contributed(s, o, TRUE)
  <2>1. /\ r \in Req
        /\ s.st # "collect" => r = s
        /\ s.st = "collect" => r.st \in {"collect", "clear", "set"}
        /\ \A u \in Mount : s.st = "collect" /\ (s.bits \/ (u \in s.wait /\ u \notin s.answer))
              => r.st # "clear" /\ (r.st = "collect" => r.bits \/ (u \in r.wait /\ u \notin r.answer))
        BY Zenon, <1>5, ContributedFacts
  <2>2. req' = [req EXCEPT ![m][x] = r] BY <1>7
  <2> HIDE DEF r
  <2>3. r.st \in {"sent", "queued"} => r.ask = {} /\ r.answer = {}
        BY <1>4, <1>5, <2>1
  <2>4. ASSUME NEW u \in Mount \ {m}, try[m][x] = "wait", InUse(u)
        PROVE  r.st # "clear" /\ (r.st = "collect" => r.bits \/ (u \in r.wait /\ u \notin r.answer))
    <3>1. q.st # "clear" /\ (q.st = "collect" => q.bits \/ (u \in q.wait /\ u \notin q.answer))
          BY <1>4, <2>4
    <3>2. QED BY <1>5, <2>1, <3>1
  <2>5. QED BY <1>1, <1>3, <2>1, <2>2, <2>3, <2>4, ReqStep, ZenonT(60) DEF q
<1>8. QED BY <1>2, <1>6, <1>7, Zenon DEF q

-----------------------------------------------------------------------------
(* Operations on the file that take no lock. *)

\* A lookup finds the name.
LEMMA LookupDirentInv ==
    ASSUME DeletionInv, NEW m \in Mount, LookupDirent(m)
    PROVE  DeletionInv'
<1>i. /\ TypeOK /\ BitsMatchCache /\ OrphanTracked /\ UsedNotDeleted /\ LockedItems
      /\ \A p \in Mount : TasksRun(p) /\ DeleterAlone(p) /\ MapsTrue(p)
      BY Zenon DEF DeletionInv
<1>u. /\ Up(m)
      /\ found' = [found EXCEPT ![m] = TRUE]
      /\ UNCHANGED <<item, stable, dirty, merged, mode, vino, bit, map, trying, try,
                     req, mount, rids, recov, failovers>>
      BY Zenon DEF LookupDirent, vars, itemVars, cacheVars, tryVars, serverVars
<1>o. \A p \in Mount \ {m} : found'[p] = found[p]
      BY <1>i, <1>u DEF TypeOK
<1>m. /\ found' \in [Mount -> BOOLEAN]
      /\ found'[m] = TRUE
      BY <1>i, <1>u DEF TypeOK
<1>s. \A o \in Mount : (InUse(o)' => InUse(o)) /\ (Known(o)' => Known(o))
      BY <1>u, Zenon DEF InUse, Known
<1>1. TypeOK' BY <1>i, <1>u, <1>m DEF TypeOK
<1>2. BitsMatchCache' BY <1>i, <1>u, Zenon DEF BitsMatchCache
<1>3. OrphanTracked' BY <1>i, <1>u, Zenon DEF OrphanTracked
<1>4. UsedNotDeleted' BY <1>i, <1>u, <1>s, Zenon DEF UsedNotDeleted, InUse
<1>5. LockedItems' BY <1>i, <1>u, <1>s, LockedFrame, Zenon DEF Runs
<1>6. ASSUME NEW p \in Mount PROVE TasksRun(p)' /\ DeleterAlone(p)' /\ MapsTrue(p)'
  <2>i. TasksRun(p) /\ DeleterAlone(p) /\ MapsTrue(p) BY <1>i
  <2>1. CASE p # m
    <3>e. /\ mode'[p] = mode[p] /\ vino'[p] = vino[p] /\ bit'[p] = bit[p] /\ found'[p] = found[p] /\ map'[p] = map[p]
          /\ trying'[p] = trying[p] /\ try'[p] = try[p] /\ req'[p] = req[p] /\ mount'[p] = mount[p]
          BY <1>u, <1>o, <2>1
    <3>1. TasksRun(p)' BY <2>i, <3>e, TasksFrame, Zenon
    <3>2. DeleterAlone(p)' BY <1>u, <1>s, <2>i, <3>e, DeleterFrame, Zenon
    <3>3. MapsTrue(p)' BY <1>s, <2>i, <3>e, MapsFrame, Zenon DEF Runs
    <3>4. QED BY <3>1, <3>2, <3>3, Zenon
  <2>2. CASE p = m
    <3>1. TasksRun(p)' BY Zenon, <1>u, <2>i, <2>2 DEF TasksRun, Runs, Held, Up
    <3>2. DeleterAlone(p)' BY Zenon, <1>u, <1>s, <1>m, <2>i, <2>2, DeleterFrame
    <3>3. MapsTrue(p)' BY <1>u, <1>s, <1>m, <2>i, <2>2, MapsFrame DEF Runs
    <3>4. QED BY <3>1, <3>2, <3>3, Zenon
  <2>3. QED BY <2>1, <2>2
<1>7. QED BY <1>1, <1>2, <1>3, <1>4, <1>5, <1>6, Zenon DEF DeletionInv

\* The last user goes away.
LEMMA CloseInv ==
    ASSUME DeletionInv, NEW m \in Mount, Close(m)
    PROVE  DeletionInv'
<1>i. /\ TypeOK /\ BitsMatchCache /\ OrphanTracked /\ UsedNotDeleted /\ LockedItems
      /\ \A p \in Mount : TasksRun(p) /\ DeleterAlone(p) /\ MapsTrue(p)
      BY Zenon DEF DeletionInv
<1>u. /\ vino' = [vino EXCEPT ![m].open = FALSE]
      /\ UNCHANGED <<item, stable, dirty, merged, mode, bit, found, map, trying, try,
                     req, mount, rids, recov, failovers>>
      BY Zenon DEF Close, vars, itemVars, cacheVars, tryVars, serverVars
<1>o. \A p \in Mount \ {m} : vino'[p] = vino[p]
      BY <1>i, <1>u DEF TypeOK
<1>v. vino \in [Mount -> Vino] /\ vino[m] \in Vino BY <1>i, Zenon DEF TypeOK
<1>w. vino'[m] = [vino[m] EXCEPT !.open = FALSE] BY <1>v, <1>u
<1>x. [vino[m] EXCEPT !.open = FALSE] \in Vino BY Zenon, <1>v DEF Vino
<1>y. vino' \in [Mount -> Vino] BY <1>v, <1>x, <1>u
<1>z. /\ vino'[m].st = vino[m].st
      /\ vino'[m].nlink = vino[m].nlink
      /\ vino'[m].linked = vino[m].linked
      /\ vino'[m].linkable = vino[m].linkable
      BY <1>v, <1>w DEF Vino
<1>m. /\ vino' \in [Mount -> Vino]
      /\ vino'[m].st = vino[m].st
      /\ vino'[m].nlink = vino[m].nlink
      /\ vino'[m].linked = vino[m].linked
      /\ vino'[m].linkable = vino[m].linkable
      BY <1>y, <1>z
<1>s. \A o \in Mount : (InUse(o)' => InUse(o)) /\ (Known(o)' => Known(o))
      BY <1>o, <1>m DEF InUse, Known
<1>1. TypeOK' BY <1>i, <1>u, <1>m DEF TypeOK
<1>2. BitsMatchCache' BY <1>i, <1>u, <1>o, <1>m DEF BitsMatchCache
<1>3. OrphanTracked' BY <1>i, <1>u, Zenon DEF OrphanTracked
<1>4. UsedNotDeleted' BY <1>i, <1>u, <1>s, Zenon DEF UsedNotDeleted, InUse
<1>5. LockedItems' BY <1>i, <1>u, <1>s, LockedFrame, Zenon DEF Runs
<1>6. ASSUME NEW p \in Mount PROVE TasksRun(p)' /\ DeleterAlone(p)' /\ MapsTrue(p)'
  <2>i. TasksRun(p) /\ DeleterAlone(p) /\ MapsTrue(p) BY <1>i
  <2>1. CASE p # m
    <3>e. /\ mode'[p] = mode[p] /\ vino'[p] = vino[p] /\ bit'[p] = bit[p] /\ found'[p] = found[p] /\ map'[p] = map[p]
          /\ trying'[p] = trying[p] /\ try'[p] = try[p] /\ req'[p] = req[p] /\ mount'[p] = mount[p]
          BY <1>u, <1>o, <2>1
    <3>1. TasksRun(p)' BY <2>i, <3>e, TasksFrame, Zenon
    <3>2. DeleterAlone(p)' BY <1>u, <1>s, <2>i, <3>e, DeleterFrame, Zenon
    <3>3. MapsTrue(p)' BY <1>s, <2>i, <3>e, MapsFrame, Zenon DEF Runs
    <3>4. QED BY <3>1, <3>2, <3>3, Zenon
  <2>2. CASE p = m
    <3>1. TasksRun(p)' BY <1>u, <1>m, <2>i, <2>2, TasksFrame
    <3>2. DeleterAlone(p)' BY <1>u, <1>s, <1>m, <2>i, <2>2, DeleterFrame
    <3>3. MapsTrue(p)' BY <1>u, <1>s, <1>m, <2>i, <2>2, MapsFrame DEF Runs
    <3>4. QED BY <3>1, <3>2, <3>3, Zenon
  <2>3. QED BY <2>1, <2>2
<1>7. QED BY <1>1, <1>2, <1>3, <1>4, <1>5, <1>6, Zenon DEF DeletionInv

\* An inode is found in the cache, or a new one is made.
LEMMA IgetStartInv ==
    ASSUME DeletionInv, NEW m \in Mount, IgetStart(m)
    PROVE  DeletionInv'
<1>i. /\ TypeOK /\ BitsMatchCache /\ OrphanTracked /\ UsedNotDeleted /\ LockedItems
      /\ \A p \in Mount : TasksRun(p) /\ DeleterAlone(p) /\ MapsTrue(p)
      BY Zenon DEF DeletionInv
<1>u. /\ found[m]
      /\ vino[m].st \in {"none", "cached"}
      /\ found' = [found EXCEPT ![m] = FALSE]
      /\ vino' = [vino EXCEPT ![m] = IF vino[m].st = "none" THEN [vino[m] EXCEPT !.st = "new"]
                                   ELSE [vino[m] EXCEPT !.open = TRUE]]
      /\ UNCHANGED <<item, stable, dirty, merged, mode, bit, map, trying, try, req,
                     mount, rids, recov, failovers>>
      BY Zenon DEF IgetStart, vars, itemVars, cacheVars, tryVars, serverVars
<1>o. \A p \in Mount \ {m} : vino'[p] = vino[p] /\ found'[p] = found[p]
      BY <1>i, <1>u DEF TypeOK
<1>v. vino \in [Mount -> Vino] /\ vino[m] \in Vino BY <1>i, Zenon DEF TypeOK
<1>f. found' \in [Mount -> BOOLEAN] /\ ~ found'[m] BY <1>i, <1>u DEF TypeOK
<1>m. /\ vino' \in [Mount -> Vino]
      /\ vino'[m].st = IF vino[m].st = "none" THEN "new" ELSE "cached"
      /\ vino'[m].nlink = vino[m].nlink
      /\ vino'[m].linked = vino[m].linked
      /\ vino'[m].linkable = vino[m].linkable
  <2>1. CASE vino[m].st = "none"
    <3>1. vino' = [vino EXCEPT ![m] = [vino[m] EXCEPT !.st = "new"]] BY <1>u, <2>1, Zenon
    <3>2. vino'[m] = [vino[m] EXCEPT !.st = "new"] BY <1>v, <3>1
    <3>3. [vino[m] EXCEPT !.st = "new"] \in Vino BY <1>v DEF Vino
    <3>4. vino' \in [Mount -> Vino] BY <1>v, <3>1, <3>3
    <3>5. QED BY <1>v, <2>1, <3>2, <3>4 DEF Vino
  <2>2. CASE vino[m].st = "cached"
    <3>1. vino' = [vino EXCEPT ![m] = [vino[m] EXCEPT !.open = TRUE]] BY <1>u, <2>2
    <3>2. vino'[m] = [vino[m] EXCEPT !.open = TRUE] BY <1>v, <3>1
    <3>3. [vino[m] EXCEPT !.open = TRUE] \in Vino BY Zenon, <1>v DEF Vino
    <3>4. vino' \in [Mount -> Vino] BY <1>v, <3>1, <3>3
    <3>5. QED BY <1>v, <2>2, <3>2, <3>4 DEF Vino
  <2>3. QED BY <1>u, <2>1, <2>2, Zenon
<1>s. \A o \in Mount : (InUse(o)' => InUse(o)) /\ (Known(o)' => Known(o))
      BY <1>u, <1>o, <1>m DEF InUse, Known
<1>1. TypeOK' BY <1>i, <1>u, <1>f, <1>m, Zenon DEF TypeOK
<1>2. BitsMatchCache'
  <2>1. vino'[m].st = "cached" <=> vino[m].st = "cached" BY <1>u, <1>m
  <2>2. \A p \in Mount : vino'[p].st = "cached" <=> vino[p].st = "cached" BY <1>o, <2>1
  <2>3. QED BY <1>i, <1>u, <2>2, Zenon DEF BitsMatchCache
<1>3. OrphanTracked' BY <1>i, <1>u, Zenon DEF OrphanTracked
<1>4. UsedNotDeleted' BY <1>i, <1>u, <1>s, Zenon DEF UsedNotDeleted, InUse
<1>5. LockedItems' BY <1>i, <1>u, <1>s, LockedFrame, Zenon DEF Runs
<1>6. ASSUME NEW p \in Mount PROVE TasksRun(p)' /\ DeleterAlone(p)' /\ MapsTrue(p)'
  <2>i. TasksRun(p) /\ DeleterAlone(p) /\ MapsTrue(p) BY <1>i
  <2>1. CASE p # m
    <3>e. /\ mode'[p] = mode[p] /\ vino'[p] = vino[p] /\ bit'[p] = bit[p] /\ found'[p] = found[p] /\ map'[p] = map[p]
          /\ trying'[p] = trying[p] /\ try'[p] = try[p] /\ req'[p] = req[p] /\ mount'[p] = mount[p]
          BY <1>u, <1>o, <2>1
    <3>1. TasksRun(p)' BY <2>i, <3>e, TasksFrame, Zenon
    <3>2. DeleterAlone(p)' BY <1>u, <1>s, <2>i, <3>e, DeleterFrame, Zenon
    <3>3. MapsTrue(p)' BY <1>s, <2>i, <3>e, MapsFrame, Zenon DEF Runs
    <3>4. QED BY <3>1, <3>2, <3>3, Zenon
  <2>2. CASE p = m
    <3>1. TasksRun(p)'
          BY <1>u, <1>f, <1>m, <2>i, <2>2 DEF TasksRun, Runs, Held
    <3>2. DeleterAlone(p)' BY <1>u, <1>s, <1>m, <2>i, <2>2, DeleterFrame
    <3>3. MapsTrue(p)' BY <1>u, <1>s, <1>m, <2>i, <2>2, MapsFrame DEF Runs
    <3>4. QED BY <3>1, <3>2, <3>3, Zenon
  <2>3. QED BY <2>1, <2>2
<1>7. QED BY <1>1, <1>2, <1>3, <1>4, <1>5, <1>6, Zenon DEF DeletionInv

\* A lock that no task holds is shrunk away.
LEMMA ShrinkLockInv ==
    ASSUME DeletionInv, NEW m \in Mount, ShrinkLock(m)
    PROVE  DeletionInv'
<1>i. /\ TypeOK /\ BitsMatchCache /\ OrphanTracked /\ UsedNotDeleted /\ LockedItems
      /\ \A p \in Mount : TasksRun(p) /\ DeleterAlone(p) /\ MapsTrue(p)
      BY Zenon DEF DeletionInv
<1>u. /\ ~ Held(m)
      /\ mode' = [mode EXCEPT ![m] = "null"]
      /\ vino' = [vino EXCEPT ![m].cov = FALSE]
      /\ stable' = IF dirty = m THEN item ELSE stable
      /\ dirty' = IF dirty = m THEN None ELSE dirty
      /\ UNCHANGED <<item, merged, bit, found, map, trying, try, req, mount, rids,
                     recov, failovers>>
      BY Zenon DEF ShrinkLock, vars, itemVars, cacheVars, tryVars, serverVars
<1>o. \A p \in Mount \ {m} : mode'[p] = mode[p] /\ vino'[p] = vino[p]
      BY <1>i, <1>u DEF TypeOK
<1>v. vino \in [Mount -> Vino] /\ vino[m] \in Vino BY <1>i, Zenon DEF TypeOK
<1>w. vino'[m] = [vino[m] EXCEPT !.cov = FALSE] BY <1>v, <1>u
<1>x. [vino[m] EXCEPT !.cov = FALSE] \in Vino BY Zenon, <1>v DEF Vino
<1>y. vino' \in [Mount -> Vino] BY <1>v, <1>x, <1>u
<1>z. /\ vino'[m].st = vino[m].st
      /\ vino'[m].nlink = vino[m].nlink
      /\ vino'[m].linked = vino[m].linked
      /\ vino'[m].linkable = vino[m].linkable
      BY <1>v, <1>w DEF Vino
<1>t. mode' \in [Mount -> Modes] /\ mode'[m] = "null" BY <1>i, <1>u DEF TypeOK, Modes
<1>m. /\ vino' \in [Mount -> Vino]
      /\ vino'[m].st = vino[m].st
      /\ vino'[m].nlink = vino[m].nlink
      /\ vino'[m].linked = vino[m].linked
      /\ vino'[m].linkable = vino[m].linkable
      /\ mode' \in [Mount -> Modes]
      /\ mode'[m] = "null"
      BY <1>y, <1>z, <1>t
<1>s. \A o \in Mount : (InUse(o)' => InUse(o)) /\ (Known(o)' => Known(o))
      BY <1>o, <1>m DEF InUse, Known
<1>1. TypeOK' BY <1>i, <1>u, <1>m DEF TypeOK
<1>2. BitsMatchCache' BY <1>i, <1>u, <1>o, <1>m DEF BitsMatchCache
<1>3. OrphanTracked' BY <1>i, <1>u DEF OrphanTracked
<1>4. UsedNotDeleted' BY <1>i, <1>u, <1>s, Zenon DEF UsedNotDeleted, InUse
<1>5. LockedItems'
  <2>1. \A o \in Mount : InUse(o) => item.st = "live" BY <1>i DEF UsedNotDeleted, InUse
  <2>2. \A o \in Mount : mode'[o] = "write" => mode[o] = "write" BY Zenon, <1>o, <1>m
  <2>3. \A p, o \in Mount : mode'[p] = "write" /\ o # p => mode'[o] = "null"
        BY <1>i, <1>o, <1>m, <2>2 DEF LockedItems
  <2>4. CASE dirty = m
        BY <1>i, <1>u, <1>s, <2>1, <2>3, <2>4, NoneAssumption DEF LockedItems
  <2>5. CASE dirty # m
    <3>1. dirty # None => mode'[dirty] = "write" /\ Runs(dirty)'
          BY <1>i, <1>u, <1>o, <2>5 DEF LockedItems, Runs, TypeOK
    <3>2. QED BY <1>i, <1>u, <1>s, <2>3, <2>5, <3>1 DEF LockedItems
  <2>6. QED BY <2>4, <2>5
<1>6. ASSUME NEW p \in Mount PROVE TasksRun(p)' /\ DeleterAlone(p)' /\ MapsTrue(p)'
  <2>i. TasksRun(p) /\ DeleterAlone(p) /\ MapsTrue(p) BY <1>i
  <2>1. CASE p # m
    <3>e. /\ mode'[p] = mode[p] /\ vino'[p] = vino[p] /\ bit'[p] = bit[p] /\ found'[p] = found[p] /\ map'[p] = map[p]
          /\ trying'[p] = trying[p] /\ try'[p] = try[p] /\ req'[p] = req[p] /\ mount'[p] = mount[p]
          BY <1>u, <1>o, <2>1
    <3>1. TasksRun(p)' BY <2>i, <3>e, TasksFrame, Zenon
    <3>2. DeleterAlone(p)' BY <1>u, <1>s, <2>i, <3>e, DeleterFrame, Zenon
    <3>3. MapsTrue(p)' BY <1>s, <2>i, <3>e, MapsFrame, Zenon DEF Runs
    <3>4. QED BY <3>1, <3>2, <3>3, Zenon
  <2>2. CASE p = m
    <3>1. TasksRun(p)' BY <1>u, <1>m, <2>i, <2>2 DEF TasksRun, Runs, Held
    <3>2. DeleterAlone(p)' BY <1>u, <1>s, <1>m, <2>i, <2>2, DeleterFrame
    <3>3. MapsTrue(p)' BY <1>u, <1>s, <1>m, <2>i, <2>2, MapsFrame DEF Runs
    <3>4. QED BY <3>1, <3>2, <3>3, Zenon
  <2>3. QED BY <2>1, <2>2
<1>7. QED BY <1>1, <1>2, <1>3, <1>4, <1>5, <1>6, Zenon DEF DeletionInv

\* An inode leaves the cache.
LEMMA EvictInv ==
    ASSUME DeletionInv, NEW m \in Mount, scoutfs_evict_inode(m)
    PROVE  DeletionInv'
<1>i. /\ TypeOK /\ BitsMatchCache /\ OrphanTracked /\ UsedNotDeleted /\ LockedItems
      /\ \A p \in Mount : TasksRun(p) /\ DeleterAlone(p) /\ MapsTrue(p)
      BY Zenon DEF DeletionInv
<1>u. /\ vino[m].st = "cached"
      /\ Runs(m)
      /\ bit' = [bit EXCEPT ![m] = FALSE]
      /\ \/ /\ vino' = [vino EXCEPT ![m].st = "freeing"]
            /\ try' = [try EXCEPT ![m]["evict"] = "lock"]
         \/ /\ vino' = [vino EXCEPT ![m] = NoVino]
            /\ try' = try
      /\ UNCHANGED <<item, stable, dirty, merged, mode, found, map, trying, req,
                     mount, rids, recov, failovers>>
      BY Zenon DEF scoutfs_evict_inode, scoutfs_omap_clear, Runs, vars, itemVars, cacheVars, tryVars, serverVars
<1>o. \A p \in Mount \ {m} : vino'[p] = vino[p] /\ bit'[p] = bit[p] /\ try'[p] = try[p]
      BY <1>i, <1>u DEF TypeOK
<1>v. vino \in [Mount -> Vino] /\ vino[m] \in Vino BY <1>i, Zenon DEF TypeOK
<1>b. bit' \in [Mount -> BOOLEAN] /\ bit'[m] = FALSE BY <1>i, <1>u DEF TypeOK
<1>t. try \in [Mount -> [Task -> {"idle", "ask", "scanwait", "lock", "data", "wait", "test", "delete"}]]
      BY <1>i, Zenon DEF TypeOK
<1>d. try[m]["evict"] = "idle" BY <1>i, <1>u DEF TasksRun
<1>m. /\ vino' \in [Mount -> Vino]
      /\ try' \in [Mount -> [Task -> {"idle", "ask", "scanwait", "lock", "data", "wait", "test", "delete"}]]
      /\ vino'[m].st \in {"none", "freeing"}
      /\ vino'[m].st = "none" => try'[m] = try[m]
      /\ vino'[m].st = "freeing" => try'[m]["evict"] = "lock" /\ try'[m]["scan"] = try[m]["scan"]
  <2>1. CASE vino' = [vino EXCEPT ![m].st = "freeing"] /\ try' = [try EXCEPT ![m]["evict"] = "lock"]
    <3>1. vino'[m] = [vino[m] EXCEPT !.st = "freeing"] BY <1>v, <2>1
    <3>2. [vino[m] EXCEPT !.st = "freeing"] \in Vino BY <1>v DEF Vino
    <3>3. vino' \in [Mount -> Vino] BY <1>v, <2>1, <3>2
    <3>4. vino'[m].st = "freeing" BY <1>v, <3>1 DEF Vino
    <3>5. try' \in [Mount -> [Task -> {"idle", "ask", "scanwait", "lock", "data", "wait", "test", "delete"}]]
          BY <1>t, <2>1 DEF Task
    <3>6. try'[m]["evict"] = "lock" /\ try'[m]["scan"] = try[m]["scan"] BY <1>t, <2>1 DEF Task
    <3>7. QED BY <3>3, <3>4, <3>5, <3>6
  <2>2. CASE vino' = [vino EXCEPT ![m] = NoVino] /\ try' = try
    <3>1. vino'[m] = NoVino BY <1>v, <2>2
    <3>2. NoVino \in Vino BY DEF Vino, NoVino
    <3>3. vino' \in [Mount -> Vino] BY <1>v, <2>2, <3>2
    <3>4. vino'[m].st = "none" BY <3>1 DEF NoVino
    <3>5. QED BY <1>t, <2>2, <3>3, <3>4
  <2>3. QED BY <1>u, <2>1, <2>2, Zenon
<1>s. \A o \in Mount : (InUse(o)' => InUse(o)) /\ (Known(o)' => Known(o))
      BY <1>u, <1>o, <1>m DEF InUse, Known
<1>1. TypeOK' BY <1>i, <1>u, <1>b, <1>m, Zenon DEF TypeOK
<1>2. BitsMatchCache' BY <1>i, <1>u, <1>o, <1>b, <1>m DEF BitsMatchCache
<1>3. OrphanTracked' BY <1>i, <1>u, Zenon DEF OrphanTracked
<1>4. UsedNotDeleted' BY <1>i, <1>u, <1>s, Zenon DEF UsedNotDeleted, InUse
<1>5. LockedItems' BY <1>i, <1>u, <1>s, LockedFrame, Zenon DEF Runs
<1>6. ASSUME NEW p \in Mount PROVE TasksRun(p)' /\ DeleterAlone(p)' /\ MapsTrue(p)'
  <2>i. TasksRun(p) /\ DeleterAlone(p) /\ MapsTrue(p) BY <1>i
  <2>1. CASE p # m
    <3>e. /\ mode'[p] = mode[p] /\ vino'[p] = vino[p] /\ bit'[p] = bit[p] /\ found'[p] = found[p] /\ map'[p] = map[p]
          /\ trying'[p] = trying[p] /\ try'[p] = try[p] /\ req'[p] = req[p] /\ mount'[p] = mount[p]
          BY <1>u, <1>o, <2>1
    <3>1. TasksRun(p)' BY <2>i, <3>e, TasksFrame, Zenon
    <3>2. DeleterAlone(p)' BY <1>u, <1>s, <2>i, <3>e, DeleterFrame, Zenon
    <3>3. MapsTrue(p)' BY <1>s, <2>i, <3>e, MapsFrame, Zenon DEF Runs
    <3>4. QED BY <3>1, <3>2, <3>3, Zenon
  <2>2. CASE p = m
    <3>1. TasksRun(p)'
          BY <1>u, <1>d, <1>m, <2>i, <2>2 DEF TasksRun, Runs, Held, Task
    <3>2. DeleterAlone(p)'
      <4>1. \A x \in Task : try'[m][x] = "delete" => try[m][x] = "delete" BY <1>m DEF Task
      <4>2. vino'[m].st # "cached" BY <1>m
      <4>3. QED BY <1>u, <1>s, <2>i, <2>2, <4>1, <4>2 DEF DeleterAlone
    <3>3. MapsTrue(p)'
      <4>1. \A x \in Task : try'[m][x] = "wait" => try[m][x] = "wait" BY <1>m DEF Task
      <4>2. \A x \in Task : try'[m][x] \notin {"wait", "scanwait"} => try[m][x] \notin {"wait", "scanwait"}
            BY <1>d, <1>m DEF Task
      <4>3. QED BY <1>u, <1>s, <2>i, <2>2, <4>1, <4>2 DEF MapsTrue, Runs
    <3>4. QED BY <3>1, <3>2, <3>3, Zenon
  <2>3. QED BY <2>1, <2>2
<1>7. QED BY <1>1, <1>2, <1>3, <1>4, <1>5, <1>6, Zenon DEF DeletionInv

-----------------------------------------------------------------------------
(* The tasks that delete. *)

\* A scan finds an orphan item.
LEMMA ScanOrphanInv ==
    ASSUME DeletionInv, NEW m \in Mount, ScanOrphan(m)
    PROVE  DeletionInv'
<1>i. /\ TypeOK /\ BitsMatchCache /\ OrphanTracked /\ UsedNotDeleted /\ LockedItems
      /\ \A p \in Mount : TasksRun(p) /\ DeleterAlone(p) /\ MapsTrue(p)
      BY Zenon DEF DeletionInv
<1>u. /\ Up(m)
      /\ try[m]["scan"] = "idle"
      /\ try' = [try EXCEPT ![m]["scan"] = "ask"]
      /\ UNCHANGED <<item, stable, dirty, merged, mode, vino, bit, found, map, trying,
                     req, mount, rids, recov, failovers>>
      BY Zenon DEF ScanOrphan, vars, itemVars, cacheVars, tryVars, serverVars

<1>t. /\ try' \in [Mount -> [Task -> {"idle", "ask", "scanwait", "lock", "data", "wait", "test", "delete"}]]
      /\ try'[m]["scan"] = "ask"
      /\ \A y \in Task : y # "scan" => try'[m][y] = try[m][y]
      /\ \A p \in Mount \ {m} : try'[p] = try[p]
  <2>1. "ask" \in {"idle", "ask", "scanwait", "lock", "data", "wait", "test", "delete"} /\ "scan" \in Task BY DEF Task
  <2>2. QED BY <1>i, <1>u, <2>1, TryPut, Zenon
<1>o. \A p \in Mount \ {m} : try'[p] = try[p] BY <1>t, Zenon
<1>s. \A o \in Mount : (InUse(o)' => InUse(o)) /\ (Known(o)' => Known(o))
      BY <1>u, Zenon DEF InUse, Known
<1>1. TypeOK' BY <1>i, <1>u, <1>t, Zenon DEF TypeOK
<1>2. BitsMatchCache' BY <1>i, <1>u, Zenon DEF BitsMatchCache
<1>3. OrphanTracked' BY <1>i, <1>u, Zenon DEF OrphanTracked
<1>4. UsedNotDeleted' BY <1>i, <1>u, <1>s, Zenon DEF UsedNotDeleted, InUse
<1>5. LockedItems' BY <1>i, <1>u, <1>s, LockedFrame, Zenon DEF Runs
<1>6. ASSUME NEW p \in Mount PROVE TasksRun(p)' /\ DeleterAlone(p)' /\ MapsTrue(p)'
  <2>i. TasksRun(p) /\ DeleterAlone(p) /\ MapsTrue(p) BY <1>i
  <2>1. CASE p # m
    <3>e. /\ mode'[p] = mode[p] /\ vino'[p] = vino[p] /\ bit'[p] = bit[p] /\ found'[p] = found[p] /\ map'[p] = map[p]
          /\ trying'[p] = trying[p] /\ try'[p] = try[p] /\ req'[p] = req[p] /\ mount'[p] = mount[p]
          BY <1>u, <1>o, <2>1
    <3>1. TasksRun(p)' BY <2>i, <3>e, TasksFrame, Zenon
    <3>2. DeleterAlone(p)' BY <1>u, <1>s, <2>i, <3>e, DeleterFrame, Zenon
    <3>3. MapsTrue(p)' BY <1>s, <2>i, <3>e, MapsFrame, Zenon DEF Runs
    <3>4. QED BY <3>1, <3>2, <3>3, Zenon
  <2>2. CASE p = m
    <3>1. TasksRun(p)'
          BY <1>u, <1>t, <2>i, <2>2 DEF TasksRun, Runs, Held, Task, Up
    <3>2. DeleterAlone(p)'
      <4>1. \A y \in Task : try'[m][y] = "delete" => try[m][y] = "delete" BY Zenon, <1>t
      <4>2. QED BY <1>u, <1>s, <2>i, <2>2, <4>1, DeleterFrame, Zenon
    <3>3. MapsTrue(p)'
      <4>1. \A y \in Task : try'[m][y] = "wait" => try[m][y] = "wait" BY <1>t
      <4>2. \A y \in Task : try'[m][y] \notin {"wait", "scanwait"} => try[m][y] \notin {"wait", "scanwait"}
            BY <1>u, <1>t
      <4>3. QED BY <1>u, <1>s, <2>i, <2>2, <4>1, <4>2 DEF MapsTrue, Runs
    <3>4. QED BY <3>1, <3>2, <3>3, Zenon
  <2>3. QED BY <2>1, <2>2
<1>7. QED BY <1>1, <1>2, <1>3, <1>4, <1>5, <1>6, Zenon DEF DeletionInv

\* The scan asks for the map.
LEMMA ScanAskInv ==
    ASSUME DeletionInv, NEW m \in Mount, ScanAsk(m)
    PROVE  DeletionInv'
<1>i. /\ TypeOK /\ BitsMatchCache /\ OrphanTracked /\ UsedNotDeleted /\ LockedItems
      /\ \A p \in Mount : TasksRun(p) /\ DeleterAlone(p) /\ MapsTrue(p)
      BY Zenon DEF DeletionInv
<1>u. /\ try[m]["scan"] = "ask"
      /\ try' = [try EXCEPT ![m]["scan"] = "scanwait"]
      /\ req' = [req EXCEPT ![m]["scan"].st = "sent"]
      /\ UNCHANGED <<item, stable, dirty, merged, mode, vino, bit, found, map, trying,
                     mount, rids, recov, failovers>>
      BY Zenon DEF ScanAsk, vars, itemVars, cacheVars, tryVars, serverVars

<1>t. /\ try' \in [Mount -> [Task -> {"idle", "ask", "scanwait", "lock", "data", "wait", "test", "delete"}]]
      /\ try'[m]["scan"] = "scanwait"
      /\ \A y \in Task : y # "scan" => try'[m][y] = try[m][y]
      /\ \A p \in Mount \ {m} : try'[p] = try[p]
  <2>1. "scanwait" \in {"idle", "ask", "scanwait", "lock", "data", "wait", "test", "delete"} /\ "scan" \in Task BY DEF Task
  <2>2. QED BY <1>i, <1>u, <2>1, TryPut, Zenon
<1>r. /\ req' \in [Mount -> [Task -> Req]]
      /\ req'[m]["scan"] = [NoReq EXCEPT !.st = "sent"]
      /\ \A y \in Task : y # "scan" => req'[m][y] = req[m][y]
      /\ \A p \in Mount \ {m} : req'[p] = req[p]
  <2> DEFINE r == [NoReq EXCEPT !.st = "sent"]
  <2>1. r \in Req /\ "scan" \in Task BY Zenon DEF Task, Req, NoReq
  <2>2. req[m]["scan"] = NoReq BY <1>u, NothingSent DEF Task
  <2>3. req' = [req EXCEPT ![m]["scan"] = r] BY <1>u, <2>2
  <2> HIDE DEF r
  <2>4. req \in [Mount -> [Task -> Req]] BY <1>i, Zenon DEF TypeOK
  <2>5. req' \in [Mount -> [Task -> Req]] BY <2>1, <2>3, <2>4
  <2>6. req'[m]["scan"] = r BY <2>1, <2>3, <2>4
  <2>7. \A y \in Task : y # "scan" => req'[m][y] = req[m][y] BY <2>3, <2>4
  <2>8. \A p \in Mount \ {m} : req'[p] = req[p] BY <2>3, <2>4
  <2>9. QED BY <2>5, <2>6, <2>7, <2>8, Zenon DEF r
<1>o. \A p \in Mount \ {m} : try'[p] = try[p] /\ req'[p] = req[p] BY <1>t, <1>r, Zenon
<1>s. \A o \in Mount : (InUse(o)' => InUse(o)) /\ (Known(o)' => Known(o))
      BY <1>u, Zenon DEF InUse, Known
<1>1. TypeOK' BY <1>i, <1>u, <1>t, <1>r, Zenon DEF TypeOK
<1>2. BitsMatchCache' BY <1>i, <1>u, Zenon DEF BitsMatchCache
<1>3. OrphanTracked' BY <1>i, <1>u, Zenon DEF OrphanTracked
<1>4. UsedNotDeleted' BY <1>i, <1>u, <1>s, Zenon DEF UsedNotDeleted, InUse
<1>5. LockedItems' BY <1>i, <1>u, <1>s, LockedFrame, Zenon DEF Runs
<1>6. ASSUME NEW p \in Mount PROVE TasksRun(p)' /\ DeleterAlone(p)' /\ MapsTrue(p)'
  <2>i. TasksRun(p) /\ DeleterAlone(p) /\ MapsTrue(p) BY <1>i
  <2>1. CASE p # m
    <3>e. /\ mode'[p] = mode[p] /\ vino'[p] = vino[p] /\ bit'[p] = bit[p] /\ found'[p] = found[p] /\ map'[p] = map[p]
          /\ trying'[p] = trying[p] /\ try'[p] = try[p] /\ req'[p] = req[p] /\ mount'[p] = mount[p]
          BY <1>u, <1>o, <2>1
    <3>1. TasksRun(p)' BY <2>i, <3>e, TasksFrame, Zenon
    <3>2. DeleterAlone(p)' BY <1>u, <1>s, <2>i, <3>e, DeleterFrame, Zenon
    <3>3. MapsTrue(p)' BY <1>s, <2>i, <3>e, MapsFrame, Zenon DEF Runs
    <3>4. QED BY <3>1, <3>2, <3>3, Zenon
  <2>2. CASE p = m
    <3>1. TasksRun(p)'
          BY <1>u, <1>t, <2>i, <2>2 DEF TasksRun, Runs, Held, Task
    <3>2. DeleterAlone(p)'
      <4>1. \A y \in Task : try'[m][y] = "delete" => try[m][y] = "delete" BY <1>t
      <4>2. QED BY <1>u, <1>s, <2>i, <2>2, <4>1, DeleterFrame, Zenon
    <3>3. MapsTrue(p)'
      <4>1. /\ try'[m]["scan"] = "scanwait" /\ try'[m]["evict"] = try[m]["evict"]
            /\ req'[m]["evict"] = req[m]["evict"]
            BY <1>t, <1>r DEF Task
      <4>2. /\ req'[m]["scan"].st = "sent" /\ req'[m]["scan"].ask = {} /\ req'[m]["scan"].answer = {}
            BY <1>r DEF NoReq
      <4>3. QED BY <1>u, <1>s, <2>i, <2>2, <4>1, <4>2 DEF MapsTrue, Runs, Task
    <3>4. QED BY <3>1, <3>2, <3>3, Zenon
  <2>3. QED BY <2>1, <2>2
<1>7. QED BY <1>1, <1>2, <1>3, <1>4, <1>5, <1>6, Zenon DEF DeletionInv

\* The scan has the map.
LEMMA ScanAnswerInv ==
    ASSUME DeletionInv, NEW m \in Mount, ScanAnswer(m)
    PROVE  DeletionInv'
<1>i. /\ TypeOK /\ BitsMatchCache /\ OrphanTracked /\ UsedNotDeleted /\ LockedItems
      /\ \A p \in Mount : TasksRun(p) /\ DeleterAlone(p) /\ MapsTrue(p)
      BY Zenon DEF DeletionInv
<1>u. /\ try[m]["scan"] = "scanwait"
      /\ try' = [try EXCEPT ![m]["scan"] = IF req[m]["scan"].st = "clear" THEN "lock" ELSE "idle"]
      /\ req' = [req EXCEPT ![m]["scan"] = NoReq]
      /\ UNCHANGED <<item, stable, dirty, merged, mode, vino, bit, found, map, trying,
                     mount, rids, recov, failovers>>
      BY Zenon DEF ScanAnswer, vars, itemVars, cacheVars, tryVars, serverVars

<1>t. /\ try' \in [Mount -> [Task -> {"idle", "ask", "scanwait", "lock", "data", "wait", "test", "delete"}]]
      /\ try'[m]["scan"] \in {"lock", "idle"}
      /\ \A y \in Task : y # "scan" => try'[m][y] = try[m][y]
      /\ \A p \in Mount \ {m} : try'[p] = try[p]
  <2> DEFINE s == IF req[m]["scan"].st = "clear" THEN "lock" ELSE "idle"
  <2>1. s \in {"idle", "ask", "scanwait", "lock", "data", "wait", "test", "delete"} /\ s \in {"lock", "idle"} /\ "scan" \in Task
        BY DEF Task
  <2>2. try' = [try EXCEPT ![m]["scan"] = s] BY <1>u
  <2> HIDE DEF s
  <2>3. QED BY <1>i, <2>1, <2>2, TryPut, Zenon
<1>r. /\ req' \in [Mount -> [Task -> Req]]
      /\ req'[m]["scan"] = NoReq
      /\ \A y \in Task : y # "scan" => req'[m][y] = req[m][y]
      /\ \A p \in Mount \ {m} : req'[p] = req[p]
  <2>1. NoReq \in Req /\ "scan" \in Task BY DEF Task, Req, NoReq
  <2>2. req \in [Mount -> [Task -> Req]] BY <1>i, Zenon DEF TypeOK
  <2>3. req' \in [Mount -> [Task -> Req]] BY <1>u, <2>1, <2>2
  <2>4. req'[m]["scan"] = NoReq BY <1>u, <2>1, <2>2
  <2>5. \A y \in Task : y # "scan" => req'[m][y] = req[m][y] BY <1>u, <2>2
  <2>6. \A p \in Mount \ {m} : req'[p] = req[p] BY <1>u, <2>2
  <2>7. QED BY <2>3, <2>4, <2>5, <2>6, Zenon
<1>o. \A p \in Mount \ {m} : try'[p] = try[p] /\ req'[p] = req[p] BY <1>t, <1>r, Zenon
<1>s. \A o \in Mount : (InUse(o)' => InUse(o)) /\ (Known(o)' => Known(o))
      BY <1>u, Zenon DEF InUse, Known
<1>1. TypeOK' BY <1>i, <1>u, <1>t, <1>r, Zenon DEF TypeOK
<1>2. BitsMatchCache' BY <1>i, <1>u, Zenon DEF BitsMatchCache
<1>3. OrphanTracked' BY <1>i, <1>u, Zenon DEF OrphanTracked
<1>4. UsedNotDeleted' BY <1>i, <1>u, <1>s, Zenon DEF UsedNotDeleted, InUse
<1>5. LockedItems' BY <1>i, <1>u, <1>s, LockedFrame, Zenon DEF Runs
<1>6. ASSUME NEW p \in Mount PROVE TasksRun(p)' /\ DeleterAlone(p)' /\ MapsTrue(p)'
  <2>i. TasksRun(p) /\ DeleterAlone(p) /\ MapsTrue(p) BY <1>i
  <2>1. CASE p # m
    <3>e. /\ mode'[p] = mode[p] /\ vino'[p] = vino[p] /\ bit'[p] = bit[p] /\ found'[p] = found[p] /\ map'[p] = map[p]
          /\ trying'[p] = trying[p] /\ try'[p] = try[p] /\ req'[p] = req[p] /\ mount'[p] = mount[p]
          BY <1>u, <1>o, <2>1
    <3>1. TasksRun(p)' BY <2>i, <3>e, TasksFrame, Zenon
    <3>2. DeleterAlone(p)' BY <1>u, <1>s, <2>i, <3>e, DeleterFrame, Zenon
    <3>3. MapsTrue(p)' BY <1>s, <2>i, <3>e, MapsFrame, Zenon DEF Runs
    <3>4. QED BY <3>1, <3>2, <3>3, Zenon
  <2>2. CASE p = m
    <3>1. TasksRun(p)'
          BY <1>u, <1>t, <2>i, <2>2 DEF TasksRun, Runs, Held, Task
    <3>2. DeleterAlone(p)'
      <4>1. \A y \in Task : try'[m][y] = "delete" => try[m][y] = "delete" BY Zenon, <1>t
      <4>2. QED BY <1>u, <1>s, <2>i, <2>2, <4>1, DeleterFrame, Zenon
    <3>3. MapsTrue(p)'
      <4>1. /\ try'[m]["scan"] # "wait" /\ try'[m]["evict"] = try[m]["evict"]
            /\ req'[m]["evict"] = req[m]["evict"] /\ req'[m]["scan"] = NoReq
            BY <1>t, <1>r DEF Task
      <4>2. NoReq.st \notin {"sent", "queued"} BY Zenon DEF NoReq
      <4>3. QED BY <1>u, <1>s, <2>i, <2>2, <4>1, <4>2 DEF MapsTrue, Runs, Task
    <3>4. QED BY <3>1, <3>2, <3>3, Zenon
  <2>3. QED BY <2>1, <2>2
<1>7. QED BY <1>1, <1>2, <1>3, <1>4, <1>5, <1>6, Zenon DEF DeletionInv

\* The task is done: it holds the lock no more, and an eviction frees the inode.
LEMMA DoneFacts ==
    ASSUME TypeOK, NEW m \in Mount, NEW x \in Task, TasksRun(m), try[m][x] # "idle", Done(m, x)
    PROVE  /\ vino' \in [Mount -> Vino]
           /\ try' \in [Mount -> [Task -> {"idle", "ask", "scanwait", "lock", "data", "wait", "test", "delete"}]]
           /\ try'[m][x] = "idle"
           /\ \A y \in Task : y # x => try'[m][y] = try[m][y]
           /\ \A p \in Mount \ {m} : try'[p] = try[p] /\ vino'[p] = vino[p]
           /\ x = "evict" => vino'[m].st = "none"
           /\ x = "scan" => vino' = vino
           /\ vino'[m].st = "cached" <=> vino[m].st = "cached"
           /\ vino'[m].st = "cached" => vino'[m] = vino[m]
           /\ \A o \in Mount : (InUse(o)' => InUse(o)) /\ (Known(o)' => Known(o))
<1>1. /\ try' = [try EXCEPT ![m][x] = "idle"]
      /\ x = "evict" => vino' = [vino EXCEPT ![m] = NoVino]
      /\ x # "evict" => vino' = vino
      BY DEF Done
<1>2. /\ try' \in [Mount -> [Task -> {"idle", "ask", "scanwait", "lock", "data", "wait", "test", "delete"}]]
      /\ try'[m][x] = "idle"
      /\ \A y \in Task : y # x => try'[m][y] = try[m][y]
      /\ \A p \in Mount \ {m} : try'[p] = try[p]
      BY Zenon, <1>1, TryPut
<1>3. vino \in [Mount -> Vino] BY Zenon DEF TypeOK
<1>4. NoVino \in Vino /\ NoVino.st = "none" BY DEF NoVino, Vino
<1>5. /\ vino' \in [Mount -> Vino]
      /\ \A p \in Mount \ {m} : vino'[p] = vino[p]
      /\ x = "evict" => vino'[m].st = "none"
      BY Zenon, <1>1, <1>3, <1>4
<1>6. x = "evict" => vino[m].st = "freeing" BY DEF TasksRun
<1>7. /\ vino'[m].st = "cached" <=> vino[m].st = "cached"
      /\ vino'[m].st = "cached" => vino'[m] = vino[m]
      BY <1>1, <1>5, <1>6
<1>8. ASSUME NEW o \in Mount PROVE (InUse(o)' => InUse(o)) /\ (Known(o)' => Known(o))
      BY <1>1, <1>5, <1>6 DEF InUse, Known
<1>9. QED BY <1>1, <1>2, <1>5, <1>7, <1>8 DEF Task

\* get_current_lock_data() finds a map that was got under this hold of the lock.
LEMMA DataKnownInv ==
    ASSUME DeletionInv, NEW m \in Mount, NEW x \in Task,
           try[m][x] = "data", try' = [try EXCEPT ![m][x] = "test"],
           UNCHANGED <<item, stable, dirty, merged, mode, vino, bit, found, map, trying,
                       req, mount, rids, recov, failovers>>
    PROVE  DeletionInv'
<1>i. /\ TypeOK /\ BitsMatchCache /\ OrphanTracked /\ UsedNotDeleted /\ LockedItems
      /\ \A p \in Mount : TasksRun(p) /\ DeleterAlone(p) /\ MapsTrue(p)
      BY Zenon DEF DeletionInv
<1>u. /\ try[m][x] = "data"
      /\ try' = [try EXCEPT ![m][x] = "test"]
      /\ UNCHANGED <<item, stable, dirty, merged, mode, vino, bit, found, map, trying,
                     req, mount, rids, recov, failovers>>
      BY Zenon DEF vars, vars, itemVars, cacheVars, tryVars, serverVars

<1>t. /\ try' \in [Mount -> [Task -> {"idle", "ask", "scanwait", "lock", "data", "wait", "test", "delete"}]]
      /\ try'[m][x] = "test"
      /\ \A y \in Task : y # x => try'[m][y] = try[m][y]
      /\ \A p \in Mount \ {m} : try'[p] = try[p]
  <2>1. "test" \in {"idle", "ask", "scanwait", "lock", "data", "wait", "test", "delete"} /\ x \in Task BY DEF Task
  <2>2. QED BY <1>i, <1>u, <2>1, TryPut, Zenon
<1>o. \A p \in Mount \ {m} : try'[p] = try[p] BY <1>t, Zenon
<1>s. \A o \in Mount : (InUse(o)' => InUse(o)) /\ (Known(o)' => Known(o))
      BY <1>u, Zenon DEF InUse, Known
<1>1. TypeOK' BY <1>i, <1>u, <1>t, Zenon DEF TypeOK
<1>2. BitsMatchCache' BY <1>i, <1>u, Zenon DEF BitsMatchCache
<1>3. OrphanTracked' BY <1>i, <1>u, Zenon DEF OrphanTracked
<1>4. UsedNotDeleted' BY <1>i, <1>u, <1>s, Zenon DEF UsedNotDeleted, InUse
<1>5. LockedItems' BY <1>i, <1>u, <1>s, LockedFrame, Zenon DEF Runs
<1>6. ASSUME NEW p \in Mount PROVE TasksRun(p)' /\ DeleterAlone(p)' /\ MapsTrue(p)'
  <2>i. TasksRun(p) /\ DeleterAlone(p) /\ MapsTrue(p) BY <1>i
  <2>1. CASE p # m
    <3>e. /\ mode'[p] = mode[p] /\ vino'[p] = vino[p] /\ bit'[p] = bit[p] /\ found'[p] = found[p] /\ map'[p] = map[p]
          /\ trying'[p] = trying[p] /\ try'[p] = try[p] /\ req'[p] = req[p] /\ mount'[p] = mount[p]
          BY <1>u, <1>o, <2>1
    <3>1. TasksRun(p)' BY <2>i, <3>e, TasksFrame, Zenon
    <3>2. DeleterAlone(p)' BY <1>u, <1>s, <2>i, <3>e, DeleterFrame, Zenon
    <3>3. MapsTrue(p)' BY <1>s, <2>i, <3>e, MapsFrame, Zenon DEF Runs
    <3>4. QED BY <3>1, <3>2, <3>3, Zenon
  <2>2. CASE p = m
    <3>1. TasksRun(p)'
          BY <1>u, <1>t, <2>i, <2>2 DEF TasksRun, Runs, Held, Task
    <3>2. DeleterAlone(p)'
      <4>1. \A y \in Task : try'[m][y] = "delete" => try[m][y] = "delete" BY Zenon, <1>t
      <4>2. QED BY <1>u, <1>s, <2>i, <2>2, <4>1, DeleterFrame, Zenon
    <3>3. MapsTrue(p)'
      <4>1. \A y \in Task : try'[m][y] = "wait" => try[m][y] = "wait" BY <1>t
      <4>2. \A y \in Task : try'[m][y] \notin {"wait", "scanwait"} => try[m][y] \notin {"wait", "scanwait"}
            BY <1>u, <1>t
      <4>3. QED BY <1>u, <1>s, <2>i, <2>2, <4>1, <4>2 DEF MapsTrue, Runs
    <3>4. QED BY <3>1, <3>2, <3>3, Zenon
  <2>3. QED BY <2>1, <2>2
<1>7. QED BY <1>1, <1>2, <1>3, <1>4, <1>5, <1>6, Zenon DEF DeletionInv

\* get_current_lock_data() asks for the map.
LEMMA DataAskInv ==
    ASSUME DeletionInv, NEW m \in Mount, NEW x \in Task,
           try[m][x] = "data", map[m] = "stale", try' = [try EXCEPT ![m][x] = "wait"],
           map' = [map EXCEPT ![m] = "asking"], req' = [req EXCEPT ![m][x].st = "sent"],
           UNCHANGED <<item, stable, dirty, merged, mode, vino, bit, found, trying,
                       mount, rids, recov, failovers>>
    PROVE  DeletionInv'
<1>i. /\ TypeOK /\ BitsMatchCache /\ OrphanTracked /\ UsedNotDeleted /\ LockedItems
      /\ \A p \in Mount : TasksRun(p) /\ DeleterAlone(p) /\ MapsTrue(p)
      BY Zenon DEF DeletionInv
<1>u. /\ try[m][x] = "data" /\ map[m] = "stale"
      /\ try' = [try EXCEPT ![m][x] = "wait"]
      /\ map' = [map EXCEPT ![m] = "asking"]
      /\ req' = [req EXCEPT ![m][x].st = "sent"]
      /\ UNCHANGED <<item, stable, dirty, merged, mode, vino, bit, found, trying,
                     mount, rids, recov, failovers>>
      BY Zenon DEF vars, vars, itemVars, cacheVars, tryVars, serverVars

<1>t. /\ try' \in [Mount -> [Task -> {"idle", "ask", "scanwait", "lock", "data", "wait", "test", "delete"}]]
      /\ try'[m][x] = "wait"
      /\ \A y \in Task : y # x => try'[m][y] = try[m][y]
      /\ \A p \in Mount \ {m} : try'[p] = try[p]
  <2>1. "wait" \in {"idle", "ask", "scanwait", "lock", "data", "wait", "test", "delete"} /\ x \in Task BY DEF Task
  <2>2. QED BY <1>i, <1>u, <2>1, TryPut, Zenon
<1>r. /\ req' \in [Mount -> [Task -> Req]]
      /\ req'[m][x] = [NoReq EXCEPT !.st = "sent"]
      /\ \A y \in Task : y # x => req'[m][y] = req[m][y]
      /\ \A p \in Mount \ {m} : req'[p] = req[p]
  <2> DEFINE r == [NoReq EXCEPT !.st = "sent"]
  <2>1. r \in Req /\ x \in Task BY Zenon DEF Task, Req, NoReq
  <2>2. req[m][x] = NoReq BY <1>u, NothingSent
  <2>3. req' = [req EXCEPT ![m][x] = r] BY <1>u, <2>2
  <2> HIDE DEF r
  <2>4. req \in [Mount -> [Task -> Req]] BY <1>i, Zenon DEF TypeOK
  <2>5. req' \in [Mount -> [Task -> Req]] BY <2>1, <2>3, <2>4
  <2>6. req'[m][x] = r BY <2>1, <2>3, <2>4
  <2>7. \A y \in Task : y # x => req'[m][y] = req[m][y] BY <2>3, <2>4
  <2>8. \A p \in Mount \ {m} : req'[p] = req[p] BY <2>3, <2>4
  <2>9. QED BY <2>5, <2>6, <2>7, <2>8, Zenon DEF r
<1>a. /\ map' \in [Mount -> {"stale", "asking", "clear", "set"}]
      /\ map'[m] = "asking" /\ \A p \in Mount \ {m} : map'[p] = map[p]
      BY <1>i, <1>u DEF TypeOK
<1>o. \A p \in Mount \ {m} : map'[p] = map[p] /\ try'[p] = try[p] /\ req'[p] = req[p] BY <1>t, <1>r, <1>a, Zenon
<1>s. \A o \in Mount : (InUse(o)' => InUse(o)) /\ (Known(o)' => Known(o))
      BY <1>u, Zenon DEF InUse, Known
<1>1. TypeOK' BY <1>i, <1>u, <1>t, <1>r, <1>a, Zenon DEF TypeOK
<1>2. BitsMatchCache' BY <1>i, <1>u, ZenonT(60) DEF BitsMatchCache
<1>3. OrphanTracked' BY <1>i, <1>u, Zenon DEF OrphanTracked
<1>4. UsedNotDeleted' BY <1>i, <1>u, <1>s, Zenon DEF UsedNotDeleted, InUse
<1>5. LockedItems' BY <1>i, <1>u, <1>s, LockedFrame, Zenon DEF Runs
<1>6. ASSUME NEW p \in Mount PROVE TasksRun(p)' /\ DeleterAlone(p)' /\ MapsTrue(p)'
  <2>i. TasksRun(p) /\ DeleterAlone(p) /\ MapsTrue(p) BY <1>i
  <2>1. CASE p # m
    <3>e. /\ mode'[p] = mode[p] /\ vino'[p] = vino[p] /\ bit'[p] = bit[p] /\ found'[p] = found[p] /\ map'[p] = map[p]
          /\ trying'[p] = trying[p] /\ try'[p] = try[p] /\ req'[p] = req[p] /\ mount'[p] = mount[p]
          BY <1>u, <1>o, <2>1
    <3>1. TasksRun(p)' BY <2>i, <3>e, TasksFrame, Zenon
    <3>2. DeleterAlone(p)' BY <1>u, <1>s, <2>i, <3>e, DeleterFrame, Zenon
    <3>3. MapsTrue(p)' BY <1>s, <2>i, <3>e, MapsFrame, Zenon DEF Runs
    <3>4. QED BY <3>1, <3>2, <3>3, Zenon
  <2>2. CASE p = m
    <3>1. TasksRun(p)'
          BY <1>u, <1>t, <1>a, <2>i, <2>2 DEF TasksRun, Runs, Held, Task
    <3>2. DeleterAlone(p)'
      <4>1. \A y \in Task : try'[m][y] = "delete" => try[m][y] = "delete" BY <1>t
      <4>2. QED BY <1>u, <1>s, <2>i, <2>2, <4>1, DeleterFrame, Zenon
    <3>3. MapsTrue(p)'
      <4>1. /\ req'[m][x].st = "sent" /\ req'[m][x].ask = {} /\ req'[m][x].answer = {}
            BY <1>r DEF NoReq
      <4>2. \A y \in Task : y # x => try'[m][y] = try[m][y] /\ req'[m][y] = req[m][y] BY <1>t, <1>r
      <4>3. map'[m] = "asking" /\ try'[m][x] = "wait" BY <1>a, <1>t
      <4>4. QED BY <1>u, <1>s, <2>i, <2>2, <4>1, <4>2, <4>3 DEF MapsTrue, Runs
    <3>4. QED BY <3>1, <3>2, <3>3, Zenon
  <2>3. QED BY <2>1, <2>2
<1>7. QED BY <1>1, <1>2, <1>3, <1>4, <1>5, <1>6, Zenon DEF DeletionInv

\* get_current_lock_data() finds a current map, or asks for one.
LEMMA LockDataInv ==
    ASSUME DeletionInv, NEW m \in Mount, NEW x \in Task, get_current_lock_data(m, x)
    PROVE  DeletionInv'
BY DataKnownInv, DataAskInv, Zenon
   DEF get_current_lock_data, vars, itemVars, cacheVars, tryVars, serverVars

\* The response with the map comes: no mount that it has clear uses the inode.
LEMMA GotMapInv ==
    ASSUME DeletionInv, NEW m \in Mount, NEW x \in Task,
           try[m][x] = "wait", req[m][x].st \in {"clear", "set"},
           try' = [try EXCEPT ![m][x] = "test"], map' = [map EXCEPT ![m] = req[m][x].st],
           req' = [req EXCEPT ![m][x] = NoReq],
           UNCHANGED <<item, stable, dirty, merged, mode, vino, bit, found, trying,
                       mount, rids, recov, failovers>>
    PROVE  DeletionInv'
<1>i. /\ TypeOK /\ BitsMatchCache /\ OrphanTracked /\ UsedNotDeleted /\ LockedItems
      /\ \A p \in Mount : TasksRun(p) /\ DeleterAlone(p) /\ MapsTrue(p)
      BY Zenon DEF DeletionInv
<1>u. /\ try[m][x] = "wait" /\ req[m][x].st \in {"clear", "set"}
      /\ try' = [try EXCEPT ![m][x] = "test"]
      /\ map' = [map EXCEPT ![m] = req[m][x].st]
      /\ req' = [req EXCEPT ![m][x] = NoReq]
      /\ UNCHANGED <<item, stable, dirty, merged, mode, vino, bit, found, trying,
                     mount, rids, recov, failovers>>
      BY Zenon DEF vars, vars, itemVars, cacheVars, tryVars, serverVars

<1>t. /\ try' \in [Mount -> [Task -> {"idle", "ask", "scanwait", "lock", "data", "wait", "test", "delete"}]]
      /\ try'[m][x] = "test"
      /\ \A y \in Task : y # x => try'[m][y] = try[m][y]
      /\ \A p \in Mount \ {m} : try'[p] = try[p]
  <2>1. "test" \in {"idle", "ask", "scanwait", "lock", "data", "wait", "test", "delete"} /\ x \in Task BY DEF Task
  <2>2. QED BY <1>i, <1>u, <2>1, TryPut, Zenon
<1>r. /\ req' \in [Mount -> [Task -> Req]]
      /\ req'[m][x] = NoReq
      /\ \A y \in Task : y # x => req'[m][y] = req[m][y]
      /\ \A p \in Mount \ {m} : req'[p] = req[p]
  <2>1. NoReq \in Req /\ x \in Task BY DEF Task, Req, NoReq
  <2>2. req \in [Mount -> [Task -> Req]] BY <1>i, Zenon DEF TypeOK
  <2>3. req' \in [Mount -> [Task -> Req]] BY <1>u, <2>1, <2>2
  <2>4. req'[m][x] = NoReq BY <1>u, <2>1, <2>2
  <2>5. \A y \in Task : y # x => req'[m][y] = req[m][y] BY <1>u, <2>2
  <2>6. \A p \in Mount \ {m} : req'[p] = req[p] BY Zenon, <1>u, <2>2
  <2>7. QED BY <2>3, <2>4, <2>5, <2>6, Zenon
<1>a. /\ map' \in [Mount -> {"stale", "asking", "clear", "set"}]
      /\ map'[m] = req[m][x].st /\ \A p \in Mount \ {m} : map'[p] = map[p]
      BY <1>i, <1>u DEF TypeOK
<1>o. \A p \in Mount \ {m} : map'[p] = map[p] /\ try'[p] = try[p] /\ req'[p] = req[p] BY <1>t, <1>r, <1>a, Zenon
<1>s. \A o \in Mount : (InUse(o)' => InUse(o)) /\ (Known(o)' => Known(o))
      BY <1>u, Zenon DEF InUse, Known
<1>1. TypeOK' BY <1>i, <1>u, <1>t, <1>r, <1>a, ZenonT(60) DEF TypeOK
<1>2. BitsMatchCache' BY <1>i, <1>u, Zenon DEF BitsMatchCache
<1>3. OrphanTracked' BY <1>i, <1>u, Zenon DEF OrphanTracked
<1>4. UsedNotDeleted' BY <1>i, <1>u, <1>s, Zenon DEF UsedNotDeleted, InUse
<1>5. LockedItems' BY <1>i, <1>u, <1>s, LockedFrame, Zenon DEF Runs
<1>6. ASSUME NEW p \in Mount PROVE TasksRun(p)' /\ DeleterAlone(p)' /\ MapsTrue(p)'
  <2>i. TasksRun(p) /\ DeleterAlone(p) /\ MapsTrue(p) BY <1>i
  <2>1. CASE p # m
    <3>e. /\ mode'[p] = mode[p] /\ vino'[p] = vino[p] /\ bit'[p] = bit[p] /\ found'[p] = found[p] /\ map'[p] = map[p]
          /\ trying'[p] = trying[p] /\ try'[p] = try[p] /\ req'[p] = req[p] /\ mount'[p] = mount[p]
          BY <1>u, <1>o, <2>1
    <3>1. TasksRun(p)' BY <2>i, <3>e, TasksFrame, Zenon
    <3>2. DeleterAlone(p)' BY <1>u, <1>s, <2>i, <3>e, DeleterFrame, Zenon
    <3>3. MapsTrue(p)' BY <1>s, <2>i, <3>e, MapsFrame, Zenon DEF Runs
    <3>4. QED BY <3>1, <3>2, <3>3, Zenon
  <2>2. CASE p = m
    <3>1. TasksRun(p)'
      <4>1. \A y \in Task : y # x => try[m][y] # "wait" BY <1>u, <2>i, <2>2 DEF TasksRun, Task
      <4>2. QED BY <1>u, <1>t, <1>a, <2>i, <2>2, <4>1 DEF TasksRun, Runs, Held, Task
    <3>2. DeleterAlone(p)'
      <4>1. \A y \in Task : try'[m][y] = "delete" => try[m][y] = "delete" BY Zenon, <1>t
      <4>2. QED BY <1>u, <1>s, <2>i, <2>2, <4>1, DeleterFrame, Zenon
    <3>3. MapsTrue(p)'
      <4>1. map'[m] = "clear" => \A o \in Mount \ {m} : ~ InUse(o)'
            BY Zenon, <1>u, <1>s, <1>a, <2>i, <2>2 DEF MapsTrue
      <4>2. \A y \in Task : y # x => try'[m][y] = try[m][y] /\ req'[m][y] = req[m][y] BY Zenon, <1>t, <1>r
      <4>3. req'[m][x] = NoReq /\ NoReq.st = "none" /\ try'[m][x] = "test" BY <1>r, <1>t DEF NoReq
      <4>4. QED BY <1>u, <1>s, <2>i, <2>2, <4>1, <4>2, <4>3 DEF MapsTrue, Runs
    <3>4. QED BY <3>1, <3>2, <3>3, Zenon
  <2>3. QED BY <2>1, <2>2
<1>7. QED BY <1>1, <1>2, <1>3, <1>4, <1>5, <1>6, Zenon DEF DeletionInv

\* The request for the map failed.
LEMMA MapFailedInv ==
    ASSUME DeletionInv, NEW m \in Mount, NEW x \in Task,
           try[m][x] = "wait", Done(m, x), map' = [map EXCEPT ![m] = "stale"],
           req' = [req EXCEPT ![m][x] = NoReq],
           UNCHANGED <<item, stable, dirty, merged, mode, bit, found, trying, mount,
                       rids, recov, failovers>>
    PROVE  DeletionInv'
<1>i. /\ TypeOK /\ BitsMatchCache /\ OrphanTracked /\ UsedNotDeleted /\ LockedItems
      /\ \A p \in Mount : TasksRun(p) /\ DeleterAlone(p) /\ MapsTrue(p)
      BY Zenon DEF DeletionInv
<1>u. /\ try[m][x] = "wait" /\ Done(m, x)
      /\ map' = [map EXCEPT ![m] = "stale"]
      /\ req' = [req EXCEPT ![m][x] = NoReq]
      /\ UNCHANGED <<item, stable, dirty, merged, mode, bit, found, trying, mount,
                     rids, recov, failovers>>
      BY Zenon DEF vars, vars, itemVars, cacheVars, tryVars, serverVars

<1>t. /\ vino' \in [Mount -> Vino]
      /\ try' \in [Mount -> [Task -> {"idle", "ask", "scanwait", "lock", "data", "wait", "test", "delete"}]]
      /\ try'[m][x] = "idle"
      /\ \A y \in Task : y # x => try'[m][y] = try[m][y]
      /\ \A p \in Mount \ {m} : try'[p] = try[p] /\ vino'[p] = vino[p]
      /\ x = "evict" => vino'[m].st = "none"
      /\ x = "scan" => vino' = vino
      /\ vino'[m].st = "cached" <=> vino[m].st = "cached"
      /\ vino'[m].st = "cached" => vino'[m] = vino[m]
      /\ \A o \in Mount : (InUse(o)' => InUse(o)) /\ (Known(o)' => Known(o))
  <2>1. try[m][x] # "idle" BY <1>u
  <2>2. QED BY <1>i, <1>u, <2>1, DoneFacts, Zenon
<1>r. /\ req' \in [Mount -> [Task -> Req]]
      /\ req'[m][x] = NoReq
      /\ \A y \in Task : y # x => req'[m][y] = req[m][y]
      /\ \A p \in Mount \ {m} : req'[p] = req[p]
  <2>1. NoReq \in Req /\ x \in Task BY DEF Task, Req, NoReq
  <2>2. req \in [Mount -> [Task -> Req]] BY <1>i, Zenon DEF TypeOK
  <2>3. req' \in [Mount -> [Task -> Req]] BY <1>u, <2>1, <2>2
  <2>4. req'[m][x] = NoReq BY <1>u, <2>1, <2>2
  <2>5. \A y \in Task : y # x => req'[m][y] = req[m][y] BY <1>u, <2>2
  <2>6. \A p \in Mount \ {m} : req'[p] = req[p] BY Zenon, <1>u, <2>2
  <2>7. QED BY <2>3, <2>4, <2>5, <2>6, Zenon
<1>a. /\ map' \in [Mount -> {"stale", "asking", "clear", "set"}]
      /\ map'[m] = "stale" /\ \A p \in Mount \ {m} : map'[p] = map[p]
      BY <1>i, <1>u DEF TypeOK
<1>o. \A p \in Mount \ {m} : vino'[p] = vino[p] /\ map'[p] = map[p] /\ try'[p] = try[p] /\ req'[p] = req[p]
      BY <1>t, <1>r, <1>a, Zenon
<1>s. \A o \in Mount : (InUse(o)' => InUse(o)) /\ (Known(o)' => Known(o))
      BY <1>t DEF InUse, Known
<1>1. TypeOK' BY <1>i, <1>u, <1>t, <1>r, <1>a, ZenonT(60) DEF TypeOK
<1>2. BitsMatchCache'
  <2>1. \A p \in Mount : vino'[p].st = "cached" <=> vino[p].st = "cached" BY <1>t
  <2>2. QED BY <1>i, <1>u, <2>1, Zenon DEF BitsMatchCache
<1>3. OrphanTracked' BY <1>i, <1>u, Zenon DEF OrphanTracked
<1>4. UsedNotDeleted' BY <1>i, <1>u, <1>s, Zenon DEF UsedNotDeleted, InUse
<1>5. LockedItems' BY <1>i, <1>u, <1>s, LockedFrame, Zenon DEF Runs
<1>6. ASSUME NEW p \in Mount PROVE TasksRun(p)' /\ DeleterAlone(p)' /\ MapsTrue(p)'
  <2>i. TasksRun(p) /\ DeleterAlone(p) /\ MapsTrue(p) BY <1>i
  <2>1. CASE p # m
    <3>e. /\ mode'[p] = mode[p] /\ vino'[p] = vino[p] /\ bit'[p] = bit[p] /\ found'[p] = found[p] /\ map'[p] = map[p]
          /\ trying'[p] = trying[p] /\ try'[p] = try[p] /\ req'[p] = req[p] /\ mount'[p] = mount[p]
          BY <1>u, <1>o, <2>1
    <3>1. TasksRun(p)' BY <2>i, <3>e, TasksFrame, Zenon
    <3>2. DeleterAlone(p)' BY <1>u, <1>s, <2>i, <3>e, DeleterFrame, Zenon
    <3>3. MapsTrue(p)' BY <1>s, <2>i, <3>e, MapsFrame, Zenon DEF Runs
    <3>4. QED BY <3>1, <3>2, <3>3, Zenon
  <2>2. CASE p = m
    <3>1. TasksRun(p)'
      <4>1. \A y \in Task : y # x => try[m][y] # "wait" BY Zenon, <1>u, <2>i, <2>2 DEF TasksRun, Task
      <4>2. QED BY <1>u, <1>t, <1>a, <2>i, <2>2, <4>1 DEF TasksRun, Runs, Held, Task
    <3>2. DeleterAlone(p)'
      <4>1. \A y \in Task : try'[m][y] = "delete" => try[m][y] = "delete" BY Zenon, <1>t
      <4>2. QED BY Zenon, <1>u, <1>s, <1>t, <2>i, <2>2, <4>1 DEF DeleterAlone
    <3>3. MapsTrue(p)'
      <4>2. \A y \in Task : y # x => try'[m][y] = try[m][y] /\ req'[m][y] = req[m][y] BY Zenon, <1>t, <1>r
      <4>3. /\ req'[m][x] = NoReq /\ NoReq.st = "none" /\ try'[m][x] = "idle"
            /\ map'[m] = "stale"
            BY Zenon, <1>r, <1>t, <1>a DEF NoReq
      <4>4. QED BY <1>u, <1>s, <2>i, <2>2, <4>2, <4>3 DEF MapsTrue, Runs
    <3>4. QED BY <3>1, <3>2, <3>3, Zenon
  <2>3. QED BY <2>1, <2>2
<1>7. QED BY <1>1, <1>2, <1>3, <1>4, <1>5, <1>6, Zenon DEF DeletionInv

\* The response to the request for the map, or an error.
LEMMA GotLockDataInv ==
    ASSUME DeletionInv, NEW m \in Mount, NEW x \in Task, GotLockData(m, x)
    PROVE  DeletionInv'
<1>1. CASE req[m][x].st = "error"
      BY <1>1, MapFailedInv, Zenon DEF GotLockData, vars, itemVars, cacheVars, tryVars, serverVars
<1>2. CASE req[m][x].st # "error"
  <2>1. req[m][x].st \in {"clear", "set"} BY <1>2 DEF GotLockData, Answered
  <2>2. QED BY <1>2, <2>1, GotMapInv, Zenon DEF GotLockData, vars, itemVars, cacheVars, tryVars, serverVars
<1>3. QED BY <1>1, <1>2

\* The conditions for deletion don't hold.
LEMMA TryFailedInv ==
    ASSUME DeletionInv, NEW m \in Mount, NEW x \in Task,
           try[m][x] = "test", Done(m, x),
           UNCHANGED <<item, stable, dirty, merged, mode, bit, found, map, trying, req,
                       mount, rids, recov, failovers>>
    PROVE  DeletionInv'
<1>i. /\ TypeOK /\ BitsMatchCache /\ OrphanTracked /\ UsedNotDeleted /\ LockedItems
      /\ \A p \in Mount : TasksRun(p) /\ DeleterAlone(p) /\ MapsTrue(p)
      BY Zenon DEF DeletionInv
<1>u. /\ try[m][x] = "test" /\ Done(m, x)
      /\ UNCHANGED <<item, stable, dirty, merged, mode, bit, found, map, trying, req,
                     mount, rids, recov, failovers>>
      BY Zenon DEF vars, vars, itemVars, cacheVars, tryVars, serverVars

<1>t. /\ vino' \in [Mount -> Vino]
      /\ try' \in [Mount -> [Task -> {"idle", "ask", "scanwait", "lock", "data", "wait", "test", "delete"}]]
      /\ try'[m][x] = "idle"
      /\ \A y \in Task : y # x => try'[m][y] = try[m][y]
      /\ \A p \in Mount \ {m} : try'[p] = try[p] /\ vino'[p] = vino[p]
      /\ x = "evict" => vino'[m].st = "none"
      /\ x = "scan" => vino' = vino
      /\ vino'[m].st = "cached" <=> vino[m].st = "cached"
      /\ vino'[m].st = "cached" => vino'[m] = vino[m]
      /\ \A o \in Mount : (InUse(o)' => InUse(o)) /\ (Known(o)' => Known(o))
  <2>1. try[m][x] # "idle" BY Zenon, <1>u
  <2>2. QED BY <1>i, <1>u, <2>1, DoneFacts, Zenon
<1>o. \A p \in Mount \ {m} : vino'[p] = vino[p] /\ try'[p] = try[p] BY <1>t, Zenon
<1>s. \A o \in Mount : (InUse(o)' => InUse(o)) /\ (Known(o)' => Known(o))
      BY <1>t DEF InUse, Known
<1>1. TypeOK' BY <1>i, <1>u, <1>t, Zenon DEF TypeOK
<1>2. BitsMatchCache'
  <2>1. \A p \in Mount : vino'[p].st = "cached" <=> vino[p].st = "cached" BY <1>t
  <2>2. QED BY <1>i, <1>u, <2>1, Zenon DEF BitsMatchCache
<1>3. OrphanTracked' BY <1>i, <1>u, Zenon DEF OrphanTracked
<1>4. UsedNotDeleted' BY <1>i, <1>u, <1>s, Zenon DEF UsedNotDeleted, InUse
<1>5. LockedItems' BY <1>i, <1>u, <1>s, LockedFrame, Zenon DEF Runs
<1>6. ASSUME NEW p \in Mount PROVE TasksRun(p)' /\ DeleterAlone(p)' /\ MapsTrue(p)'
  <2>i. TasksRun(p) /\ DeleterAlone(p) /\ MapsTrue(p) BY Zenon, <1>i
  <2>1. CASE p # m
    <3>e. /\ mode'[p] = mode[p] /\ vino'[p] = vino[p] /\ bit'[p] = bit[p] /\ found'[p] = found[p] /\ map'[p] = map[p]
          /\ trying'[p] = trying[p] /\ try'[p] = try[p] /\ req'[p] = req[p] /\ mount'[p] = mount[p]
          BY Zenon, <1>u, <1>o, <2>1
    <3>1. TasksRun(p)' BY <2>i, <3>e, TasksFrame, Zenon
    <3>2. DeleterAlone(p)' BY <1>u, <1>s, <2>i, <3>e, DeleterFrame, Zenon
    <3>3. MapsTrue(p)' BY <1>s, <2>i, <3>e, MapsFrame, Zenon DEF Runs
    <3>4. QED BY <3>1, <3>2, <3>3, Zenon
  <2>2. CASE p = m
    <3>1. TasksRun(p)'
          BY ZenonT(60), <1>u, <1>t, <2>i, <2>2 DEF TasksRun, Runs, Held, Task
    <3>2. DeleterAlone(p)'
      <4>1. \A y \in Task : try'[m][y] = "delete" => try[m][y] = "delete" BY <1>t
      <4>2. QED BY Zenon, <1>u, <1>s, <1>t, <2>i, <2>2, <4>1 DEF DeleterAlone
    <3>3. MapsTrue(p)'
      <4>1. \A y \in Task : try'[m][y] = "wait" => try[m][y] = "wait" BY Zenon, <1>t
      <4>2. \A y \in Task : try'[m][y] \notin {"wait", "scanwait"} => try[m][y] \notin {"wait", "scanwait"}
            BY <1>u, <1>t
      <4>3. QED BY ZenonT(60), <1>u, <1>s, <2>i, <2>2, <4>1, <4>2 DEF MapsTrue, Runs
    <3>4. QED BY <3>1, <3>2, <3>3, Zenon
  <2>3. QED BY <2>1, <2>2
<1>7. QED BY <1>1, <1>2, <1>3, <1>4, <1>5, <1>6, Zenon DEF DeletionInv

\* The conditions for deletion hold.
LEMMA TryBeginInv ==
    ASSUME DeletionInv, NEW m \in Mount, NEW x \in Task,
           try[m][x] = "test", ~ trying[m], CanDelete(m), trying' = [trying EXCEPT ![m] = TRUE],
           try' = [try EXCEPT ![m][x] = "delete"],
           UNCHANGED <<item, stable, dirty, merged, mode, vino, bit, found, map, req,
                       mount, rids, recov, failovers>>
    PROVE  DeletionInv'
<1>i. /\ TypeOK /\ BitsMatchCache /\ OrphanTracked /\ UsedNotDeleted /\ LockedItems
      /\ \A p \in Mount : TasksRun(p) /\ DeleterAlone(p) /\ MapsTrue(p)
      BY Zenon DEF DeletionInv
<1>u. /\ try[m][x] = "test" /\ ~ trying[m] /\ CanDelete(m)
      /\ trying' = [trying EXCEPT ![m] = TRUE]
      /\ try' = [try EXCEPT ![m][x] = "delete"]
      /\ UNCHANGED <<item, stable, dirty, merged, mode, vino, bit, found, map, req,
                     mount, rids, recov, failovers>>
      BY Zenon DEF vars, vars, itemVars, cacheVars, tryVars, serverVars

<1>t. /\ try' \in [Mount -> [Task -> {"idle", "ask", "scanwait", "lock", "data", "wait", "test", "delete"}]]
      /\ try'[m][x] = "delete"
      /\ \A y \in Task : y # x => try'[m][y] = try[m][y]
      /\ \A p \in Mount \ {m} : try'[p] = try[p]
  <2>1. "delete" \in {"idle", "ask", "scanwait", "lock", "data", "wait", "test", "delete"} /\ x \in Task BY Zenon DEF Task
  <2>2. QED BY <1>i, <1>u, <2>1, TryPut, Zenon
<1>a. trying' \in [Mount -> BOOLEAN] /\ trying'[m] /\ \A p \in Mount \ {m} : trying'[p] = trying[p]
      BY <1>i, <1>u DEF TypeOK
<1>o. \A p \in Mount \ {m} : trying'[p] = trying[p] /\ try'[p] = try[p] BY <1>t, <1>a, Zenon
<1>s. \A o \in Mount : (InUse(o)' => InUse(o)) /\ (Known(o)' => Known(o))
      BY <1>u, Zenon DEF InUse, Known
<1>1. TypeOK' BY <1>i, <1>u, <1>t, <1>a, Zenon DEF TypeOK
<1>2. BitsMatchCache' BY <1>i, <1>u, Zenon DEF BitsMatchCache
<1>3. OrphanTracked' BY <1>i, <1>u, Zenon DEF OrphanTracked
<1>4. UsedNotDeleted' BY <1>i, <1>u, <1>s, Zenon DEF UsedNotDeleted, InUse
<1>5. LockedItems' BY <1>i, <1>u, <1>s, LockedFrame, Zenon DEF Runs
<1>6. ASSUME NEW p \in Mount PROVE TasksRun(p)' /\ DeleterAlone(p)' /\ MapsTrue(p)'
  <2>i. TasksRun(p) /\ DeleterAlone(p) /\ MapsTrue(p) BY <1>i
  <2>1. CASE p # m
    <3>e. /\ mode'[p] = mode[p] /\ vino'[p] = vino[p] /\ bit'[p] = bit[p] /\ found'[p] = found[p] /\ map'[p] = map[p]
          /\ trying'[p] = trying[p] /\ try'[p] = try[p] /\ req'[p] = req[p] /\ mount'[p] = mount[p]
          BY <1>u, <1>o, <2>1
    <3>1. TasksRun(p)' BY <2>i, <3>e, TasksFrame, Zenon
    <3>2. DeleterAlone(p)' BY <1>u, <1>s, <2>i, <3>e, DeleterFrame, Zenon
    <3>3. MapsTrue(p)' BY <1>s, <2>i, <3>e, MapsFrame, Zenon DEF Runs
    <3>4. QED BY <3>1, <3>2, <3>3, Zenon
  <2>2. CASE p = m
    <3>1. TasksRun(p)'
      <4>j. TasksRun(m) BY <2>i, <2>2, Zenon
      <4>e. /\ mode'[m] = mode[m] /\ map'[m] = map[m] /\ vino'[m] = vino[m] /\ found'[m] = found[m]
            /\ mount'[m] = mount[m]
            BY <1>u, Zenon
      <4>1. \A y \in Task : try'[m][y] = "delete" => y = x BY Zenon, <1>u, <1>t, <4>j DEF TasksRun
      <4>2. Held(m) BY <1>u, Zenon DEF Held
      <4>3. mode'[m] = "write" BY <4>j, <4>e, <4>2, Zenon DEF TasksRun
      <4>4. \A y \in Task : try'[m][y] = "wait" => map'[m] = "asking"
        <5>1. \A y \in Task : try'[m][y] = "wait" => try[m][y] = "wait" BY <1>t, ZenonT(60)
        <5>2. QED BY <4>j, <4>e, <5>1, Zenon DEF TasksRun
      <4>5. /\ \A y \in Task : (try'[m][y] = "idle" <=> try[m][y] = "idle")
            /\ try'[m]["evict"] = try'[m]["scan"] => try'[m]["scan"] \notin {"wait", "delete"}
            BY Zenon, <1>u, <1>t, <4>j, <4>1 DEF TasksRun, Task
      <4>6. QED BY <1>a, <2>2, <4>j, <4>e, <4>3, <4>4, <4>5 DEF TasksRun, Runs, Task
    <3>2. DeleterAlone(p)'
      <4>1. Held(m) BY <1>u DEF Held
      <4>2. mode[m] = "write" BY Zenon, <2>i, <2>2, <4>1 DEF TasksRun
      <4>3. \A o \in Mount \ {m} : ~ InUse(o) BY Zenon, <1>u, <2>i, <2>2, <4>2 DEF MapsTrue, CanDelete
      <4>4. vino[m].st # "cached" BY <1>i, <1>u DEF BitsMatchCache, CanDelete, scoutfs_omap_test
      <4>5. ~ InUse(m) BY Zenon, <4>4 DEF InUse
      <4>6. QED BY Zenon, <1>u, <1>s, <2>2, <4>3, <4>4, <4>5 DEF DeleterAlone, CanDelete
    <3>3. MapsTrue(p)'
      <4>1. \A y \in Task : try'[m][y] = "wait" => try[m][y] = "wait" BY <1>t
      <4>2. \A y \in Task : try'[m][y] \notin {"wait", "scanwait"} => try[m][y] \notin {"wait", "scanwait"}
            BY <1>u, <1>t
      <4>3. QED BY Zenon, <1>u, <1>s, <2>i, <2>2, <4>1, <4>2 DEF MapsTrue, Runs
    <3>4. QED BY <3>1, <3>2, <3>3, Zenon
  <2>3. QED BY <2>1, <2>2
<1>7. QED BY <1>1, <1>2, <1>3, <1>4, <1>5, <1>6, Zenon DEF DeletionInv

\* The rest of try_delete_inode_items().
LEMMA TryTestInv ==
    ASSUME DeletionInv, NEW m \in Mount, NEW x \in Task, TryTest(m, x)
    PROVE  DeletionInv'
BY TryBeginInv, TryFailedInv, Zenon DEF TryTest, vars, itemVars, cacheVars, tryVars, serverVars

\* The items are deleted.
LEMMA DeleteItemsInv ==
    ASSUME DeletionInv, NEW m \in Mount, NEW x \in Task, delete_inode_items(m, x)
    PROVE  DeletionInv'
<1>i. /\ TypeOK /\ BitsMatchCache /\ OrphanTracked /\ UsedNotDeleted /\ LockedItems
      /\ \A p \in Mount : TasksRun(p) /\ DeleterAlone(p) /\ MapsTrue(p)
      BY Zenon DEF DeletionInv
<1>u. /\ try[m][x] = "delete" /\ Done(m, x)
      /\ item' = Deleted
      /\ dirty' = m
      /\ trying' = [trying EXCEPT ![m] = FALSE]
      /\ UNCHANGED <<stable, merged, mode, bit, found, map, req, mount, rids, recov,
                     failovers>>
      BY Zenon DEF delete_inode_items, vars, itemVars, cacheVars, tryVars, serverVars

<1>t. /\ vino' \in [Mount -> Vino]
      /\ try' \in [Mount -> [Task -> {"idle", "ask", "scanwait", "lock", "data", "wait", "test", "delete"}]]
      /\ try'[m][x] = "idle"
      /\ \A y \in Task : y # x => try'[m][y] = try[m][y]
      /\ \A p \in Mount \ {m} : try'[p] = try[p] /\ vino'[p] = vino[p]
      /\ x = "evict" => vino'[m].st = "none"
      /\ x = "scan" => vino' = vino
      /\ vino'[m].st = "cached" <=> vino[m].st = "cached"
      /\ vino'[m].st = "cached" => vino'[m] = vino[m]
      /\ \A o \in Mount : (InUse(o)' => InUse(o)) /\ (Known(o)' => Known(o))
  <2>1. try[m][x] # "idle" BY <1>u
  <2>2. QED BY <1>i, <1>u, <2>1, DoneFacts, Zenon
<1>a. trying' \in [Mount -> BOOLEAN] /\ \A p \in Mount \ {m} : trying'[p] = trying[p]
      BY <1>i, <1>u DEF TypeOK
<1>o. \A p \in Mount \ {m} : vino'[p] = vino[p] /\ trying'[p] = trying[p] /\ try'[p] = try[p]
      BY <1>t, <1>a, Zenon
<1>d. item' \in Item /\ item'.st = "gone" /\ item'.orphan = FALSE
      BY Zenon, <1>i, <1>u DEF TypeOK, Item, Deleted
<1>e. \A o \in Mount : ~ InUse(o) BY Zenon, <1>i, <1>u DEF DeleterAlone
<1>f. Runs(m) /\ mode[m] = "write"
  <2>1. TasksRun(m) /\ try[m][x] = "delete" BY <1>i, <1>u, Zenon
  <2>2. Held(m) /\ try[m][x] # "idle" BY <2>1, Zenon DEF Held
  <2>3. QED BY <2>1, <2>2, Zenon DEF TasksRun
<1>s. \A o \in Mount : (InUse(o)' => InUse(o)) /\ (Known(o)' => Known(o))
      BY <1>t, Zenon
<1>1. TypeOK' BY <1>i, <1>u, <1>t, <1>a, <1>d, Zenon DEF TypeOK
<1>2. BitsMatchCache'
  <2>1. \A p \in Mount : vino'[p].st = "cached" <=> vino[p].st = "cached" BY <1>t
  <2>2. QED BY <1>i, <1>u, <2>1, Zenon DEF BitsMatchCache
<1>3. OrphanTracked' BY Zenon, <1>i, <1>u, <1>d DEF OrphanTracked
<1>4. UsedNotDeleted' BY <1>e, <1>s, Zenon DEF UsedNotDeleted, InUse
<1>5. LockedItems'
  <2>1. dirty = None \/ dirty = m BY <1>i, <1>f DEF LockedItems, TypeOK
  <2>2. \A o \in Mount : Known(o)' /\ o # m => stable.st # "none"
        BY <1>i, <1>s, <2>1, NoneAssumption DEF LockedItems
  <2>3. Runs(m)' BY Zenon, <1>f, <1>u DEF Runs
  <2>4. m # None BY NoneAssumption
  <2>5. QED BY Zenon, <1>i, <1>u, <1>d, <1>e, <1>f, <1>s, <2>2, <2>3, <2>4 DEF LockedItems
<1>6. ASSUME NEW p \in Mount PROVE TasksRun(p)' /\ DeleterAlone(p)' /\ MapsTrue(p)'
  <2>i. TasksRun(p) /\ DeleterAlone(p) /\ MapsTrue(p) BY <1>i
  <2>1. CASE p # m
    <3>e. /\ mode'[p] = mode[p] /\ vino'[p] = vino[p] /\ bit'[p] = bit[p] /\ found'[p] = found[p] /\ map'[p] = map[p]
          /\ trying'[p] = trying[p] /\ try'[p] = try[p] /\ req'[p] = req[p] /\ mount'[p] = mount[p]
          BY <1>u, <1>o, <2>1
    <3>1. TasksRun(p)' BY <2>i, <3>e, TasksFrame, Zenon
    <3>2. DeleterAlone(p)'
      <4>1. \A y \in Task : try[p][y] # "delete"
            BY ZenonT(60), <1>i, <1>f, <2>i, <2>1 DEF LockedItems, TasksRun, Held
      <4>2. QED BY <3>e, <4>1 DEF DeleterAlone
    <3>3. MapsTrue(p)' BY <1>s, <2>i, <3>e, MapsFrame, Zenon DEF Runs
    <3>4. QED BY <3>1, <3>2, <3>3, Zenon
  <2>2. CASE p = m
    <3>1. TasksRun(p)'
      <4>1. \A y \in Task : y # x => try[m][y] # "delete" BY Zenon, <1>u, <2>i, <2>2 DEF TasksRun, Task
      <4>2. QED BY Zenon, <1>u, <1>t, <2>i, <2>2, <4>1 DEF TasksRun, Runs, Held, Task
    <3>2. DeleterAlone(p)'
      <4>1. \A y \in Task : try'[m][y] # "delete" BY Zenon, <1>u, <1>t, <2>i, <2>2 DEF TasksRun, Task
      <4>2. QED BY <2>2, <4>1 DEF DeleterAlone
    <3>3. MapsTrue(p)'
      <4>1. \A y \in Task : try'[m][y] = "wait" => try[m][y] = "wait" BY Zenon, <1>t
      <4>2. \A y \in Task : try'[m][y] \notin {"wait", "scanwait"} => try[m][y] \notin {"wait", "scanwait"}
            BY Zenon, <1>u, <1>t
      <4>3. QED BY Zenon, <1>u, <1>s, <2>i, <2>2, <4>1, <4>2 DEF MapsTrue, Runs
    <3>4. QED BY <3>1, <3>2, <3>3, Zenon
  <2>3. QED BY <2>1, <2>2
<1>7. QED BY <1>1, <1>2, <1>3, <1>4, <1>5, <1>6, Zenon DEF DeletionInv

-----------------------------------------------------------------------------
(* Operations that are granted the lock. *)

\* A grant changes nothing for the tasks of the other mounts, which don't hold the lock, and
\* a map that the mount has under write mode is one that it got under it.
LEMMA GrantStep ==
    ASSUME DeletionInv, NEW m \in Mount, NEW want \in {"read", "write"}, CanLock(m, want),
           mode' = GrantedModes(m, want), map' = GrantedMap(m, want),
           UNCHANGED <<found, trying, req, mount>>,
           \A p \in Mount \ {m} : try'[p] = try[p] /\ vino'[p].st = vino[p].st
    PROVE  /\ Runs(m)
           /\ mode' \in [Mount -> Modes]
           /\ map' \in [Mount -> {"stale", "asking", "clear", "set"}]
           /\ mode'[m] \in {want, "write"}
           /\ \A p, o \in Mount : mode'[p] = "write" /\ o # p => p = m /\ mode'[o] = "null"
           /\ mode[m] = "write" => mode' = mode /\ map' = map
           /\ mode[m] # "write" /\ mode'[m] = "write" => map'[m] = "stale"
           /\ Committed(m, want) <=> dirty # None /\ dirty # m
           /\ \A p \in Mount \ {m} : TasksRun(p)' /\ DeleterAlone(p)' /\ MapsTrue(p)'
<1>1. Runs(m) /\ \A p \in Mount \ {m} : ~ Held(p) BY Zenon, GrantExcludes
<1>2. /\ mode' \in [Mount -> Modes]
      /\ mode'[m] \in {want, "write"}
      /\ \A p \in Mount \ {m} : mode'[p] # "write"
      /\ mode'[m] = "write" => \A p \in Mount \ {m} : mode'[p] = "null"
      /\ mode[m] = "write" => mode' = mode
      /\ dirty # None /\ dirty # m => Committed(m, want)
      BY GrantModes
<1>3. /\ map' \in [Mount -> {"stale", "asking", "clear", "set"}]
      /\ \A p \in Mount \ {m} : map'[p] = map[p]
      /\ mode[m] = "write" => map' = map
      /\ mode[m] # "write" /\ mode'[m] = "write" => map'[m] = "stale"
      BY GrantMap
<1>4. \A p, o \in Mount : mode'[p] = "write" /\ o # p => p = m /\ mode'[o] = "null" BY <1>2
<1>5. Committed(m, want) => dirty # None /\ dirty # m BY Zenon DEF Committed
<1>6. ASSUME NEW p \in Mount \ {m} PROVE TasksRun(p)' /\ DeleterAlone(p)' /\ MapsTrue(p)'
  <2>1. TasksRun(p) /\ MapsTrue(p) BY Zenon DEF DeletionInv
  <2>2. ~ Held(p) BY Zenon, <1>1
  <2>3. /\ try'[p] = try[p] /\ vino'[p].st = vino[p].st /\ found'[p] = found[p] /\ trying'[p] = trying[p]
        /\ req'[p] = req[p] /\ mount'[p] = mount[p] /\ map'[p] = map[p] /\ mode'[p] # "write"
        BY <1>2, <1>3
  <2>4. \A x \in Task : try'[p][x] \notin {"data", "wait", "test", "delete"} BY Zenon, <2>2, <2>3 DEF Held
  <2>5. ~ Held(p)' BY Zenon, <2>4 DEF Held
  <2>6. TasksRun(p)' BY Zenon, <2>1, <2>3, <2>4, <2>5 DEF TasksRun, Runs
  <2>7. DeleterAlone(p)' BY <2>4 DEF DeleterAlone
  <2>8. MapsTrue(p)' BY Zenon, <2>1, <2>3, <2>4 DEF MapsTrue, Runs
  <2>9. QED BY Zenon, <2>6, <2>7, <2>8
<1>7. QED BY <1>1, <1>2, <1>3, <1>4, <1>5, <1>6, Zenon

\* try_delete_inode_items() gets the lock.
LEMMA TryLockInv ==
    ASSUME DeletionInv, NEW m \in Mount, NEW x \in Task, TryLock(m, x)
    PROVE  DeletionInv'
<1>i. /\ TypeOK /\ BitsMatchCache /\ OrphanTracked /\ UsedNotDeleted /\ LockedItems
      /\ TasksRun(m) /\ DeleterAlone(m) /\ MapsTrue(m)
      BY Zenon DEF DeletionInv
<1>u. /\ try[m][x] = "lock" /\ CanLock(m, "write")
      /\ try' = [try EXCEPT ![m][x] = "data"]
      /\ mode' = GrantedModes(m, "write")
      /\ map' = GrantedMap(m, "write")
      /\ vino' = GrantedVino(m, "write")
      /\ stable' = IF Committed(m, "write") THEN item ELSE stable
      /\ dirty' = IF Committed(m, "write") THEN None ELSE dirty
      /\ UNCHANGED <<item, merged, bit, found, trying, req, mount, rids, recov,
                     failovers>>
      BY Zenon DEF TryLock, vars, itemVars, cacheVars, tryVars, serverVars
<1>t. /\ try' \in [Mount -> [Task -> {"idle", "ask", "scanwait", "lock", "data", "wait", "test", "delete"}]]
      /\ try'[m][x] = "data"
      /\ \A y \in Task : y # x => try'[m][y] = try[m][y]
      /\ \A p \in Mount \ {m} : try'[p] = try[p]
  <2>1. "data" \in {"idle", "ask", "scanwait", "lock", "data", "wait", "test", "delete"} /\ x \in Task BY DEF Task
  <2>2. QED BY <1>i, <1>u, <2>1, TryPut, Zenon
<1>v. /\ GrantedVino(m, "write") \in [Mount -> Vino]
      /\ \A p \in Mount :
            /\ GrantedVino(m, "write")[p].st = vino[p].st
            /\ GrantedVino(m, "write")[p].nlink = vino[p].nlink
            /\ GrantedVino(m, "write")[p].linked = vino[p].linked
            /\ GrantedVino(m, "write")[p].linkable = vino[p].linkable
      BY ZenonT(60), <1>i, GrantVino
<1>w. vino' \in [Mount -> Vino] BY <1>u, <1>v, Zenon
<1>o. \A p \in Mount : /\ vino'[p].st = vino[p].st /\ vino'[p].nlink = vino[p].nlink
                       /\ vino'[p].linked = vino[p].linked /\ vino'[p].linkable = vino[p].linkable
                       /\ p # m => try'[p] = try[p]
      BY <1>u, <1>t, <1>v, Zenon
<1>g. /\ Runs(m)
      /\ mode' \in [Mount -> Modes]
      /\ map' \in [Mount -> {"stale", "asking", "clear", "set"}]
      /\ mode'[m] \in {"write", "write"}
      /\ \A p, o \in Mount : mode'[p] = "write" /\ o # p => p = m /\ mode'[o] = "null"
      /\ mode[m] = "write" => mode' = mode /\ map' = map
      /\ mode[m] # "write" /\ mode'[m] = "write" => map'[m] = "stale"
      /\ Committed(m, "write") <=> dirty # None /\ dirty # m
      /\ \A p \in Mount \ {m} : TasksRun(p)' /\ DeleterAlone(p)' /\ MapsTrue(p)'
  <2>1. "write" \in {"read", "write"} OBVIOUS
  <2>2. UNCHANGED <<found, trying, req, mount>> BY <1>u, Zenon
  <2>3. \A p \in Mount \ {m} : try'[p] = try[p] /\ vino'[p].st = vino[p].st BY <1>o
  <2>4. QED BY <1>u, <2>1, <2>2, <2>3, GrantStep, Zenon
<1>s. \A p \in Mount : (InUse(p)' <=> InUse(p)) /\ (Known(p)' <=> Known(p)) BY <1>o DEF InUse, Known
<1>c. \A p \in Mount : InUse(p) => item.st = "live" BY <1>i DEF UsedNotDeleted, InUse
<1>1. TypeOK'
  <2>1. stable' \in Item /\ dirty' \in Mount \cup {None} BY <1>i, <1>u DEF TypeOK
  <2>2. QED BY <1>i, <1>u, <1>t, <1>w, <1>g, <2>1, Zenon DEF TypeOK
<1>2. BitsMatchCache'
  <2>1. bit' = bit BY <1>u, Zenon
  <2>2. QED BY Zenon, <1>i, <1>o, <2>1 DEF BitsMatchCache
<1>3. OrphanTracked' BY <1>i, <1>u DEF OrphanTracked
<1>4. UsedNotDeleted' BY <1>c, <1>u, <1>s, Zenon DEF UsedNotDeleted, InUse
<1>5. LockedItems'
  <2>1. CASE dirty # None /\ dirty # m
    <3>1. stable' = item /\ dirty' = None BY Zenon, <1>u, <1>g, <2>1
    <3>2. QED BY <1>i, <1>u, <1>g, <1>s, <1>c, <3>1 DEF LockedItems
  <2>2. CASE ~ (dirty # None /\ dirty # m)
    <3>1. stable' = stable /\ dirty' = dirty BY Zenon, <1>u, <1>g, <2>2
    <3>2. dirty # None => mode'[dirty] = "write" /\ Runs(dirty)'
          BY <1>i, <1>u, <1>g, <2>2 DEF LockedItems, Runs
    <3>3. QED BY <1>i, <1>u, <1>g, <1>s, <3>1, <3>2 DEF LockedItems
  <2>3. QED BY Zenon, <2>1, <2>2
<1>6. TasksRun(m)'
  <2>1. Held(m) => mode[m] = "write" BY Zenon, <1>i DEF TasksRun
  <2>2. \A y \in Task : y # x /\ try[m][y] = "wait" => Held(m) BY DEF Held
  <2>3. mode'[m] = "write" BY <1>g
  <2>j. TasksRun(m) BY <1>i
  <2>4. \A y \in Task : try'[m][y] = "wait" => map'[m] = "asking"
    <3> SUFFICES ASSUME NEW y \in Task, try'[m][y] = "wait" PROVE map'[m] = "asking" BY Zenon
    <3>1. y # x /\ try[m][y] = "wait" BY <1>t
    <3>2. map[m] = "asking" /\ mode[m] = "write" BY <2>j, <2>1, <2>2, <3>1, Zenon DEF TasksRun
    <3>3. QED BY <1>g, <3>2, Zenon
  <2>5. /\ found'[m] = found[m] /\ mount'[m] = mount[m] /\ trying'[m] = trying[m] /\ vino'[m].st = vino[m].st
        /\ try[m][x] = "lock"
        BY <1>u, <1>o
  <2>6. QED BY Zenon, <1>i, <1>t, <2>3, <2>4, <2>5 DEF TasksRun, Runs, Task
<1>7. DeleterAlone(m)'
  <2>1. \A y \in Task : try'[m][y] = "delete" => try[m][y] = "delete" BY <1>t
  <2>2. item' = item BY <1>u, Zenon
  <2>3. QED BY Zenon, <1>i, <1>o, <1>s, <2>1, <2>2 DEF DeleterAlone
<1>8. MapsTrue(m)'
  <2>1. mode'[m] = "write" /\ map'[m] = "clear" => \A o \in Mount \ {m} : ~ InUse(o)'
        BY Zenon, <1>i, <1>g, <1>s DEF MapsTrue
  <2>2. /\ \A y \in Task : try'[m][y] = "wait" => try[m][y] = "wait"
        /\ \A y \in Task : try'[m][y] \notin {"wait", "scanwait"} => try[m][y] \notin {"wait", "scanwait"}
        BY <1>u, <1>t
  <2>3. Runs(m)' BY <1>g, <1>u DEF Runs
  <2>4. QED BY Zenon, <1>i, <1>u, <1>g, <1>s, <2>1, <2>2, <2>3 DEF MapsTrue
<1>9. \A p \in Mount : TasksRun(p)' /\ DeleterAlone(p)' /\ MapsTrue(p)' BY <1>g, <1>6, <1>7, <1>8
<1>10. QED BY <1>1, <1>2, <1>3, <1>4, <1>5, <1>9, Zenon DEF DeletionInv

\* An inode is read under the lock.
LEMMA IgetFinishInv ==
    ASSUME DeletionInv, NEW m \in Mount, IgetFinish(m)
    PROVE  DeletionInv'
<1>i. /\ TypeOK /\ BitsMatchCache /\ OrphanTracked /\ UsedNotDeleted /\ LockedItems
      /\ TasksRun(m) /\ DeleterAlone(m) /\ MapsTrue(m)
      BY Zenon DEF DeletionInv
<1>u. /\ vino[m].st = "new" /\ CanLock(m, "read")
      /\ mode' = GrantedModes(m, "read")
      /\ map' = GrantedMap(m, "read")
      /\ stable' = IF Committed(m, "read") THEN item ELSE stable
      /\ dirty' = IF Committed(m, "read") THEN None ELSE dirty
      /\ bit' = IF item.st = "live" THEN [bit EXCEPT ![m] = TRUE] ELSE bit
      /\ vino' = [GrantedVino(m, "read") EXCEPT ![m] =
                      IF item.st = "live"
                      THEN [st |-> "cached", open |-> TRUE, nlink |-> item.nlink,
                            cov |-> TRUE, linked |-> item.nlink > 0, linkable |-> FALSE]
                      ELSE NoVino]
      /\ UNCHANGED <<item, merged, found, trying, try, req, mount, rids, recov,
                     failovers>>
      BY Zenon DEF IgetFinish, Read, scoutfs_omap_set, vars, itemVars, cacheVars, tryVars, serverVars
<1>v. /\ GrantedVino(m, "read") \in [Mount -> Vino]
      /\ \A p \in Mount :
            /\ GrantedVino(m, "read")[p].st = vino[p].st
            /\ GrantedVino(m, "read")[p].nlink = vino[p].nlink
            /\ GrantedVino(m, "read")[p].linked = vino[p].linked
            /\ GrantedVino(m, "read")[p].linkable = vino[p].linkable
      BY <1>i, GrantVino
<1> DEFINE new == IF item.st = "live"
                  THEN [st |-> "cached", open |-> TRUE, nlink |-> item.nlink,
                        cov |-> TRUE, linked |-> item.nlink > 0, linkable |-> FALSE]
                  ELSE NoVino
<1>n. /\ new \in Vino
      /\ new.st = IF item.st = "live" THEN "cached" ELSE "none"
      /\ item.st = "live" => new.nlink = item.nlink /\ new.linked = (item.nlink > 0) /\ new.linkable = FALSE
  <2> DEFINE l == item.nlink > 0
  <2>1. item.nlink \in 0..1 /\ l \in BOOLEAN BY <1>i DEF TypeOK, Item
  <2> HIDE DEF l
  <2>2. CASE item.st = "live"
    <3>1. new = [st |-> "cached", open |-> TRUE, nlink |-> item.nlink, cov |-> TRUE, linked |-> l,
                 linkable |-> FALSE]
          BY <2>2 DEF l
    <3> HIDE DEF new
    <3>2. /\ new \in Vino /\ new.st = "cached" /\ new.nlink = item.nlink /\ new.linked = l
          /\ new.linkable = FALSE
          BY <2>1, <3>1 DEF Vino
    <3>3. QED BY <2>2, <3>2 DEF l
  <2>3. CASE item.st # "live"
    <3>1. new = NoVino BY <2>3
    <3> HIDE DEF new
    <3>2. new \in Vino /\ new.st = "none" BY <3>1 DEF NoVino, Vino
    <3>3. QED BY <2>3, <3>2
  <2>4. QED BY Zenon, <2>2, <2>3
<1>p. vino' = [GrantedVino(m, "read") EXCEPT ![m] = new] BY <1>u, Zenon
<1> HIDE DEF new
<1>w. vino' \in [Mount -> Vino] /\ vino'[m] = new BY Zenon, <1>v, <1>n, <1>p
<1>o. \A p \in Mount \ {m} :
         /\ vino'[p].st = vino[p].st /\ vino'[p].nlink = vino[p].nlink
         /\ vino'[p].linked = vino[p].linked /\ vino'[p].linkable = vino[p].linkable
         /\ try'[p] = try[p]
  <2>1. \A p \in Mount \ {m} : vino'[p] = GrantedVino(m, "read")[p] BY <1>v, <1>p
  <2>2. try' = try BY <1>u, Zenon
  <2>3. QED BY Zenon, <1>v, <2>1, <2>2
<1>b. bit' \in [Mount -> BOOLEAN] /\ (item.st = "live" => bit'[m]) /\ \A p \in Mount \ {m} : bit'[p] = bit[p]
      BY <1>i, <1>u DEF TypeOK
<1>g. /\ Runs(m)
      /\ mode' \in [Mount -> Modes]
      /\ map' \in [Mount -> {"stale", "asking", "clear", "set"}]
      /\ mode'[m] \in {"read", "write"}
      /\ \A p, o \in Mount : mode'[p] = "write" /\ o # p => p = m /\ mode'[o] = "null"
      /\ mode[m] = "write" => mode' = mode /\ map' = map
      /\ mode[m] # "write" /\ mode'[m] = "write" => map'[m] = "stale"
      /\ Committed(m, "read") <=> dirty # None /\ dirty # m
      /\ \A p \in Mount \ {m} : TasksRun(p)' /\ DeleterAlone(p)' /\ MapsTrue(p)'
  <2>1. "read" \in {"read", "write"} OBVIOUS
  <2>2. UNCHANGED <<found, trying, req, mount>> BY <1>u, Zenon
  <2>3. \A p \in Mount \ {m} : try'[p] = try[p] /\ vino'[p].st = vino[p].st BY <1>o
  <2>4. QED BY <1>u, <2>1, <2>2, <2>3, GrantStep, Zenon
<1>s. \A p \in Mount :
         /\ InUse(p)' => InUse(p) \/ (p = m /\ item.st = "live" /\ item.nlink > 0)
         /\ Known(p)' => Known(p) \/ (p = m /\ item.st = "live")
      BY Zenon, <1>n, <1>w, <1>o DEF InUse, Known
<1>c. \A p \in Mount : InUse(p) => item.st = "live" BY <1>i DEF UsedNotDeleted, InUse
<1>e. item' = item /\ mount' = mount BY <1>u, Zenon
<1>1. TypeOK'
  <2>1. stable' \in Item /\ dirty' \in Mount \cup {None} BY <1>i, <1>u DEF TypeOK
  <2>2. QED BY <1>i, <1>u, <1>w, <1>b, <1>g, <2>1, Zenon DEF TypeOK
<1>2. BitsMatchCache'
  <2>1. item.st # "live" => bit'[m] = bit[m] BY Zenon, <1>u
  <2>2. vino[m].st # "cached" BY Zenon, <1>u
  <2>3. QED BY ZenonT(60), <1>i, <1>n, <1>w, <1>o, <1>b, <2>1, <2>2 DEF BitsMatchCache
<1>3. OrphanTracked' BY Zenon, <1>i, <1>u DEF OrphanTracked
<1>4. UsedNotDeleted' BY <1>c, <1>e, <1>s DEF UsedNotDeleted, InUse
<1>5. LockedItems'
  <2>1. CASE dirty # None /\ dirty # m
    <3>1. stable' = item /\ dirty' = None BY Zenon, <1>u, <1>g, <2>1
    <3>2. QED BY <1>i, <1>e, <1>g, <1>s, <1>c, <3>1 DEF LockedItems
  <2>2. CASE ~ (dirty # None /\ dirty # m)
    <3>1. stable' = stable /\ dirty' = dirty BY Zenon, <1>u, <1>g, <2>2
    <3>2. dirty # None => dirty = m /\ mode'[m] = "write" /\ Runs(m)'
      <4>1. dirty # None => dirty = m /\ mode[m] = "write" BY <1>i, <2>2 DEF LockedItems
      <4>2. Runs(m)' BY <1>e, <1>g DEF Runs
      <4>3. QED BY <1>g, <4>1, <4>2
    <3>3. QED BY <1>i, <1>e, <1>g, <1>s, <2>2, <3>1, <3>2 DEF LockedItems
  <2>3. QED BY Zenon, <2>1, <2>2
<1>6. TasksRun(m)'
  <2>1. Held(m) => mode'[m] = "write" /\ map'[m] = map[m] BY Zenon, <1>i, <1>g DEF TasksRun
  <2>2. /\ try'[m] = try[m] /\ found'[m] = found[m] /\ mount'[m] = mount[m] /\ trying'[m] = trying[m]
        /\ (Held(m)' <=> Held(m))
        BY <1>u, Zenon DEF Held
  <2>3. \A x \in Task : try'[m][x] = "wait" => map'[m] = "asking"
        BY Zenon, <1>i, <2>1, <2>2 DEF TasksRun, Held
  <2>4. vino[m].st = "new" /\ vino'[m].st \in {"cached", "none"} BY Zenon, <1>u, <1>n, <1>w
  <2>j. TasksRun(m) /\ (Runs(m)' <=> Runs(m)) BY <1>i, <2>2, Zenon DEF Runs
  <2>5. /\ ~ Runs(m)' => vino'[m].st = "none" /\ ~ found'[m] /\ \A x \in Task : try'[m][x] = "idle"
        /\ mount'[m] = "leaving" => ~ found'[m] /\ vino'[m].st # "new" /\ try'[m]["scan"] = "idle"
        /\ try'[m]["evict"] # "idle" => vino'[m].st = "freeing"
        BY Zenon, <1>g, <2>j, <2>2, <2>4 DEF TasksRun
  <2>6. QED BY <2>j, <2>1, <2>2, <2>3, <2>5, Zenon DEF TasksRun
<1>7. DeleterAlone(m)'
  <2>1. try' = try BY <1>u, Zenon
  <2>2. ~ (item.nlink > 0) /\ vino'[m].st = "cached" => vino'[m].nlink = item.nlink /\ vino'[m].linkable = FALSE
        BY <1>n, <1>w
  <2>3. item.nlink = 0 => \A o \in Mount : InUse(o)' => InUse(o) BY <1>s
  <2>4. item.nlink = 0 => ~ (item.nlink > 0) OBVIOUS
  <2>5. QED BY Zenon, <1>i, <1>e, <2>1, <2>2, <2>3, <2>4 DEF DeleterAlone
<1>8. MapsTrue(m)'
  <2>1. \A o \in Mount \ {m} : InUse(o)' <=> InUse(o) BY <1>o DEF InUse
  <2>2. mode'[m] = "write" /\ map'[m] = "clear" => \A o \in Mount \ {m} : ~ InUse(o)'
        BY Zenon, <1>i, <1>g, <2>1 DEF MapsTrue
  <2>3. try' = try /\ req' = req /\ (Runs(m)' <=> Runs(m)) BY <1>u, Zenon DEF Runs
  <2>4. QED BY Zenon, <1>i, <2>1, <2>2, <2>3 DEF MapsTrue
<1>9. \A p \in Mount : TasksRun(p)' /\ DeleterAlone(p)' /\ MapsTrue(p)' BY <1>g, <1>6, <1>7, <1>8
<1>10. QED BY <1>1, <1>2, <1>3, <1>4, <1>5, <1>9, Zenon DEF DeletionInv

\* nlink, the entry and the orphan item change in one transaction under the lock.
LEMMA SetLinkInv ==
    ASSUME DeletionInv, NEW m \in Mount, NEW n \in 0..1, SetLink(m, n),
           n = 1 => vino[m].nlink > 0 \/ vino[m].linkable
    PROVE  DeletionInv'
<1>i. /\ TypeOK /\ BitsMatchCache /\ OrphanTracked /\ UsedNotDeleted /\ LockedItems
      /\ TasksRun(m) /\ DeleterAlone(m) /\ MapsTrue(m)
      BY Zenon DEF DeletionInv
<1>u. /\ vino[m].st = "cached" /\ item.st = "live" /\ item.nlink # n /\ CanLock(m, "write")
      /\ item' = [item EXCEPT !.nlink = n, !.orphan = (n = 0)]
      /\ stable' = IF Committed(m, "write") THEN item ELSE stable
      /\ dirty' = m
      /\ mode' = GrantedModes(m, "write")
      /\ map' = GrantedMap(m, "write")
      /\ vino' = [GrantedVino(m, "write") EXCEPT ![m].nlink = n, ![m].cov = TRUE]
      /\ UNCHANGED <<merged, bit, found, trying, try, req, mount, rids, recov,
                     failovers>>
      BY Zenon DEF SetLink, Change, vars, itemVars, cacheVars, tryVars, serverVars
<1>v. /\ GrantedVino(m, "write") \in [Mount -> Vino]
      /\ \A p \in Mount :
            /\ GrantedVino(m, "write")[p].st = vino[p].st
            /\ GrantedVino(m, "write")[p].nlink = vino[p].nlink
            /\ GrantedVino(m, "write")[p].linked = vino[p].linked
            /\ GrantedVino(m, "write")[p].linkable = vino[p].linkable
      BY ZenonT(60), <1>i, GrantVino
<1>n. item' \in Item /\ item'.st = "live" /\ item'.nlink = n /\ item'.orphan = (n = 0)
      BY Zenon, <1>i, <1>u DEF TypeOK, Item
<1> DEFINE G == GrantedVino(m, "write")
<1>p. vino' = [G EXCEPT ![m].nlink = n, ![m].cov = TRUE] BY <1>u, Zenon
<1>q. /\ G \in [Mount -> Vino]
      /\ \A p \in Mount : /\ G[p].st = vino[p].st
                          /\ G[p].nlink = vino[p].nlink
                          /\ G[p].linked = vino[p].linked
                          /\ G[p].linkable = vino[p].linkable
      BY <1>v, Zenon
<1> HIDE DEF G
<1>w. /\ vino' \in [Mount -> Vino]
      /\ vino'[m].st = "cached" /\ vino'[m].linked = vino[m].linked
      /\ \A p \in Mount \ {m} : vino'[p] = G[p]
  <2>1. vino' = [G EXCEPT ![m] = [G[m] EXCEPT !.nlink = n, !.cov = TRUE]] BY Zenon, <1>p, <1>q DEF Vino
  <2>2. [G[m] EXCEPT !.nlink = n, !.cov = TRUE] \in Vino BY ZenonT(60), <1>q DEF Vino
  <2>3. vino' \in [Mount -> Vino] BY <1>q, <2>1, <2>2
  <2>4. vino'[m] = [G[m] EXCEPT !.nlink = n, !.cov = TRUE] BY <1>q, <2>1
  <2>5. vino'[m].st = G[m].st /\ vino'[m].linked = G[m].linked BY <1>q, <2>4 DEF Vino
  <2>6. \A p \in Mount \ {m} : vino'[p] = G[p] BY <1>q, <2>1
  <2>7. vino[m].st = "cached" BY <1>u, Zenon
  <2>8. QED BY <1>q, <2>3, <2>5, <2>6, <2>7
<1>o. \A p \in Mount \ {m} :
         /\ vino'[p].st = vino[p].st /\ vino'[p].nlink = vino[p].nlink
         /\ vino'[p].linked = vino[p].linked /\ vino'[p].linkable = vino[p].linkable
         /\ try'[p] = try[p]
  <2>1. try' = try BY <1>u, Zenon
  <2>2. QED BY <1>q, <1>w, <2>1
<1>g. /\ Runs(m)
      /\ mode' \in [Mount -> Modes]
      /\ map' \in [Mount -> {"stale", "asking", "clear", "set"}]
      /\ mode'[m] \in {"write", "write"}
      /\ \A p, o \in Mount : mode'[p] = "write" /\ o # p => p = m /\ mode'[o] = "null"
      /\ mode[m] = "write" => mode' = mode /\ map' = map
      /\ mode[m] # "write" /\ mode'[m] = "write" => map'[m] = "stale"
      /\ Committed(m, "write") <=> dirty # None /\ dirty # m
      /\ \A p \in Mount \ {m} : TasksRun(p)' /\ DeleterAlone(p)' /\ MapsTrue(p)'
  <2>1. "write" \in {"read", "write"} OBVIOUS
  <2>2. UNCHANGED <<found, trying, req, mount>> BY <1>u, Zenon
  <2>3. \A p \in Mount \ {m} : try'[p] = try[p] /\ vino'[p].st = vino[p].st BY Zenon, <1>o
  <2>4. QED BY <1>u, <2>1, <2>2, <2>3, GrantStep, Zenon
<1>c. \A p \in Mount : InUse(p) => item.st = "live" BY <1>i DEF UsedNotDeleted, InUse
<1>e. mount' = mount /\ dirty' = m BY <1>u, Zenon
<1>1. TypeOK'
  <2>1. stable' \in Item /\ dirty' \in Mount \cup {None} BY Zenon, <1>i, <1>u DEF TypeOK
  <2>2. QED BY <1>i, <1>u, <1>n, <1>w, <1>g, <2>1, Zenon DEF TypeOK
<1>2. BitsMatchCache'
  <2>1. bit' = bit /\ vino[m].st = "cached" BY <1>u, Zenon
  <2>2. QED BY <1>i, <1>w, <1>o, <2>1 DEF BitsMatchCache
<1>3. OrphanTracked'
  <2>1. stable' \in {item, stable} BY Zenon, <1>u
  <2>2. QED BY Zenon, <1>i, <1>n, <2>1 DEF OrphanTracked
<1>4. UsedNotDeleted' BY Zenon, <1>n DEF UsedNotDeleted, InUse
<1>5. LockedItems'
  <2>1. mode'[m] = "write" /\ Runs(m)' /\ m # None /\ dirty' = m BY Zenon, <1>e, <1>g, NoneAssumption DEF Runs
  <2>2. \A p, o \in Mount : mode'[p] = "write" /\ o # p => mode'[o] = "null" BY Zenon, <1>g
  <2>3. ASSUME NEW p \in Mount \ {m}
        PROVE  /\ InUse(p)' => stable'.st = "live"
               /\ Known(p)' => stable'.st # "none"
    <3>1. (InUse(p)' => InUse(p)) /\ (Known(p)' => Known(p)) BY Zenon, <1>o DEF InUse, Known
    <3>2. CASE dirty # None /\ dirty # m
      <4>1. stable' = item BY Zenon, <1>u, <1>g, <3>2
      <4>2. QED BY <1>i, <1>c, <3>1, <4>1 DEF LockedItems
    <3>3. CASE ~ (dirty # None /\ dirty # m)
      <4>1. stable' = stable BY <1>u, <1>g, <3>3
      <4>2. p # dirty BY <3>3, NoneAssumption
      <4>3. QED BY <1>i, <3>1, <4>1, <4>2 DEF LockedItems
    <3>4. QED BY Zenon, <3>2, <3>3
  <2>4. QED BY <1>n, <2>1, <2>2, <2>3 DEF LockedItems
<1>6. TasksRun(m)'
  <2>1. Held(m) => mode'[m] = "write" /\ map'[m] = map[m] BY Zenon, <1>i, <1>g DEF TasksRun
  <2>2. /\ try'[m] = try[m] /\ found'[m] = found[m] /\ mount'[m] = mount[m] /\ trying'[m] = trying[m]
        /\ (Held(m)' <=> Held(m))
        BY <1>u, Zenon DEF Held
  <2>3. \A x \in Task : try'[m][x] = "wait" => map'[m] = "asking"
        BY Zenon, <1>i, <2>1, <2>2 DEF TasksRun, Held
  <2>4. vino[m].st = "cached" /\ vino'[m].st = "cached" BY <1>u, <1>w, ZenonT(60)
  <2>j. TasksRun(m) /\ (Runs(m)' <=> Runs(m)) BY <1>i, <2>2, Zenon DEF Runs
  <2>5. /\ ~ Runs(m)' => vino'[m].st = "none" /\ ~ found'[m] /\ \A x \in Task : try'[m][x] = "idle"
        /\ mount'[m] = "leaving" => ~ found'[m] /\ vino'[m].st # "new" /\ try'[m]["scan"] = "idle"
        /\ try'[m]["evict"] # "idle" => vino'[m].st = "freeing"
        BY ZenonT(60), <1>g, <2>j, <2>2, <2>4 DEF TasksRun
  <2>6. QED BY <2>j, <2>1, <2>2, <2>3, <2>5, Zenon DEF TasksRun
<1>7. DeleterAlone(m)'
  <2>1. try' = try /\ vino[m].st = "cached" /\ item.nlink # n BY <1>u, Zenon
  <2>2. ASSUME NEW x \in Task, try[m][x] = "delete" PROVE FALSE
    <3>1. item.nlink = 0 /\ vino[m].nlink = 0 /\ ~ vino[m].linkable BY Zenon, <1>i, <2>1, <2>2 DEF DeleterAlone
    <3>2. n = 1 BY <2>1, <3>1
    <3>3. QED BY <3>1, <3>2
  <2>3. QED BY <2>1, <2>2 DEF DeleterAlone
<1>8. MapsTrue(m)'
  <2>1. \A o \in Mount \ {m} : InUse(o)' <=> InUse(o) BY <1>o DEF InUse
  <2>2. mode'[m] = "write" /\ map'[m] = "clear" => \A o \in Mount \ {m} : ~ InUse(o)'
        BY Zenon, <1>i, <1>g, <2>1 DEF MapsTrue
  <2>3. try' = try /\ req' = req /\ (Runs(m)' <=> Runs(m)) BY <1>u, Zenon DEF Runs
  <2>4. QED BY Zenon, <1>i, <2>1, <2>2, <2>3 DEF MapsTrue
<1>9. \A p \in Mount : TasksRun(p)' /\ DeleterAlone(p)' /\ MapsTrue(p)' BY Zenon, <1>g, <1>6, <1>7, <1>8
<1>10. QED BY <1>1, <1>2, <1>3, <1>4, <1>5, <1>9, Zenon DEF DeletionInv

\* The inode is created in the cache and under the lock.
LEMMA CreateInv ==
    ASSUME DeletionInv, NEW m \in Mount, NEW n \in 0..1, Create(m, n)
    PROVE  DeletionInv'
<1>i. /\ TypeOK /\ BitsMatchCache /\ OrphanTracked /\ UsedNotDeleted /\ LockedItems
      /\ TasksRun(m) /\ DeleterAlone(m) /\ MapsTrue(m)
      BY Zenon DEF DeletionInv
<1>u. /\ Up(m) /\ item.st = "none" /\ CanLock(m, "write")
      /\ item' = [st |-> "live", nlink |-> n, orphan |-> n = 0]
      /\ stable' = IF Committed(m, "write") THEN item ELSE stable
      /\ dirty' = m
      /\ mode' = GrantedModes(m, "write")
      /\ map' = GrantedMap(m, "write")
      /\ bit' = [bit EXCEPT ![m] = TRUE]
      /\ vino' = [GrantedVino(m, "write") EXCEPT ![m] =
                   [st |-> "cached", open |-> TRUE, nlink |-> n, cov |-> TRUE,
                    linked |-> TRUE, linkable |-> n = 0]]
      /\ UNCHANGED <<merged, found, trying, try, req, mount, rids, recov, failovers>>
      BY Zenon DEF Create, Change, scoutfs_omap_set, vars, itemVars, cacheVars, tryVars, serverVars
<1>v. /\ GrantedVino(m, "write") \in [Mount -> Vino]
      /\ \A p \in Mount :
            /\ GrantedVino(m, "write")[p].st = vino[p].st
            /\ GrantedVino(m, "write")[p].nlink = vino[p].nlink
            /\ GrantedVino(m, "write")[p].linked = vino[p].linked
            /\ GrantedVino(m, "write")[p].linkable = vino[p].linkable
      BY ZenonT(60), <1>i, GrantVino
<1>n. item' \in Item /\ item'.st = "live" /\ item'.nlink = n /\ item'.orphan = (n = 0)
      BY Zenon, <1>u DEF Item
<1> DEFINE new == [st |-> "cached", open |-> TRUE, nlink |-> n, cov |-> TRUE,
                   linked |-> TRUE, linkable |-> n = 0]
<1>p. vino' = [GrantedVino(m, "write") EXCEPT ![m] = new] BY <1>u, Zenon
<1>q. new \in Vino /\ new.st = "cached" BY Zenon DEF Vino
<1> HIDE DEF new
<1>w. vino' \in [Mount -> Vino] /\ vino'[m].st = "cached" BY <1>v, <1>p, <1>q
<1>o. \A p \in Mount \ {m} :
         /\ vino'[p].st = vino[p].st /\ vino'[p].nlink = vino[p].nlink
         /\ vino'[p].linked = vino[p].linked /\ vino'[p].linkable = vino[p].linkable
         /\ try'[p] = try[p]
  <2>1. \A p \in Mount \ {m} : vino'[p] = GrantedVino(m, "write")[p] BY <1>v, <1>p
  <2>2. try' = try BY <1>u, Zenon
  <2>3. QED BY <1>v, <2>1, <2>2
<1>b. bit' \in [Mount -> BOOLEAN] /\ bit'[m] /\ \A p \in Mount \ {m} : bit'[p] = bit[p]
      BY <1>i, <1>u DEF TypeOK
<1>g. /\ Runs(m)
      /\ mode' \in [Mount -> Modes]
      /\ map' \in [Mount -> {"stale", "asking", "clear", "set"}]
      /\ mode'[m] \in {"write", "write"}
      /\ \A p, o \in Mount : mode'[p] = "write" /\ o # p => p = m /\ mode'[o] = "null"
      /\ mode[m] = "write" => mode' = mode /\ map' = map
      /\ mode[m] # "write" /\ mode'[m] = "write" => map'[m] = "stale"
      /\ Committed(m, "write") <=> dirty # None /\ dirty # m
      /\ \A p \in Mount \ {m} : TasksRun(p)' /\ DeleterAlone(p)' /\ MapsTrue(p)'
  <2>1. "write" \in {"read", "write"} OBVIOUS
  <2>2. UNCHANGED <<found, trying, req, mount>> BY <1>u, Zenon
  <2>3. \A p \in Mount \ {m} : try'[p] = try[p] /\ vino'[p].st = vino[p].st BY <1>o
  <2>4. QED BY <1>u, <2>1, <2>2, <2>3, GrantStep, Zenon
<1>c. \A p \in Mount : InUse(p) => item.st = "live" BY Zenon, <1>i DEF UsedNotDeleted, InUse
<1>e. mount' = mount /\ dirty' = m BY <1>u, Zenon
<1>f. vino[m].st # "freeing" BY Zenon, <1>i, <1>u DEF LockedItems, Known
<1>1. TypeOK'
  <2>1. stable' \in Item /\ dirty' \in Mount \cup {None} BY <1>i, <1>u DEF TypeOK
  <2>2. QED BY <1>i, <1>u, <1>n, <1>w, <1>b, <1>g, <2>1, Zenon DEF TypeOK
<1>2. BitsMatchCache' BY Zenon, <1>i, <1>w, <1>o, <1>b DEF BitsMatchCache
<1>3. OrphanTracked'
  <2>1. stable' \in {item, stable} BY <1>u
  <2>2. QED BY Zenon, <1>i, <1>n, <2>1 DEF OrphanTracked
<1>4. UsedNotDeleted' BY Zenon, <1>n DEF UsedNotDeleted, InUse
<1>5. LockedItems'
  <2>1. mode'[m] = "write" /\ Runs(m)' /\ m # None /\ dirty' = m BY <1>e, <1>g, NoneAssumption DEF Runs
  <2>2. \A p, o \in Mount : mode'[p] = "write" /\ o # p => mode'[o] = "null" BY <1>g
  <2>3. ASSUME NEW p \in Mount \ {m}
        PROVE  /\ InUse(p)' => stable'.st = "live"
               /\ Known(p)' => stable'.st # "none"
    <3>1. (InUse(p)' => InUse(p)) /\ (Known(p)' => Known(p)) BY Zenon, <1>o DEF InUse, Known
    <3>2. CASE dirty # None /\ dirty # m
      <4>1. stable' = item BY <1>u, <1>g, <3>2
      <4>2. QED BY Zenon, <1>i, <1>c, <3>1, <4>1 DEF LockedItems
    <3>3. CASE ~ (dirty # None /\ dirty # m)
      <4>1. stable' = stable BY <1>u, <1>g, <3>3
      <4>2. p # dirty BY <3>3, NoneAssumption
      <4>3. QED BY Zenon, <1>i, <3>1, <4>1, <4>2 DEF LockedItems
    <3>4. QED BY Zenon, <3>2, <3>3
  <2>4. QED BY <1>n, <2>1, <2>2, <2>3 DEF LockedItems
<1>6. TasksRun(m)'
  <2>1. Held(m) => mode'[m] = "write" /\ map'[m] = map[m] BY Zenon, <1>i, <1>g DEF TasksRun
  <2>2. /\ try'[m] = try[m] /\ found'[m] = found[m] /\ mount'[m] = mount[m] /\ trying'[m] = trying[m]
        /\ (Held(m)' <=> Held(m))
        BY <1>u, Zenon DEF Held
  <2>3. \A x \in Task : try'[m][x] = "wait" => map'[m] = "asking"
        BY Zenon, <1>i, <2>1, <2>2 DEF TasksRun, Held
  <2>4. mount[m] = "up" BY <1>u DEF Up
  <2>5. QED BY Zenon, <1>i, <1>f, <1>w, <2>1, <2>2, <2>3, <2>4 DEF TasksRun, Runs
<1>7. DeleterAlone(m)'
  <2>1. try' = try /\ item.st = "none" BY <1>u, Zenon
  <2>2. QED BY Zenon, <1>i, <2>1 DEF DeleterAlone
<1>8. MapsTrue(m)'
  <2>1. \A o \in Mount \ {m} : InUse(o)' <=> InUse(o) BY Zenon, <1>o DEF InUse
  <2>2. mode'[m] = "write" /\ map'[m] = "clear" => \A o \in Mount \ {m} : ~ InUse(o)'
        BY Zenon, <1>i, <1>g, <2>1 DEF MapsTrue
  <2>3. try' = try /\ req' = req /\ (Runs(m)' <=> Runs(m)) BY <1>u, Zenon DEF Runs
  <2>4. QED BY Zenon, <1>i, <2>1, <2>2, <2>3 DEF MapsTrue
<1>9. \A p \in Mount : TasksRun(p)' /\ DeleterAlone(p)' /\ MapsTrue(p)' BY Zenon, <1>g, <1>6, <1>7, <1>8
<1>10. QED BY <1>1, <1>2, <1>3, <1>4, <1>5, <1>9, Zenon DEF DeletionInv

-----------------------------------------------------------------------------
(* Mounts and servers that come and go. *)

\* An unmount begins.
LEMMA UnmountInv ==
    ASSUME DeletionInv, NEW m \in Mount, Unmount(m)
    PROVE  DeletionInv'
<1>i. /\ TypeOK /\ BitsMatchCache /\ OrphanTracked /\ UsedNotDeleted /\ LockedItems
      /\ \A p \in Mount : TasksRun(p) /\ DeleterAlone(p) /\ MapsTrue(p)
      BY Zenon DEF DeletionInv
<1>u. /\ Up(m)
      /\ vino[m].st \in {"none", "cached"} /\ ~ found[m]
      /\ try[m]["scan"] = "idle"
      /\ mount' = [mount EXCEPT ![m] = "leaving"]
      /\ UNCHANGED <<item, stable, dirty, merged, mode, vino, bit, found, map, trying,
                     try, req, rids, recov, failovers>>
      BY Zenon DEF Unmount, vars, itemVars, cacheVars, tryVars, serverVars
<1>o. \A p \in Mount \ {m} : mount'[p] = mount[p]
      BY Zenon, <1>i, <1>u DEF TypeOK
<1>m. /\ mount' \in [Mount -> {"up", "leaving", "dead", "gone"}]
      /\ mount'[m] = "leaving"
      /\ mount[m] = "up"
      BY <1>i, <1>u DEF TypeOK, Up
<1>s. \A o \in Mount : (InUse(o)' => InUse(o)) /\ (Known(o)' => Known(o))
      BY <1>u, Zenon DEF InUse, Known
<1>1. TypeOK' BY <1>i, <1>u, <1>m DEF TypeOK
<1>2. BitsMatchCache' BY <1>i, <1>u, Zenon DEF BitsMatchCache
<1>3. OrphanTracked' BY <1>i, <1>u, Zenon DEF OrphanTracked
<1>4. UsedNotDeleted' BY <1>i, <1>u, <1>s, Zenon DEF UsedNotDeleted, InUse
<1>5. LockedItems'
  <2>1. \A o \in Mount : Runs(o) => Runs(o)' BY <1>o, <1>m DEF Runs
  <2>2. QED BY <1>i, <1>u, <1>s, <2>1, LockedFrame, Zenon
<1>6. ASSUME NEW p \in Mount PROVE TasksRun(p)' /\ DeleterAlone(p)' /\ MapsTrue(p)'
  <2>i. TasksRun(p) /\ DeleterAlone(p) /\ MapsTrue(p) BY <1>i
  <2>1. CASE p # m
    <3>e. /\ mode'[p] = mode[p] /\ vino'[p] = vino[p] /\ bit'[p] = bit[p] /\ found'[p] = found[p] /\ map'[p] = map[p]
          /\ trying'[p] = trying[p] /\ try'[p] = try[p] /\ req'[p] = req[p] /\ mount'[p] = mount[p]
          BY Zenon, <1>u, <1>o, <2>1
    <3>1. TasksRun(p)' BY <2>i, <3>e, TasksFrame, Zenon
    <3>2. DeleterAlone(p)' BY <1>u, <1>s, <2>i, <3>e, DeleterFrame, Zenon
    <3>3. MapsTrue(p)' BY <1>s, <2>i, <3>e, MapsFrame, Zenon DEF Runs
    <3>4. QED BY <3>1, <3>2, <3>3, Zenon
  <2>2. CASE p = m
    <3>1. TasksRun(p)' BY Zenon, <1>u, <1>m, <2>i, <2>2 DEF TasksRun, Runs, Held
    <3>2. DeleterAlone(p)' BY Zenon, <1>u, <1>s, <1>m, <2>i, <2>2, DeleterFrame
    <3>3. MapsTrue(p)' BY Zenon, <1>u, <1>s, <1>m, <2>i, <2>2, MapsFrame DEF Runs
    <3>4. QED BY <3>1, <3>2, <3>3, Zenon
  <2>3. QED BY <2>1, <2>2
<1>7. QED BY <1>1, <1>2, <1>3, <1>4, <1>5, <1>6, Zenon DEF DeletionInv

\* scoutfs_omap_remove_rid() of a mount that doesn't use the inode.
LEMMA RemoveRidFacts ==
    ASSUME DeletionInv, NEW m \in Mount, ~ InUse(m), RemoveRid(m)
    PROVE  /\ req' \in [Mount -> [Task -> Req]]
           /\ rids' \in SUBSET Mount
           /\ \A x \in Task : req'[m][x] = NoReq
           /\ \A p \in Mount \ {m}, x \in Task :
                 /\ req[p][x] = NoReq => req'[p][x] = NoReq
                 /\ req'[p][x].st \in {"sent", "queued"} => req'[p][x].ask = {} /\ req'[p][x].answer = {}
                 /\ \A o \in Mount \ {p} : try[p][x] = "wait" /\ InUse(o) =>
                       /\ req'[p][x].st # "clear"
                       /\ req'[p][x].st = "collect" =>
                             req'[p][x].bits \/ (o \in req'[p][x].wait /\ o \notin req'[p][x].answer)
<1>1. rids' = rids \ {m} BY DEF RemoveRid
<1>2. req' = [p \in Mount |-> [x \in Task |-> IF p = m THEN NoReq ELSE Contributed(req[p][x], m, FALSE)]]
      BY DEF RemoveRid
<1>3. NoReq \in Req /\ NoReq.st = "none" BY Zenon DEF NoReq, Req
<1>4. rids' \in SUBSET Mount BY <1>1 DEF DeletionInv, TypeOK
<1>5. ASSUME NEW p \in Mount, NEW x \in Task
      PROVE  /\ p = m => req'[p][x] = NoReq
             /\ p # m => req'[p][x] = Contributed(req[p][x], m, FALSE)
      BY Zenon, <1>2
<1>6. ASSUME NEW p \in Mount, NEW x \in Task PROVE Contributed(req[p][x], m, FALSE) \in Req
      BY Zenon, ReqThere, ContributedFacts
<1>7. req' \in [Mount -> [Task -> Req]] BY Zenon, <1>2, <1>3, <1>6
<1>8. ASSUME NEW p \in Mount \ {m}, NEW x \in Task
      PROVE  /\ req[p][x] = NoReq => req'[p][x] = NoReq
             /\ req'[p][x].st \in {"sent", "queued"} => req'[p][x].ask = {} /\ req'[p][x].answer = {}
             /\ \A o \in Mount \ {p} : try[p][x] = "wait" /\ InUse(o) =>
                   /\ req'[p][x].st # "clear"
                   /\ req'[p][x].st = "collect" =>
                         req'[p][x].bits \/ (o \in req'[p][x].wait /\ o \notin req'[p][x].answer)
  <2> DEFINE q == req[p][x]
             r == req'[p][x]
  <2>1. q \in Req BY ReqThere, Zenon
  <2>2. /\ q.st \in {"sent", "queued"} => q.ask = {} /\ q.answer = {}
        /\ \A o \in Mount \ {p} : try[p][x] = "wait" /\ InUse(o) =>
              q.st # "clear" /\ (q.st = "collect" => q.bits \/ (o \in q.wait /\ o \notin q.answer))
        BY ReqThere, Zenon
  <2>3. r = Contributed(q, m, FALSE) BY Zenon, <1>5
  <2> HIDE DEF q, r
  <2>4. /\ q.st # "collect" => r = q
        /\ q.st = "collect" => r.st \in {"collect", "clear", "set"}
        /\ \A u \in Mount : q.st = "collect" /\ (q.bits \/ (u \in q.wait /\ u \notin q.answer)) /\ u # m
              => r.st # "clear" /\ (r.st = "collect" => r.bits \/ (u \in r.wait /\ u \notin r.answer))
    <3> DEFINE c == Contributed(q, m, FALSE)
    <3>1. /\ q.st # "collect" => c = q
          /\ q.st = "collect" => c.st \in {"collect", "clear", "set"}
          /\ \A u \in Mount : q.st = "collect" /\ (q.bits \/ (u \in q.wait /\ u \notin q.answer)) /\ u # m
                => c.st # "clear" /\ (c.st = "collect" => c.bits \/ (u \in c.wait /\ u \notin c.answer))
          BY Zenon, <2>1, ContributedFacts
    <3>2. r = c BY <2>3
    <3> HIDE DEF c
    <3>3. QED BY <3>1, <3>2, Zenon
  <2>5. q = NoReq => r = NoReq BY Zenon, <1>3, <2>4
  <2>6. r.st \in {"sent", "queued"} => r.ask = {} /\ r.answer = {} BY Zenon, <2>2, <2>4
  <2>7. ASSUME NEW o \in Mount \ {p}, try[p][x] = "wait", InUse(o)
        PROVE  r.st # "clear" /\ (r.st = "collect" => r.bits \/ (o \in r.wait /\ o \notin r.answer))
    <3>1. q.st # "clear" /\ (q.st = "collect" => q.bits \/ (o \in q.wait /\ o \notin q.answer))
          BY Zenon, <2>2, <2>7
    <3>2. o # m BY <2>7
    <3>3. CASE q.st = "collect" BY <2>4, <3>1, <3>2, <3>3, Zenon
    <3>4. CASE q.st # "collect" BY <2>4, <3>1, <3>4, Zenon
    <3>5. QED BY <3>3, <3>4, ZenonT(60)
  <2>8. QED BY <2>5, <2>6, <2>7, Zenon DEF q, r
<1>9. QED BY <1>4, <1>5, <1>7, <1>8, Zenon

\* A mount that leaves is gone.
LEMMA FarewellInv ==
    ASSUME DeletionInv, NEW m \in Mount, Farewell(m)
    PROVE  DeletionInv'
<1>i. /\ TypeOK /\ BitsMatchCache /\ OrphanTracked /\ UsedNotDeleted /\ LockedItems
      /\ \A p \in Mount : TasksRun(p) /\ DeleterAlone(p) /\ MapsTrue(p)
      BY Zenon DEF DeletionInv
<1>u. /\ mount[m] = "leaving" /\ vino[m].st = "none"
      /\ mount' = [mount EXCEPT ![m] = "gone"]
      /\ mode' = [mode EXCEPT ![m] = "null"]
      /\ map' = [map EXCEPT ![m] = "stale"]
      /\ stable' = IF dirty = m THEN item ELSE stable
      /\ dirty' = IF dirty = m THEN None ELSE dirty
      /\ RemoveRid(m)
      /\ UNCHANGED <<item, merged, vino, bit, found, trying, try, recov, failovers>>
      BY Zenon DEF Farewell, vars, itemVars, cacheVars, tryVars, serverVars
<1>o. \A p \in Mount \ {m} : mode'[p] = mode[p] /\ map'[p] = map[p] /\ mount'[p] = mount[p]
      BY <1>i, <1>u DEF TypeOK
<1>q. ~ InUse(m) /\ RemoveRid(m) BY Zenon, <1>i, <1>u DEF InUse, TasksRun, Runs
<1>r. /\ req' \in [Mount -> [Task -> Req]]
      /\ rids' \in SUBSET Mount
      /\ \A x \in Task : req'[m][x] = NoReq
      /\ \A p \in Mount \ {m}, x \in Task :
            /\ req[p][x] = NoReq => req'[p][x] = NoReq
            /\ req'[p][x].st \in {"sent", "queued"} => req'[p][x].ask = {} /\ req'[p][x].answer = {}
            /\ \A o \in Mount \ {p} : try[p][x] = "wait" /\ InUse(o) =>
                  /\ req'[p][x].st # "clear"
                  /\ req'[p][x].st = "collect" =>
                        req'[p][x].bits \/ (o \in req'[p][x].wait /\ o \notin req'[p][x].answer)
      BY <1>q, RemoveRidFacts, Zenon
<1>t. ~ found[m] /\ \A x \in Task : try[m][x] = "idle" BY Zenon, <1>i, <1>u DEF TasksRun, Task
<1>m. /\ mount' \in [Mount -> {"up", "leaving", "dead", "gone"}] /\ mount'[m] = "gone"
      /\ mode' \in [Mount -> Modes] /\ mode'[m] = "null"
      /\ map' \in [Mount -> {"stale", "asking", "clear", "set"}]
      BY <1>i, <1>u DEF TypeOK, Modes
<1>s. \A o \in Mount : (InUse(o)' => InUse(o)) /\ (Known(o)' => Known(o))
      BY <1>u, Zenon DEF InUse, Known
<1>1. TypeOK'
  <2>1. stable' \in Item /\ dirty' \in Mount \cup {None} BY <1>i, <1>u DEF TypeOK
  <2>2. rids' \subseteq Mount BY <1>r, Zenon
  <2>3. QED BY <1>i, <1>u, <1>m, <1>r, <2>1, <2>2, Zenon DEF TypeOK
<1>2. BitsMatchCache' BY <1>i, <1>u, Zenon DEF BitsMatchCache
<1>3. OrphanTracked' BY Zenon, <1>i, <1>u DEF OrphanTracked
<1>4. UsedNotDeleted' BY <1>i, <1>u, <1>s, Zenon DEF UsedNotDeleted, InUse
<1>5. LockedItems'
  <2>1. \A o \in Mount : InUse(o) => item.st = "live" BY <1>i DEF UsedNotDeleted, InUse
  <2>2. \A o \in Mount : mode'[o] = "write" => mode[o] = "write" BY <1>o, <1>m
  <2>3. \A p, o \in Mount : mode'[p] = "write" /\ o # p => mode'[o] = "null"
        BY ZenonT(60), <1>i, <1>o, <1>m, <2>2 DEF LockedItems
  <2>4. CASE dirty = m
        BY Zenon, <1>i, <1>u, <1>s, <2>1, <2>3, <2>4, NoneAssumption DEF LockedItems
  <2>5. CASE dirty # m
    <3>1. dirty # None => mode'[dirty] = "write" /\ Runs(dirty)'
          BY <1>i, <1>u, <1>o, <2>5 DEF LockedItems, Runs, TypeOK
    <3>2. QED BY Zenon, <1>i, <1>u, <1>s, <2>3, <2>5, <3>1 DEF LockedItems
  <2>6. QED BY <2>4, <2>5
<1>6. ASSUME NEW p \in Mount PROVE TasksRun(p)' /\ DeleterAlone(p)' /\ MapsTrue(p)'
  <2>i. TasksRun(p) /\ DeleterAlone(p) /\ MapsTrue(p) BY <1>i
  <2>1. CASE p # m
    <3>e. /\ mode'[p] = mode[p] /\ vino'[p] = vino[p] /\ bit'[p] = bit[p] /\ found'[p] = found[p] /\ map'[p] = map[p]
          /\ trying'[p] = trying[p] /\ try'[p] = try[p] /\ mount'[p] = mount[p]
          BY Zenon, <1>u, <1>o, <2>1
    <3>1. TasksRun(p)' BY <2>i, <3>e, TasksFrame, Zenon
    <3>2. DeleterAlone(p)' BY <1>u, <1>s, <2>i, <3>e, DeleterFrame, Zenon
    <3>3. MapsTrue(p)'
      <4>1. Runs(p)' <=> Runs(p) BY Zenon, <3>e DEF Runs
      <4>2. mode'[p] = "write" /\ map'[p] = "clear" => \A o \in Mount \ {p} : ~ InUse(o)'
            BY <1>s, <2>i, <3>e, Zenon DEF MapsTrue
      <4>3. \A x \in Task : Runs(p)' /\ try'[p][x] \notin {"wait", "scanwait"} => req'[p][x] = NoReq
            BY ZenonT(60), <1>r, <2>i, <2>1, <3>e, <4>1 DEF MapsTrue
      <4>4. \A x \in Task : req'[p][x].st \in {"sent", "queued"} =>
               req'[p][x].ask = {} /\ req'[p][x].answer = {}
            BY Zenon, <1>r, <2>1
      <4>5. ASSUME NEW x \in Task, NEW o \in Mount \ {p}, try'[p][x] = "wait", InUse(o)'
            PROVE  /\ req'[p][x].st # "clear"
                   /\ req'[p][x].st = "collect" =>
                         req'[p][x].bits \/ (o \in req'[p][x].wait /\ o \notin req'[p][x].answer)
        <5>1. InUse(o) /\ try[p][x] = "wait" /\ p \in Mount \ {m} BY Zenon, <1>s, <2>1, <3>e, <4>5
        <5>2. QED BY <1>r, <5>1, Zenon
      <4>6. QED BY <4>2, <4>3, <4>4, <4>5, Zenon DEF MapsTrue
    <3>4. QED BY <3>1, <3>2, <3>3, Zenon
  <2>2. CASE p = m
    <3>1. TasksRun(p)'
      <4>1. ~ Held(m)' BY Zenon, <1>u, <1>t DEF Held
      <4>2. QED BY Zenon, <1>u, <1>m, <1>t, <2>2, <4>1 DEF TasksRun, Runs, Task
    <3>2. DeleterAlone(p)'
      <4>1. \A x \in Task : try'[m][x] # "delete" BY Zenon, <1>u, <1>t
      <4>2. QED BY <2>2, <4>1 DEF DeleterAlone
    <3>3. MapsTrue(p)'
      <4>1. ~ Runs(m)' /\ mode'[m] # "write" /\ NoReq.st = "none" BY <1>m DEF Runs, NoReq
      <4>2. \A x \in Task : try'[m][x] # "wait" BY Zenon, <1>u, <1>t
      <4>3. QED BY Zenon, <1>r, <2>2, <4>1, <4>2 DEF MapsTrue
    <3>4. QED BY <3>1, <3>2, <3>3, Zenon
  <2>3. QED BY <2>1, <2>2
<1>7. QED BY <1>1, <1>2, <1>3, <1>4, <1>5, <1>6, Zenon DEF DeletionInv

\* A dead mount is fenced and gone.
LEMMA ReclaimInv ==
    ASSUME DeletionInv, NEW m \in Mount, Reclaim(m)
    PROVE  DeletionInv'
<1>i. /\ TypeOK /\ BitsMatchCache /\ OrphanTracked /\ UsedNotDeleted /\ LockedItems
      /\ \A p \in Mount : TasksRun(p) /\ DeleterAlone(p) /\ MapsTrue(p)
      BY Zenon DEF DeletionInv
<1>u. /\ mount[m] = "dead"
      /\ mount' = [mount EXCEPT ![m] = "gone"]
      /\ mode' = [mode EXCEPT ![m] = "null"]
      /\ recov' = recov \ {m}
      /\ RemoveRid(m)
      /\ UNCHANGED <<item, stable, dirty, merged, vino, bit, found, map, trying, try,
                     failovers>>
      BY Zenon DEF Reclaim, vars, itemVars, cacheVars, tryVars, serverVars
<1>o. \A p \in Mount \ {m} : mode'[p] = mode[p] /\ mount'[p] = mount[p]
      BY <1>i, <1>u DEF TypeOK
<1>t. vino[m].st = "none" /\ ~ found[m] /\ (\A x \in Task : try[m][x] = "idle") /\ dirty # m
  <2>1. ~ Runs(m) BY <1>u DEF Runs
  <2>2. dirty # m BY <1>i, <2>1, NoneAssumption DEF LockedItems
  <2>3. QED BY Zenon, <1>i, <2>1, <2>2 DEF TasksRun
<1>q. ~ InUse(m) /\ RemoveRid(m) BY Zenon, <1>u, <1>t DEF InUse
<1>r. /\ req' \in [Mount -> [Task -> Req]]
      /\ rids' \in SUBSET Mount
      /\ \A x \in Task : req'[m][x] = NoReq
      /\ \A p \in Mount \ {m}, x \in Task :
            /\ req[p][x] = NoReq => req'[p][x] = NoReq
            /\ req'[p][x].st \in {"sent", "queued"} => req'[p][x].ask = {} /\ req'[p][x].answer = {}
            /\ \A o \in Mount \ {p} : try[p][x] = "wait" /\ InUse(o) =>
                  /\ req'[p][x].st # "clear"
                  /\ req'[p][x].st = "collect" =>
                        req'[p][x].bits \/ (o \in req'[p][x].wait /\ o \notin req'[p][x].answer)
      BY <1>q, RemoveRidFacts, Zenon
<1>m. /\ mount' \in [Mount -> {"up", "leaving", "dead", "gone"}] /\ mount'[m] = "gone"
      /\ mode' \in [Mount -> Modes] /\ mode'[m] = "null"
      BY <1>i, <1>u DEF TypeOK, Modes
<1>s. \A o \in Mount : (InUse(o)' => InUse(o)) /\ (Known(o)' => Known(o))
      BY <1>u, Zenon DEF InUse, Known
<1>1. TypeOK'
  <2>1. recov' \subseteq Mount BY <1>i, <1>u DEF TypeOK
  <2>2. rids' \subseteq Mount BY <1>r, Zenon
  <2>3. QED BY <1>i, <1>u, <1>m, <1>r, <2>1, <2>2, Zenon DEF TypeOK
<1>2. BitsMatchCache' BY <1>i, <1>u, Zenon DEF BitsMatchCache
<1>3. OrphanTracked' BY <1>i, <1>u, Zenon DEF OrphanTracked
<1>4. UsedNotDeleted' BY <1>i, <1>u, <1>s, Zenon DEF UsedNotDeleted, InUse
<1>5. LockedItems'
  <2>1. \A o \in Mount : mode'[o] = "write" => mode[o] = "write" BY <1>o, <1>m
  <2>2. \A p, o \in Mount : mode'[p] = "write" /\ o # p => mode'[o] = "null"
        BY Zenon, <1>i, <1>o, <1>m, <2>1 DEF LockedItems
  <2>3. dirty # None => mode'[dirty] = "write" /\ Runs(dirty)'
        BY Zenon, <1>i, <1>u, <1>o, <1>t DEF LockedItems, Runs, TypeOK
  <2>4. QED BY Zenon, <1>i, <1>u, <1>s, <2>2, <2>3 DEF LockedItems
<1>6. ASSUME NEW p \in Mount PROVE TasksRun(p)' /\ DeleterAlone(p)' /\ MapsTrue(p)'
  <2>i. TasksRun(p) /\ DeleterAlone(p) /\ MapsTrue(p) BY <1>i
  <2>1. CASE p # m
    <3>e. /\ mode'[p] = mode[p] /\ vino'[p] = vino[p] /\ bit'[p] = bit[p] /\ found'[p] = found[p] /\ map'[p] = map[p]
          /\ trying'[p] = trying[p] /\ try'[p] = try[p] /\ mount'[p] = mount[p]
          BY Zenon, <1>u, <1>o, <2>1
    <3>1. TasksRun(p)' BY <2>i, <3>e, TasksFrame, Zenon
    <3>2. DeleterAlone(p)' BY <1>u, <1>s, <2>i, <3>e, DeleterFrame, ZenonT(60)
    <3>3. MapsTrue(p)'
      <4>1. Runs(p)' <=> Runs(p) BY <3>e, Zenon DEF Runs
      <4>2. mode'[p] = "write" /\ map'[p] = "clear" => \A o \in Mount \ {p} : ~ InUse(o)'
            BY <1>s, <2>i, <3>e, Zenon DEF MapsTrue
      <4>3. \A x \in Task : Runs(p)' /\ try'[p][x] \notin {"wait", "scanwait"} => req'[p][x] = NoReq
            BY Zenon, <1>r, <2>i, <2>1, <3>e, <4>1 DEF MapsTrue
      <4>4. \A x \in Task : req'[p][x].st \in {"sent", "queued"} =>
               req'[p][x].ask = {} /\ req'[p][x].answer = {}
            BY Zenon, <1>r, <2>1
      <4>5. ASSUME NEW x \in Task, NEW o \in Mount \ {p}, try'[p][x] = "wait", InUse(o)'
            PROVE  /\ req'[p][x].st # "clear"
                   /\ req'[p][x].st = "collect" =>
                         req'[p][x].bits \/ (o \in req'[p][x].wait /\ o \notin req'[p][x].answer)
        <5>1. InUse(o) /\ try[p][x] = "wait" /\ p \in Mount \ {m} BY Zenon, <1>s, <2>1, <3>e, <4>5
        <5>2. QED BY <1>r, <5>1, Zenon
      <4>6. QED BY <4>2, <4>3, <4>4, <4>5, Zenon DEF MapsTrue
    <3>4. QED BY <3>1, <3>2, <3>3, Zenon
  <2>2. CASE p = m
    <3>1. TasksRun(p)'
      <4>1. ~ Held(m)' BY Zenon, <1>u, <1>t DEF Held
      <4>2. QED BY Zenon, <1>u, <1>m, <1>t, <2>2, <4>1 DEF TasksRun, Runs, Task
    <3>2. DeleterAlone(p)'
      <4>1. \A x \in Task : try'[m][x] # "delete" BY Zenon, <1>u, <1>t
      <4>2. QED BY <2>2, <4>1 DEF DeleterAlone
    <3>3. MapsTrue(p)'
      <4>1. ~ Runs(m)' /\ mode'[m] # "write" /\ NoReq.st = "none" BY Zenon, <1>m DEF Runs, NoReq
      <4>2. \A x \in Task : try'[m][x] # "wait" BY Zenon, <1>u, <1>t
      <4>3. QED BY Zenon, <1>r, <2>2, <4>1, <4>2 DEF MapsTrue
    <3>4. QED BY <3>1, <3>2, <3>3, Zenon
  <2>3. QED BY <2>1, <2>2
<1>7. QED BY <1>1, <1>2, <1>3, <1>4, <1>5, <1>6, Zenon DEF DeletionInv

\* A mount crashes, and its open transaction is lost.
LEMMA CrashInv ==
    ASSUME DeletionInv, NEW m \in Mount, Crash(m)
    PROVE  DeletionInv'
<1>i. /\ TypeOK /\ BitsMatchCache /\ OrphanTracked /\ UsedNotDeleted /\ LockedItems
      /\ \A p \in Mount : TasksRun(p) /\ DeleterAlone(p) /\ MapsTrue(p)
      BY Zenon DEF DeletionInv
<1>u. /\ Runs(m)
      /\ mount' = [mount EXCEPT ![m] = "dead"]
      /\ item' = IF dirty = m THEN stable ELSE item
      /\ dirty' = IF dirty = m THEN None ELSE dirty
      /\ vino' = [vino EXCEPT ![m] = NoVino]
      /\ bit' = [bit EXCEPT ![m] = FALSE]
      /\ found' = [found EXCEPT ![m] = FALSE]
      /\ map' = [map EXCEPT ![m] = "stale"]
      /\ trying' = [trying EXCEPT ![m] = FALSE]
      /\ try' = [try EXCEPT ![m] = [x \in Task |-> "idle"]]
      /\ UNCHANGED <<stable, merged, mode, req, rids, recov, failovers>>
      BY Zenon DEF Crash, Runs, vars, itemVars, cacheVars, tryVars, serverVars
<1>o. \A p \in Mount \ {m} : /\ vino'[p] = vino[p] /\ bit'[p] = bit[p] /\ found'[p] = found[p]
                             /\ map'[p] = map[p] /\ trying'[p] = trying[p] /\ try'[p] = try[p]
                             /\ mount'[p] = mount[p]
      BY Zenon, <1>i, <1>u DEF TypeOK
<1>n. NoVino \in Vino /\ NoVino.st = "none" BY DEF NoVino, Vino
<1>m. /\ mount' \in [Mount -> {"up", "leaving", "dead", "gone"}] /\ mount'[m] = "dead"
      /\ vino' \in [Mount -> Vino] /\ vino'[m] = NoVino
      /\ map' \in [Mount -> {"stale", "asking", "clear", "set"}] /\ map'[m] = "stale"
      BY Zenon, <1>i, <1>u, <1>n DEF TypeOK
<1>b. /\ bit' \in [Mount -> BOOLEAN] /\ bit'[m] = FALSE
      /\ found' \in [Mount -> BOOLEAN] /\ found'[m] = FALSE
      /\ trying' \in [Mount -> BOOLEAN]
      BY Zenon, <1>i, <1>u DEF TypeOK
<1>t. /\ try' \in [Mount -> [Task -> {"idle", "ask", "scanwait", "lock", "data", "wait", "test", "delete"}]]
      /\ \A x \in Task : try'[m][x] = "idle"
      BY <1>i, <1>u DEF TypeOK
<1>w. vino'[m].st = "none" BY Zenon, <1>n, <1>m
<1>s. \A o \in Mount : (InUse(o)' => InUse(o)) /\ (Known(o)' => Known(o))
      BY <1>o, <1>w DEF InUse, Known
<1>1. TypeOK'
  <2>1. item' \in Item /\ dirty' \in Mount \cup {None} BY <1>i, <1>u DEF TypeOK
  <2>2. QED BY <1>i, <1>u, <1>m, <1>b, <1>t, <2>1, Zenon DEF TypeOK
<1>2. BitsMatchCache'
  <2>1. ASSUME NEW p \in Mount PROVE bit'[p] <=> vino'[p].st = "cached"
    <3>1. CASE p = m BY <1>b, <1>w, <3>1
    <3>2. CASE p # m BY <1>i, <1>o, <3>2, ZenonT(60) DEF BitsMatchCache
    <3>3. QED BY Zenon, <3>1, <3>2
  <2>2. QED BY <2>1, Zenon DEF BitsMatchCache
<1>3. OrphanTracked' BY <1>i, <1>u DEF OrphanTracked
<1>4. UsedNotDeleted'
  <2>1. \A o \in Mount : InUse(o)' => o # m /\ InUse(o) BY <1>s, <1>w DEF InUse
  <2>2. \A o \in Mount : InUse(o)' => item'.st = "live" BY Zenon, <1>i, <1>u, <2>1 DEF UsedNotDeleted, InUse, LockedItems
  <2>3. QED BY Zenon, <2>2 DEF UsedNotDeleted, InUse
<1>5. LockedItems'
  <2>1. \A o \in Mount : (InUse(o)' => o # m /\ InUse(o)) /\ (Known(o)' => o # m /\ Known(o))
        BY Zenon, <1>s, <1>w DEF InUse, Known
  <2>2. \A p, o \in Mount : mode'[p] = "write" /\ o # p => mode'[o] = "null" BY Zenon, <1>i, <1>u DEF LockedItems
  <2>3. CASE dirty = m
    <3>1. item' = stable /\ dirty' = None /\ stable' = stable BY <1>u, <2>3
    <3>2. QED BY Zenon, <1>i, <2>1, <2>2, <2>3, <3>1 DEF LockedItems
  <2>4. CASE dirty # m
    <3>1. item' = item /\ dirty' = dirty /\ stable' = stable BY Zenon, <1>u, <2>4
    <3>2. dirty # None => mode'[dirty] = "write" /\ Runs(dirty)'
          BY <1>i, <1>u, <1>o, <2>4 DEF LockedItems, Runs, TypeOK
    <3>3. QED BY Zenon, <1>i, <2>1, <2>2, <3>1, <3>2 DEF LockedItems
  <2>5. QED BY <2>3, <2>4
<1>6. ASSUME NEW p \in Mount PROVE TasksRun(p)' /\ DeleterAlone(p)' /\ MapsTrue(p)'
  <2>i. TasksRun(p) /\ DeleterAlone(p) /\ MapsTrue(p) BY <1>i
  <2>1. CASE p # m
    <3>e. /\ mode'[p] = mode[p] /\ vino'[p] = vino[p] /\ bit'[p] = bit[p] /\ found'[p] = found[p] /\ map'[p] = map[p]
          /\ trying'[p] = trying[p] /\ try'[p] = try[p] /\ req'[p] = req[p] /\ mount'[p] = mount[p]
          BY Zenon, <1>u, <1>o, <2>1
    <3>1. TasksRun(p)' BY <2>i, <3>e, TasksFrame, Zenon
    <3>2. DeleterAlone(p)'
      <4>1. CASE \E x \in Task : try[p][x] = "delete"
        <5>1. mode[p] = "write" BY Zenon, <2>i, <4>1 DEF TasksRun, Held
        <5>2. dirty # m BY Zenon, <1>i, <2>1, <5>1, NoneAssumption DEF LockedItems
        <5>3. item' = item BY <1>u, <5>2
        <5>4. QED BY <1>s, <2>i, <3>e, <5>3, DeleterFrame, Zenon
      <4>2. CASE ~ \E x \in Task : try[p][x] = "delete" BY Zenon, <3>e, <4>2 DEF DeleterAlone
      <4>3. QED BY Zenon, <4>1, <4>2
    <3>3. MapsTrue(p)' BY <1>s, <2>i, <3>e, MapsFrame, Zenon DEF Runs
    <3>4. QED BY <3>1, <3>2, <3>3, Zenon
  <2>2. CASE p = m
    <3>1. TasksRun(p)'
      <4>1. ~ Held(m)' BY <1>t DEF Held
      <4>2. ~ Runs(m)' /\ mount'[m] # "leaving" BY Zenon, <1>m DEF Runs
      <4>3. QED BY Zenon, <1>b, <1>t, <1>w, <2>2, <4>1, <4>2 DEF TasksRun, Task
    <3>2. DeleterAlone(p)'
      <4>1. QED BY <1>t, <2>2 DEF DeleterAlone
    <3>3. MapsTrue(p)'
      <4>1. ~ Runs(m)' /\ map'[m] = "stale" /\ req' = req BY Zenon, <1>m, <1>u DEF Runs
      <4>2. QED BY Zenon, <1>t, <2>i, <2>2, <4>1 DEF MapsTrue
    <3>4. QED BY <3>1, <3>2, <3>3, Zenon
  <2>3. QED BY <2>1, <2>2
<1>7. QED BY <1>1, <1>2, <1>3, <1>4, <1>5, <1>6, Zenon DEF DeletionInv

\* server_greeting() finishes a client's recovery.
LEMMA GreetingInv ==
    ASSUME DeletionInv, NEW m \in Mount, Greeting(m)
    PROVE  DeletionInv'
<1>i. /\ TypeOK /\ BitsMatchCache /\ OrphanTracked /\ UsedNotDeleted /\ LockedItems
      /\ \A p \in Mount : TasksRun(p) /\ DeleterAlone(p) /\ MapsTrue(p)
      BY Zenon DEF DeletionInv
<1>u. /\ recov' = recov \ {m}
      /\ UNCHANGED <<item, stable, dirty, merged, mode, vino, bit, found, map, trying,
                     try, req, mount, rids, failovers>>
      BY Zenon DEF Greeting, vars, itemVars, cacheVars, tryVars, serverVars
<1>1. TypeOK'
  <2>1. recov' \subseteq Mount BY <1>i, <1>u DEF TypeOK
  <2>2. QED BY <1>i, <1>u, <2>1, Zenon DEF TypeOK
<1>2. BitsMatchCache' BY <1>i, <1>u, Zenon DEF BitsMatchCache
<1>3. OrphanTracked' BY <1>i, <1>u, Zenon DEF OrphanTracked
<1>4. UsedNotDeleted' BY <1>i, <1>u, Zenon DEF UsedNotDeleted, InUse
<1>5. LockedItems' BY <1>i, <1>u, LockedFrame, Zenon DEF InUse, Known, Runs
<1>6. ASSUME NEW p \in Mount PROVE TasksRun(p)' /\ DeleterAlone(p)' /\ MapsTrue(p)'
  <2>i. TasksRun(p) /\ DeleterAlone(p) /\ MapsTrue(p) BY <1>i
  <2>1. TasksRun(p)' BY <1>u, <2>i, TasksFrame, Zenon
  <2>2. DeleterAlone(p)' BY <1>u, <2>i, DeleterFrame, Zenon DEF InUse
  <2>3. MapsTrue(p)' BY <1>u, <2>i, MapsFrame, Zenon DEF InUse, Runs
  <2>4. QED BY <2>1, <2>2, <2>3, Zenon
<1>7. QED BY <1>1, <1>2, <1>3, <1>4, <1>5, <1>6, Zenon DEF DeletionInv

\* A client is added to the list.
LEMMA AddRidInv ==
    ASSUME DeletionInv, NEW m \in Mount, AddRid(m)
    PROVE  DeletionInv'
<1>i. /\ TypeOK /\ BitsMatchCache /\ OrphanTracked /\ UsedNotDeleted /\ LockedItems
      /\ \A p \in Mount : TasksRun(p) /\ DeleterAlone(p) /\ MapsTrue(p)
      BY Zenon DEF DeletionInv
<1>u. /\ rids' = rids \cup {m}
      /\ UNCHANGED <<item, stable, dirty, merged, mode, vino, bit, found, map, trying,
                     try, req, mount, recov, failovers>>
      BY Zenon DEF AddRid, vars, itemVars, cacheVars, tryVars, serverVars
<1>1. TypeOK'
  <2>1. rids' \subseteq Mount BY <1>i, <1>u DEF TypeOK
  <2>2. QED BY <1>i, <1>u, <2>1, Zenon DEF TypeOK
<1>2. BitsMatchCache' BY <1>i, <1>u, Zenon DEF BitsMatchCache
<1>3. OrphanTracked' BY <1>i, <1>u, Zenon DEF OrphanTracked
<1>4. UsedNotDeleted' BY <1>i, <1>u, Zenon DEF UsedNotDeleted, InUse
<1>5. LockedItems' BY <1>i, <1>u, LockedFrame, Zenon DEF InUse, Known, Runs
<1>6. ASSUME NEW p \in Mount PROVE TasksRun(p)' /\ DeleterAlone(p)' /\ MapsTrue(p)'
  <2>i. TasksRun(p) /\ DeleterAlone(p) /\ MapsTrue(p) BY <1>i
  <2>1. TasksRun(p)' BY <1>u, <2>i, TasksFrame, Zenon
  <2>2. DeleterAlone(p)' BY <1>u, <2>i, DeleterFrame, Zenon DEF InUse
  <2>3. MapsTrue(p)' BY <1>u, <2>i, MapsFrame, Zenon DEF InUse, Runs
  <2>4. QED BY <2>1, <2>2, <2>3, Zenon
<1>7. QED BY <1>1, <1>2, <1>3, <1>4, <1>5, <1>6, Zenon DEF DeletionInv

\* The server fails, and clients send their requests again.
LEMMA ServerFailInv ==
    ASSUME DeletionInv, ServerFail
    PROVE  DeletionInv'
<1>i. /\ TypeOK /\ BitsMatchCache /\ OrphanTracked /\ UsedNotDeleted /\ LockedItems
      /\ \A p \in Mount : TasksRun(p) /\ DeleterAlone(p) /\ MapsTrue(p)
      BY Zenon DEF DeletionInv
<1>u. /\ failovers < MaxFailovers /\ failovers' = failovers + 1
      /\ rids' = {}
      /\ recov' = {m \in Mount : mount[m] # "gone"}
      /\ req' = [m \in Mount |-> [x \in Task |->
                  IF req[m][x].st \in {"none", "clear", "set", "error"} THEN req[m][x]
                  ELSE [NoReq EXCEPT !.st = "sent"]]]
      /\ UNCHANGED <<item, stable, dirty, merged, mode, vino, bit, found, map, trying,
                     try, mount>>
      BY Zenon DEF ServerFail, vars, itemVars, cacheVars, tryVars, serverVars
<1> DEFINE again == [NoReq EXCEPT !.st = "sent"]
<1>n. /\ again \in Req /\ again.st = "sent" /\ again.ask = {} /\ again.answer = {}
      /\ NoReq \in Req /\ NoReq.st = "none"
      BY Zenon DEF NoReq, Req
<1>p. req' = [m \in Mount |-> [x \in Task |->
                IF req[m][x].st \in {"none", "clear", "set", "error"} THEN req[m][x] ELSE again]]
      BY <1>u, Zenon
<1> HIDE DEF again
<1>r. req' \in [Mount -> [Task -> Req]] BY Zenon, <1>i, <1>n, <1>p DEF TypeOK
<1>s. ASSUME NEW p \in Mount, NEW x \in Task
      PROVE  req'[p][x] = IF req[p][x].st \in {"none", "clear", "set", "error"} THEN req[p][x] ELSE again
      BY Zenon, <1>p
<1>1. TypeOK'
  <2>1. rids' \subseteq Mount /\ recov' \subseteq Mount BY <1>u
  <2>2. failovers' \in 0..MaxFailovers BY <1>i, <1>u, FailoversAssumption DEF TypeOK
  <2>3. QED BY <1>i, <1>u, <1>r, <2>1, <2>2, Zenon DEF TypeOK
<1>2. BitsMatchCache' BY <1>i, <1>u, Zenon DEF BitsMatchCache
<1>3. OrphanTracked' BY <1>i, <1>u, Zenon DEF OrphanTracked
<1>4. UsedNotDeleted' BY <1>i, <1>u, Zenon DEF UsedNotDeleted, InUse
<1>5. LockedItems' BY <1>i, <1>u, LockedFrame, Zenon DEF InUse, Known, Runs
<1>6. ASSUME NEW p \in Mount PROVE TasksRun(p)' /\ DeleterAlone(p)' /\ MapsTrue(p)'
  <2>i. TasksRun(p) /\ DeleterAlone(p) /\ MapsTrue(p) BY <1>i
  <2>1. TasksRun(p)' BY <1>u, <2>i, TasksFrame, Zenon
  <2>2. DeleterAlone(p)' BY <1>u, <2>i, DeleterFrame, Zenon DEF InUse
  <2>3. MapsTrue(p)'
    <3>1. \A o \in Mount : InUse(o)' <=> InUse(o) BY <1>u, Zenon DEF InUse
    <3>2. try' = try /\ map' = map /\ mode' = mode /\ (Runs(p)' <=> Runs(p)) BY <1>u, Zenon DEF Runs
    <3>3. mode'[p] = "write" /\ map'[p] = "clear" => \A o \in Mount \ {p} : ~ InUse(o)'
          BY Zenon, <2>i, <3>1, <3>2 DEF MapsTrue
    <3>4. ASSUME NEW x \in Task
          PROVE  /\ Runs(p)' /\ try'[p][x] \notin {"wait", "scanwait"} => req'[p][x] = NoReq
                 /\ req'[p][x].st \in {"sent", "queued"} => req'[p][x].ask = {} /\ req'[p][x].answer = {}
                 /\ \A o \in Mount \ {p} : try'[p][x] = "wait" /\ InUse(o)' =>
                       /\ req'[p][x].st # "clear"
                       /\ req'[p][x].st # "collect"
      <4>1. CASE req[p][x].st \in {"none", "clear", "set", "error"}
        <5>1. req'[p][x] = req[p][x] BY <1>s, <4>1
        <5>2. QED BY Zenon, <2>i, <3>1, <3>2, <4>1, <5>1 DEF MapsTrue
      <4>2. CASE req[p][x].st \notin {"none", "clear", "set", "error"}
        <5>1. req'[p][x] = again BY Zenon, <1>s, <4>2
        <5>2. req[p][x] # NoReq BY <1>n, <4>2
        <5>3. QED BY Zenon, <1>n, <2>i, <3>2, <5>1, <5>2 DEF MapsTrue
      <4>3. QED BY Zenon, <4>1, <4>2
    <3>5. QED BY <3>3, <3>4, Zenon DEF MapsTrue
  <2>4. QED BY <2>1, <2>2, <2>3, Zenon
<1>7. QED BY <1>1, <1>2, <1>3, <1>4, <1>5, <1>6, Zenon DEF DeletionInv

-----------------------------------------------------------------------------
(* The invariant and what it implies. *)

\* Everything is idle at first.
LEMMA InitInv == Init => DeletionInv
<1> SUFFICES ASSUME Init PROVE DeletionInv OBVIOUS
<1>1. TypeOK
  <2>1. item \in Item /\ stable \in Item /\ dirty \in Mount \cup {None} BY DEF Init, Item
  <2>2. merged \in BOOLEAN BY Zenon DEF Init
  <2>3. mode \in [Mount -> Modes] BY DEF Init, Modes
  <2>4. NoVino \in Vino BY DEF NoVino, Vino
  <2>5. vino \in [Mount -> Vino] BY Zenon, <2>4 DEF Init
  <2>6. bit \in [Mount -> BOOLEAN] /\ found \in [Mount -> BOOLEAN] /\ trying \in [Mount -> BOOLEAN]
        BY Zenon DEF Init
  <2>7. map \in [Mount -> {"stale", "asking", "clear", "set"}] BY Zenon DEF Init
  <2>8. try \in [Mount -> [Task -> {"idle", "ask", "scanwait", "lock", "data", "wait", "test", "delete"}]]
        BY Zenon DEF Init
  <2>9. NoReq \in Req BY Zenon DEF NoReq, Req
  <2>10. req \in [Mount -> [Task -> Req]] BY Zenon, <2>9 DEF Init
  <2>11. mount \in [Mount -> {"up", "leaving", "dead", "gone"}] BY Zenon DEF Init
  <2>12. rids \subseteq Mount /\ recov \subseteq Mount BY Zenon DEF Init
  <2>13. failovers \in 0..MaxFailovers BY FailoversAssumption DEF Init
  <2>14. QED BY <2>1, <2>2, <2>3, <2>5, <2>6, <2>7, <2>8, <2>10, <2>11, <2>12, <2>13, Zenon DEF TypeOK
<1>2. /\ \A p \in Mount : vino[p].st = "none" /\ bit[p] = FALSE /\ found[p] = FALSE
      /\ \A p \in Mount : mode[p] = "null" /\ map[p] = "stale" /\ mount[p] = "up"
      /\ \A p \in Mount, x \in Task : try[p][x] = "idle" /\ req[p][x] = NoReq
      BY DEF Init, NoVino
<1>3. BitsMatchCache BY Zenon, <1>2 DEF BitsMatchCache
<1>4. OrphanTracked BY DEF Init, OrphanTracked
<1>5. UsedNotDeleted BY Zenon, <1>2 DEF UsedNotDeleted, InUse
<1>6. LockedItems
  <2>1. dirty = None /\ stable = item BY DEF Init
  <2>2. QED BY <1>2, <2>1 DEF LockedItems, InUse, Known
<1>7. ASSUME NEW p \in Mount PROVE TasksRun(p) /\ DeleterAlone(p) /\ MapsTrue(p)
  <2>1. TasksRun(p) BY Zenon, <1>2 DEF TasksRun, Runs, Held, Task
  <2>2. DeleterAlone(p) BY <1>2 DEF DeleterAlone
  <2>3. NoReq.st = "none" BY DEF NoReq
  <2>4. MapsTrue(p) BY Zenon, <1>2, <2>3 DEF MapsTrue
  <2>5. QED BY Zenon, <2>1, <2>2, <2>4
<1>8. QED BY <1>1, <1>3, <1>4, <1>5, <1>6, <1>7, Zenon DEF DeletionInv

\* A step that changes nothing.
LEMMA StutterInv ==
    ASSUME DeletionInv, UNCHANGED vars
    PROVE  DeletionInv'
<1>i. /\ TypeOK /\ BitsMatchCache /\ OrphanTracked /\ UsedNotDeleted /\ LockedItems
      /\ \A p \in Mount : TasksRun(p) /\ DeleterAlone(p) /\ MapsTrue(p)
      BY Zenon DEF DeletionInv
<1>u. UNCHANGED <<item, stable, dirty, merged, mode, vino, bit, found, map, trying, try, req, mount,
                  rids, recov, failovers>>
      BY Zenon DEF vars, itemVars, cacheVars, tryVars, serverVars
<1>1. TypeOK' /\ BitsMatchCache' /\ OrphanTracked' /\ UsedNotDeleted'
      BY <1>i, <1>u, Zenon DEF TypeOK, BitsMatchCache, OrphanTracked, UsedNotDeleted, InUse
<1>2. LockedItems' BY <1>i, <1>u, LockedFrame, Zenon DEF InUse, Known, Runs
<1>3. ASSUME NEW p \in Mount PROVE TasksRun(p)' /\ DeleterAlone(p)' /\ MapsTrue(p)'
  <2>i. TasksRun(p) /\ DeleterAlone(p) /\ MapsTrue(p) BY <1>i
  <2>1. TasksRun(p)' BY <1>u, <2>i, TasksFrame, Zenon
  <2>2. DeleterAlone(p)' BY <1>u, <2>i, DeleterFrame, Zenon DEF InUse
  <2>3. MapsTrue(p)' BY <1>u, <2>i, MapsFrame, Zenon DEF InUse, Runs
  <2>4. QED BY <2>1, <2>2, <2>3, Zenon
<1>4. QED BY <1>1, <1>2, <1>3, Zenon DEF DeletionInv

\* Every step keeps the invariant.
LEMMA NextInv ==
    ASSUME DeletionInv, Next
    PROVE  DeletionInv'
<1>1. ASSUME NEW m \in Mount, NEW x \in Task, DeleteStep(m, x) PROVE DeletionInv'
      BY <1>1, TryLockInv, LockDataInv, GotLockDataInv, TryTestInv, DeleteItemsInv, Zenon DEF DeleteStep
<1>2. ASSUME NEW m \in Mount, NEW x \in Task, OmapStep(m, x) PROVE DeletionInv'
      BY <1>2, ServerOpenInoMapInv, HandleRequestInv, ClientHandleRequestInv, ServerHandleResponseInv, Zenon
         DEF OmapStep
<1>3. ASSUME NEW m \in Mount, ScanStep(m) PROVE DeletionInv'
      BY <1>3, ScanOrphanInv, ScanAskInv, ScanAnswerInv, Zenon DEF ScanStep
<1>4. ASSUME NEW m \in Mount, scoutfs_unlink(m) \/ scoutfs_link(m) PROVE DeletionInv'
  <2>1. CASE scoutfs_unlink(m)
    <3>1. SetLink(m, 0) BY <2>1, Zenon DEF scoutfs_unlink
    <3>2. 0 \in 0..1 /\ 0 # 1 OBVIOUS
    <3>3. QED BY <3>1, <3>2, SetLinkInv, Zenon
  <2>2. CASE scoutfs_link(m)
    <3>1. SetLink(m, 1) /\ (vino[m].nlink > 0 \/ vino[m].linkable) BY <2>2, Zenon DEF scoutfs_link
    <3>2. 1 \in 0..1 OBVIOUS
    <3>3. QED BY <3>1, <3>2, SetLinkInv, Zenon
  <2>3. QED BY <1>4, <2>1, <2>2, Zenon
<1>5. ASSUME NEW m \in Mount,
             \/ ShrinkLock(m)
             \/ \E n \in 0..1 : Create(m, n)
             \/ LookupDirent(m) \/ IgetStart(m) \/ IgetFinish(m) \/ Close(m)
             \/ scoutfs_evict_inode(m)
      PROVE  DeletionInv'
      BY <1>5, ShrinkLockInv, CreateInv, LookupDirentInv, IgetStartInv, IgetFinishInv, CloseInv, EvictInv, Zenon
<1>6. ASSUME NEW m \in Mount,
             Unmount(m) \/ Farewell(m) \/ Crash(m) \/ Reclaim(m) \/ Greeting(m) \/ AddRid(m)
      PROVE  DeletionInv'
      BY <1>6, UnmountInv, FarewellInv, CrashInv, ReclaimInv, GreetingInv, AddRidInv, Zenon
<1>7. QED BY <1>1, <1>2, <1>3, <1>4, <1>5, <1>6, CommitInv, MergeInv, ServerFailInv, Zenon DEF Next

\* One task of one mount deletes, since it holds the lock in write mode.
LEMMA InvOneDeleter == DeletionInv => OneDeleter
<1> SUFFICES ASSUME DeletionInv, NEW m \in Mount, NEW x \in Task, try[m][x] = "delete",
                    NEW o \in Mount, NEW y \in Task, try[o][y] = "delete"
             PROVE  mode[m] = "write" /\ o = m /\ y = x
    BY DEF OneDeleter
<1>1. TasksRun(m) /\ TasksRun(o) /\ LockedItems BY DEF DeletionInv
<1>2. mode[m] = "write" /\ mode[o] = "write" BY Zenon, <1>1 DEF TasksRun, Held
<1>3. o = m BY Zenon, <1>1, <1>2 DEF LockedItems
<1>4. y = x BY Zenon, <1>1, <1>3 DEF TasksRun, Task
<1>5. QED BY Zenon, <1>2, <1>3, <1>4

\* The inductive invariant of deletion.
THEOREM DeletionInvariant == Spec => []DeletionInv
<1>1. DeletionInv /\ [Next]_vars => DeletionInv' BY NextInv, StutterInv, Zenon
<1>2. QED BY InitInv, <1>1, PTL DEF Spec

\* The trying bits of inode_deletion_lock_data and the write lock let one task of one mount
\* delete an inode's items at a time.
THEOREM DeletesAlone == Spec => []OneDeleter
BY DeletionInvariant, InvOneDeleter, PTL

\* The orphan item exists exactly while the inode has no name, in the items and as of the last
\* commit, whatever mounts crash.
THEOREM OrphansTracked == Spec => []OrphanTracked
<1>1. DeletionInv => OrphanTracked BY Zenon DEF DeletionInv
<1>2. QED BY <1>1, DeletionInvariant, PTL

\* try_delete_inode_items() deletes no items of an inode that a mount uses, whatever mounts
\* crash, leave or are fenced and whatever servers fail, if greetings are prompt.
THEOREM NothingInUseDeleted == ASSUME Prompt PROVE Spec => []InUseNotDeleted
<1>1. DeletionInv => InUseNotDeleted BY Zenon DEF DeletionInv, UsedNotDeleted, InUse, InUseNotDeleted
<1>2. QED BY <1>1, DeletionInvariant, PTL

=============================================================================
