--------------------------- MODULE Sessions_proofs ---------------------------
(***************************************************************************)
(* The proofs about Sessions: nothing is reclaimed under a mount that      *)
(* runs, the mounted client item goes last, and a mount that left has left *)
(* nothing behind.                                                         *)
(***************************************************************************)
EXTENDS Sessions, FiniteSetTheorems, TLAPS

-----------------------------------------------------------------------------
(* Lists. *)

\* The kept indexes have different ranks, from 1 to their number.
LEMMA RankFacts ==
    ASSUME NEW n \in Nat, NEW I \in SUBSET (1..n)
    PROVE  /\ IsFiniteSet(I) /\ Cardinality(I) \in Nat
           /\ \A i \in I : Rank(I, i) \in 1..Cardinality(I)
           /\ \A i, j \in I : Rank(I, i) = Rank(I, j) => i = j
<1>n. IsFiniteSet(1..n) BY FS_Interval
<1>f. IsFiniteSet(I) BY <1>n, FS_Subset, Zenon
<1>c. Cardinality(I) \in Nat BY <1>f, FS_CardinalityType
<1>m. \A i \in I : i \in Int OBVIOUS
<1> DEFINE Below(i) == {j \in I : j <= i}
<1>b. ASSUME NEW i \in I PROVE IsFiniteSet(Below(i)) /\ Cardinality(Below(i)) \in Nat
  <2>1. Below(i) \in SUBSET I OBVIOUS
  <2>2. IsFiniteSet(Below(i)) BY <2>1, <1>f, FS_Subset, Zenon
  <2>3. QED BY <2>2, FS_CardinalityType, Zenon
<1>1. ASSUME NEW i \in I PROVE Rank(I, i) \in 1..Cardinality(I)
  <2>1. Below(i) \in SUBSET I /\ i \in Below(i) OBVIOUS
  <2>2. Cardinality(Below(i)) <= Cardinality(I) BY <2>1, <1>f, FS_Subset
  <2>3. Cardinality(Below(i)) # 0 BY <2>1, <1>b, FS_EmptySet
  <2>4. QED BY <2>2, <2>3, <1>b, <1>c DEF Rank
<1>2. ASSUME NEW i \in I, NEW j \in I, i < j PROVE Rank(I, i) # Rank(I, j)
  <2>1. \A l \in I : l <= i => l <= j BY <1>2, <1>m
  <2>2. Below(i) \in SUBSET Below(j) BY Zenon, <2>1
  <2>3. j \in Below(j) /\ j \notin Below(i) BY <1>2, <1>m
  <2>4. Cardinality(Below(i)) # Cardinality(Below(j)) BY <2>2, <2>3, <1>b, FS_Subset, Zenon
  <2>5. QED BY <2>4 DEF Rank
<1>3. ASSUME NEW i \in I, NEW j \in I, i # j PROVE Rank(I, i) # Rank(I, j)
  <2>1. i < j \/ j < i BY <1>3, <1>m
  <2>2. QED BY <2>1, <1>2
<1>4. QED BY <1>f, <1>c, <1>1, <1>3

\* Each rank up to the number of kept indexes is that of one of them.
LEMMA RankOnto ==
    ASSUME NEW n \in Nat, NEW I \in SUBSET (1..n), NEW k \in 1..Cardinality(I)
    PROVE  \E i \in I : Rank(I, i) = k
<1> DEFINE c == Cardinality(I)
           f == [i \in I |-> Rank(I, i)]
<1>1. f \in [I -> 1..c] /\ \A i, j \in I : f[i] = f[j] => i = j BY Zenon, RankFacts
<1>2. f \in Injection(I, 1..c) BY <1>1 DEF Injection, IsInjective
<1>3. c \in Nat /\ IsFiniteSet(I) BY Zenon, RankFacts
<1>4. IsFiniteSet(1..c) /\ Cardinality(1..c) = c BY <1>3, FS_Interval
<1>5. f \in Surjection(I, 1..c) BY <1>2, <1>4, FS_Injection
<1>6. QED BY Zenon, <1>5 DEF Surjection

\* A filtered list is a list of the elements of the list that are in the set.
LEMMA FilterType ==
    ASSUME NEW list \in Seq(Mount), NEW S
    PROVE  /\ Filter(list, S) \in Seq(Mount)
           /\ Range(Filter(list, S)) = Range(list) \cap S
<1> DEFINE I == Kept(list, S)
           c == Cardinality(I)
           At(k) == CHOOSE i \in I : Rank(I, i) = k
<1>n. Len(list) \in Nat /\ DOMAIN list = 1..Len(list) OBVIOUS
<1>i. I \in SUBSET (1..Len(list)) BY DEF Kept
<1>c. c \in Nat BY Zenon, <1>i, <1>n, RankFacts
<1>1. ASSUME NEW k \in 1..c PROVE At(k) \in I /\ Rank(I, At(k)) = k
      BY Zenon, <1>n, <1>i, RankOnto
<1>2. Filter(list, S) = [k \in 1..c |-> list[At(k)]] BY DEF Filter
<1>3. ASSUME NEW i \in I PROVE list[i] \in Mount \cap S BY <1>i, <1>n DEF Kept
<1>4. \A k \in 1..c : list[At(k)] \in Mount BY <1>1, <1>3
<1>5. Filter(list, S) \in Seq(Mount)
  <2> HIDE DEF c, At
  <2>1. [k \in 1..c |-> list[At(k)]] \in [1..c -> Mount] BY <1>4
  <2>2. QED BY <2>1, <1>2, <1>c
<1>6. DOMAIN Filter(list, S) = 1..c BY <1>2
<1>7. Range(Filter(list, S)) \subseteq Range(list) \cap S
  <2> HIDE DEF c, At, I
  <2>1. SUFFICES ASSUME NEW k \in 1..c PROVE list[At(k)] \in Range(list) \cap S
        BY <1>2, <1>6 DEF Range
  <2>2. QED BY Zenon, <1>1, <1>3, <1>i, <1>n DEF Range
<1>8. Range(list) \cap S \subseteq Range(Filter(list, S))
  <2>1. SUFFICES ASSUME NEW i \in 1..Len(list), list[i] \in S PROVE list[i] \in Range(Filter(list, S))
        BY <1>n DEF Range
  <2>2. i \in I BY <2>1 DEF Kept
  <2>3. Rank(I, i) \in 1..c BY Zenon, <2>2, <1>i, <1>n, RankFacts
  <2>4. At(Rank(I, i)) \in I /\ Rank(I, At(Rank(I, i))) = Rank(I, i) BY <2>3, <1>1
  <2> HIDE DEF c, At, I
  <2>5. At(Rank(I, i)) = i BY Zenon, <2>2, <2>4, <1>i, <1>n, RankFacts
  <2>6. Filter(list, S)[Rank(I, i)] = list[i] BY <2>3, <2>5, <1>2
  <2>7. QED BY <2>3, <2>6, <1>6 DEF Range
<1>9. QED BY <1>5, <1>7, <1>8

\* What a list without the requests of a mount still has.
LEMMA WithoutType ==
    ASSUME NEW list \in Seq(Mount), NEW m
    PROVE  Without(list, m) \in Seq(Mount) /\ Range(Without(list, m)) = Range(list) \ {m}
<1>1. Range(list) \subseteq Mount BY DEF Range
<1>2. QED BY <1>1, FilterType DEF Without

\* The elements of lists that are put together.
LEMMA RangeConcat ==
    ASSUME NEW s \in Seq(Mount), NEW t \in Seq(Mount)
    PROVE  s \o t \in Seq(Mount) /\ Range(s \o t) = Range(s) \cup Range(t)
<1> DEFINE u == s \o t
<1>1. /\ u \in Seq(Mount) /\ Len(u) = Len(s) + Len(t)
      /\ \A i \in 1..Len(s) + Len(t) : u[i] = IF i <= Len(s) THEN s[i] ELSE t[i - Len(s)]
      OBVIOUS
<1>2. /\ Len(s) \in Nat /\ DOMAIN s = 1..Len(s)
      /\ Len(t) \in Nat /\ DOMAIN t = 1..Len(t)
      /\ DOMAIN u = 1..Len(u)
      BY <1>1
<1> HIDE DEF u
<1>3. Range(u) \subseteq Range(s) \cup Range(t)
  <2>1. SUFFICES ASSUME NEW i \in 1..Len(s) + Len(t) PROVE u[i] \in Range(s) \cup Range(t)
        BY <1>1, <1>2 DEF Range
  <2>2. CASE i <= Len(s)
    <3>1. i \in 1..Len(s) /\ u[i] = s[i] BY <2>2, <1>1, <1>2
    <3>2. QED BY Zenon, <3>1, <1>2 DEF Range
  <2>3. CASE ~(i <= Len(s))
    <3>1. i - Len(s) \in 1..Len(t) /\ u[i] = t[i - Len(s)] BY <2>3, <1>1, <1>2
    <3>2. QED BY <3>1, <1>2 DEF Range
  <2>4. QED BY <2>2, <2>3
<1>4. Range(s) \subseteq Range(u)
  <2>1. SUFFICES ASSUME NEW i \in 1..Len(s) PROVE s[i] \in Range(u) BY <1>2 DEF Range
  <2>2. i \in 1..Len(u) /\ u[i] = s[i] BY <1>1, <1>2
  <2>3. QED BY <2>2, <1>2 DEF Range
<1>5. Range(t) \subseteq Range(u)
  <2>1. SUFFICES ASSUME NEW i \in 1..Len(t) PROVE t[i] \in Range(u) BY <1>2 DEF Range
  <2>2. i + Len(s) \in 1..Len(u) /\ u[i + Len(s)] = t[i] BY <1>1, <1>2
  <2>3. QED BY <2>2, <1>2 DEF Range
<1>6. QED BY <1>1, <1>3, <1>4, <1>5 DEF u

\* A part of a list has elements of the list.
LEMMA RangeSubSeq ==
    ASSUME NEW s \in Seq(Mount), NEW a \in Nat \ {0}, NEW b \in Nat, b <= Len(s)
    PROVE  SubSeq(s, a, b) \in Seq(Mount) /\ Range(SubSeq(s, a, b)) \subseteq Range(s)
<1> DEFINE u == SubSeq(s, a, b)
<1>1. Len(s) \in Nat /\ DOMAIN s = 1..Len(s) /\ \A i \in 1..Len(s) : s[i] \in Mount OBVIOUS
<1>2. \A i \in a..b : i \in 1..Len(s) BY <1>1
<1>3. /\ u \in Seq(Mount) /\ Len(u) = IF a <= b THEN b - a + 1 ELSE 0
      /\ \A i \in 1..b - a + 1 : u[i] = s[a + i - 1]
      BY <1>1, <1>2
<1>4. DOMAIN u = 1..Len(u) BY <1>3
<1> HIDE DEF u
<1>5. ASSUME NEW i \in 1..Len(u) PROVE u[i] \in Range(s)
  <2>1. i \in 1..b - a + 1 /\ a + i - 1 \in 1..Len(s) BY <1>1, <1>3
  <2>2. QED BY Zenon, <2>1, <1>1, <1>3 DEF Range
<1>6. QED BY <1>3, <1>4, <1>5 DEF Range, u

\* A list that is turned around has the same elements.
LEMMA RangeReverse ==
    ASSUME NEW s \in Seq(Mount)
    PROVE  Reversed(s) \in Seq(Mount) /\ Range(Reversed(s)) = Range(s)
<1>1. Len(s) \in Nat /\ DOMAIN s = 1..Len(s) /\ \A i \in 1..Len(s) : s[i] \in Mount OBVIOUS
<1>2. ASSUME NEW i \in 1..Len(s) PROVE Len(s) - i + 1 \in 1..Len(s) /\ Len(s) - (Len(s) - i + 1) + 1 = i
      BY <1>1
<1>3. Reversed(s) = [i \in 1..Len(s) |-> s[Len(s) - i + 1]] BY DEF Reversed
<1>4. Reversed(s) \in [1..Len(s) -> Mount] BY <1>1, <1>2, <1>3
<1>5. Reversed(s) \in Seq(Mount) BY <1>1, <1>4
<1>6. Range(Reversed(s)) \subseteq Range(s) BY <1>1, <1>2, <1>3 DEF Range
<1>7. Range(s) \subseteq Range(Reversed(s))
  <2>1. SUFFICES ASSUME NEW i \in 1..Len(s) PROVE s[i] \in Range(Reversed(s)) BY <1>1 DEF Range
  <2>2. Reversed(s)[Len(s) - i + 1] = s[i] BY <1>2, <1>3
  <2>3. QED BY <2>2, <1>2, <1>4 DEF Range
<1>8. QED BY Zenon, <1>5, <1>6, <1>7

-----------------------------------------------------------------------------
(* The client. *)

\* The requests that the server has are as they were when its lists are.
LEMMA RequestsSame ==
    ASSUME UNCHANGED <<requests, work>>
    PROVE  Requests' = Requests
BY DEF Requests

\* A mount starts to connect.
LEMMA SetupInv ==
    ASSUME SessionInv, NEW m \in Mount, scoutfs_client_setup(m)
    PROVE  SessionInv'
<1>u. /\ client[m] = "out"
      /\ client' = [client EXCEPT ![m] = "mounting"]
      /\ UNCHANGED <<term, link, using, conn, listed, anon, asked, answered, pending, requests,
                     kick, work, fence, stop, items, resources, stable, breaks, failovers>>
      BY Zenon DEF scoutfs_client_setup, serverVars, connVars, farewellVars, storeVars, bounds, clientVars
<1>r. Requests' = Requests BY Zenon, <1>u, RequestsSame
<1>1. TypeOK' BY Zenon, <1>u DEF SessionInv, TypeOK
<1>2. ItemLast' BY <1>u DEF SessionInv, ItemLast
<1>3. ASSUME NEW o \in Mount PROVE Arriving(o)' /\ Present(o)' /\ Departing(o)'
  <2>1. Arriving(o)' BY <1>u DEF SessionInv, TypeOK, Arriving, Running
  <2>2. Present(o)' BY ZenonT(60), <1>u DEF SessionInv, TypeOK, Present, Arriving
  <2>3. Departing(o)' BY <1>u, <1>r DEF SessionInv, TypeOK, Departing, Leaves, Reclaimed, Arriving
  <2>4. QED BY Zenon, <2>1, <2>2, <2>3
<1>4. QED BY <1>1, <1>2, <1>3 DEF SessionInv

\* A mount that said farewell finds its item gone.
LEMMA FoundNoItemInv ==
    ASSUME SessionInv, NEW m \in Mount, scoutfs_client_connect_worker(m),
           client[m] = "leaving" /\ ~lookup_mounted_client_item(m)
    PROVE  SessionInv'
<1>u. /\ client[m] = "leaving"
      /\ link[m] = "none"
      /\ m \notin stable.items
      /\ client' = [client EXCEPT ![m] = "left"]
      /\ UNCHANGED <<term, link, using, conn, listed, anon, asked, answered, pending, requests,
                     kick, work, fence, stop, items, resources, stable, breaks, failovers>>
      BY Zenon DEF scoutfs_client_connect_worker, lookup_mounted_client_item, serverVars, connVars, farewellVars, storeVars, bounds, clientVars
<1>r. Requests' = Requests BY Zenon, <1>u, RequestsSame
<1>1. TypeOK' BY Zenon, <1>u DEF SessionInv, TypeOK
<1>2. ItemLast' BY <1>u DEF SessionInv, ItemLast
<1>3. ASSUME NEW o \in Mount PROVE Arriving(o)' /\ Present(o)' /\ Departing(o)'
  <2>1. Arriving(o)' BY <1>u DEF SessionInv, TypeOK, Arriving, Running
  <2>2. Present(o)' BY <1>u DEF SessionInv, TypeOK, Present, Arriving
  <2>3. Departing(o)' BY <1>u, <1>r DEF SessionInv, TypeOK, Departing, Leaves, Reclaimed, Present, ItemLast
  <2>4. QED BY Zenon, <2>1, <2>2, <2>3
<1>4. QED BY <1>1, <1>2, <1>3 DEF SessionInv

\* The idle farewell work has its type.
LEMMA IdleType ==
    /\ Idle \in [step : {"idle", "reclaim"}, reqs : Seq(Mount), send : Seq(Mount)]
    /\ << >> \in Seq(Mount)
BY DEF Idle

\* What the actions change of a mount has its type.
MapsTyped ==
    /\ client \in [Mount -> {"out", "mounting", "up", "leaving", "left", "dead"}]
    /\ term \in [Mount -> {"never", "old", "current"}]
    /\ link \in [Mount -> {"none", "greeting", "inserted", "greeted", "up"}]
    /\ conn \in [Mount -> SUBSET {"up", "wait"}]
    /\ pending \in [Mount -> SUBSET Recov]
    /\ fence \in [Mount -> {"none", "asked", "fenced"}]

\* The invariant of one mount.
LEMMA SessionParts ==
    ASSUME SessionInv, NEW o \in Mount
    PROVE  MapsTyped /\ Arriving(o) /\ Present(o) /\ Departing(o)
BY Zenon DEF SessionInv, TypeOK, MapsTyped

\* A mount connects and sends its greeting.
LEMMA ConnectInv ==
    ASSUME SessionInv, NEW m \in Mount, scoutfs_client_connect_worker(m),
           ~(client[m] = "leaving" /\ ~lookup_mounted_client_item(m))
    PROVE  SessionInv'
<1>u. /\ Running(m)
      /\ link' = [link EXCEPT ![m] = "greeting"]
      /\ UNCHANGED <<client, term, using, conn, listed, anon, asked, answered, pending, requests,
                     kick, work, fence, stop, items, resources, stable, breaks, failovers>>
      BY Zenon DEF scoutfs_client_connect_worker, serverVars, connVars, farewellVars, storeVars, bounds, clientVars
<1>r. Requests' = Requests BY Zenon, <1>u, RequestsSame
<1>1. TypeOK' BY Zenon, <1>u DEF SessionInv, TypeOK
<1>2. ItemLast' BY <1>u DEF SessionInv, ItemLast
<1>3. ASSUME NEW o \in Mount PROVE Arriving(o)' /\ Present(o)' /\ Departing(o)'
  <2>1. Arriving(o)'
    <3>p. MapsTyped /\ Arriving(o) BY Zenon, SessionParts
    <3>q. QED BY <1>u, <3>p DEF MapsTyped, Arriving, Running
  <2>2. Present(o)' BY Zenon, <1>u DEF SessionInv, TypeOK, Present, Arriving
  <2>3. Departing(o)' BY Zenon, <1>u, <1>r DEF SessionInv, TypeOK, Departing, Leaves, Reclaimed, Arriving
  <2>4. QED BY Zenon, <2>1, <2>2, <2>3
<1>4. QED BY <1>1, <1>2, <1>3 DEF SessionInv

\* The response to the greeting arrives.
LEMMA GreetedInv ==
    ASSUME SessionInv, NEW m \in Mount, client_greeting(m)
    PROVE  SessionInv'
<1>u. /\ link[m] = "greeted"
      /\ link' = [link EXCEPT ![m] = "up"]
      /\ term' = [term EXCEPT ![m] = "current"]
      /\ client' = [client EXCEPT ![m] = IF @ = "mounting" THEN "up" ELSE @]
      /\ UNCHANGED <<using, conn, listed, anon, asked, answered, pending, requests, kick, work,
                     fence, stop, items, resources, stable, breaks, failovers>>
      BY Zenon DEF client_greeting, serverVars, connVars, farewellVars, storeVars, bounds, clientVars
<1>r. Requests' = Requests BY Zenon, <1>u, RequestsSame
<1>1. TypeOK' BY Zenon, <1>u DEF SessionInv, TypeOK
<1>2. ItemLast' BY Zenon, <1>u DEF SessionInv, ItemLast
<1>3. ASSUME NEW o \in Mount PROVE Arriving(o)' /\ Present(o)' /\ Departing(o)'
  <2>1. Arriving(o)'
    <3>p. MapsTyped /\ Arriving(o) BY Zenon, SessionParts
    <3>q. QED BY <1>u, <3>p DEF MapsTyped, Arriving, Running
  <2>2. Present(o)' BY ZenonT(60), <1>u DEF SessionInv, TypeOK, Present, Arriving
  <2>3. Departing(o)' BY <1>u, <1>r DEF SessionInv, TypeOK, Departing, Leaves, Reclaimed, Arriving, Running
  <2>4. QED BY <2>1, <2>2, <2>3
<1>4. QED BY <1>1, <1>2, <1>3 DEF SessionInv

\* A mount that unmounts says farewell.
LEMMA DestroyInv ==
    ASSUME SessionInv, NEW m \in Mount, scoutfs_client_destroy(m)
    PROVE  SessionInv'
<1>u. /\ client[m] = "up"
      /\ client' = [client EXCEPT ![m] = "leaving"]
      /\ using' = using \ {m}
      /\ UNCHANGED <<term, link, conn, listed, anon, asked, answered, pending, requests, kick,
                     work, fence, stop, items, resources, stable, breaks, failovers>>
      BY Zenon DEF scoutfs_client_destroy, serverVars, connVars, farewellVars, storeVars, bounds, clientVars
<1>r. Requests' = Requests BY Zenon, <1>u, RequestsSame
<1>1. TypeOK' BY Zenon, <1>u DEF SessionInv, TypeOK
<1>2. ItemLast' BY Zenon, <1>u DEF SessionInv, ItemLast
<1>3. ASSUME NEW o \in Mount PROVE Arriving(o)' /\ Present(o)' /\ Departing(o)'
  <2>1. Arriving(o)'
    <3>p. MapsTyped /\ Arriving(o) BY Zenon, SessionParts
    <3>q. QED BY <1>u, <3>p DEF MapsTyped, Arriving, Running
  <2>2. Present(o)' BY ZenonT(60), <1>u DEF SessionInv, TypeOK, Present, Arriving
  <2>3. Departing(o)' BY Zenon, <1>u, <1>r DEF SessionInv, TypeOK, Departing, Leaves, Reclaimed, Arriving
  <2>4. QED BY <2>1, <2>2, <2>3
<1>4. QED BY <1>1, <1>2, <1>3 DEF SessionInv

-----------------------------------------------------------------------------
(* The server's greeting, and recovery. *)

\* The item of a mount that greets for the first time is inserted.
LEMMA InsertInv ==
    ASSUME SessionInv, NEW m \in Mount, insert_mounted_client(m)
    PROVE  SessionInv'
<1>u. /\ link[m] = "greeting"
      /\ term[m] = "never"
      /\ link' = [link EXCEPT ![m] = "inserted"]
      /\ items' = items \cup {m}
      /\ UNCHANGED <<client, term, using, conn, listed, anon, asked, answered, pending, requests,
                     kick, work, fence, stop, resources, stable, breaks, failovers>>
      BY Zenon DEF insert_mounted_client, serverVars, connVars, farewellVars, storeVars, bounds, clientVars
<1>m. client[m] = "mounting" BY <1>u DEF SessionInv, Arriving, Running
<1>r. Requests' = Requests BY Zenon, <1>u, RequestsSame
<1>1. TypeOK' BY <1>u DEF SessionInv, TypeOK
<1>2. ItemLast' BY Zenon, <1>u DEF SessionInv, ItemLast
<1>3. ASSUME NEW o \in Mount PROVE Arriving(o)' /\ Present(o)' /\ Departing(o)'
  <2>1. Arriving(o)'
    <3>p. MapsTyped /\ Arriving(o) BY Zenon, SessionParts
    <3>q. QED BY <1>u, <3>p DEF MapsTyped, Arriving, Running
  <2>2. Present(o)' BY Zenon, <1>u, <1>m DEF SessionInv, TypeOK, Present, Arriving
  <2>3. Departing(o)' BY Zenon, <1>u, <1>m, <1>r DEF SessionInv, TypeOK, Departing, Leaves, Reclaimed, Arriving
  <2>4. QED BY <2>1, <2>2, <2>3
<1>4. QED BY <1>1, <1>2, <1>3 DEF SessionInv

\* The server commits.
LEMMA CommitInv ==
    ASSUME SessionInv, server_apply_commit
    PROVE  SessionInv'
<1>u. /\ stable' = [items |-> items, resources |-> resources]
      /\ UNCHANGED <<client, term, link, using, conn, listed, anon, asked, answered, pending,
                     requests, kick, work, fence, stop, items, resources, breaks, failovers>>
      BY Zenon DEF server_apply_commit, serverVars, connVars, farewellVars, storeVars, bounds, clientVars
<1>r. Requests' = Requests BY Zenon, <1>u, RequestsSame
<1>1. TypeOK' BY Zenon, <1>u DEF SessionInv, TypeOK
<1>2. ItemLast' BY <1>u DEF SessionInv, ItemLast
<1>3. ASSUME NEW o \in Mount PROVE Arriving(o)' /\ Present(o)' /\ Departing(o)'
  <2>1. Arriving(o)' BY Zenon, <1>u DEF SessionInv, TypeOK, Arriving, Running
  <2>2. Present(o)' BY Zenon, <1>u DEF SessionInv, TypeOK, Present, Arriving
  <2>3. Departing(o)' BY Zenon, <1>u, <1>r DEF SessionInv, TypeOK, Departing, Leaves, Reclaimed
  <2>4. QED BY Zenon, <2>1, <2>2, <2>3
<1>4. QED BY <1>1, <1>2, <1>3 DEF SessionInv

\* A mount whose state is gone is dropped.
LEMMA GreetingDroppedInv ==
    ASSUME SessionInv, NEW m \in Mount, server_greeting(m),
           term[m] = "current" /\ conn[m] = {} /\ client[m] # "leaving"
    PROVE  SessionInv'
<1>u. /\ link' = [link EXCEPT ![m] = "none"]
      /\ anon' = TRUE
      /\ pending' = [pending EXCEPT ![m] = @ \ {"greeting"}]
      /\ kick' = (kick \/ term[m] = "never")
      /\ UNCHANGED <<client, term, using, conn, listed, asked, answered, requests, work, fence,
                     stop, items, resources, stable, breaks, failovers>>
      BY Zenon DEF server_greeting, scoutfs_net_server_greeting, scoutfs_recov_finish, serverVars, connVars, farewellVars, storeVars, bounds, clientVars
<1>r. Requests' = Requests BY <1>u, RequestsSame
<1>b. anon' \in BOOLEAN /\ kick' \in BOOLEAN BY <1>u, Zenon
<1>1. TypeOK' BY Zenon, <1>u, <1>b DEF SessionInv, TypeOK
<1>2. ItemLast' BY Zenon, <1>u DEF SessionInv, ItemLast
<1>3. ASSUME NEW o \in Mount PROVE Arriving(o)' /\ Present(o)' /\ Departing(o)'
  <2>1. Arriving(o)'
    <3>p. MapsTyped /\ Arriving(o) BY Zenon, SessionParts
    <3>q. QED BY <1>u, <3>p DEF MapsTyped, Arriving, Running
  <2>2. Present(o)' BY Zenon, <1>u DEF SessionInv, TypeOK, Present, Arriving
  <2>3. Departing(o)' BY Zenon, <1>u, <1>r DEF SessionInv, TypeOK, Departing, Leaves, Reclaimed, Arriving
  <2>4. QED BY Zenon, <2>1, <2>2, <2>3
<1>4. QED BY <1>1, <1>2, <1>3 DEF SessionInv

\* The server responds to a greeting once the item is committed.
LEMMA GreetingInv ==
    ASSUME SessionInv, NEW m \in Mount, server_greeting(m),
           ~(term[m] = "current" /\ conn[m] = {} /\ client[m] # "leaving")
    PROVE  SessionInv'
<1>u. /\ \/ link[m] = "greeting" /\ term[m] # "never"
         \/ link[m] = "inserted" /\ m \in stable.items
      /\ link' = [link EXCEPT ![m] = "greeted"]
      /\ pending' = [pending EXCEPT ![m] = @ \ {"greeting"}]
      /\ kick' = (kick \/ term[m] = "never")
      /\ conn' = [conn EXCEPT ![m] = IF term[m] = "never" THEN @ \cup {"up"} ELSE {"up"}]
      /\ listed' = IF term[m] = "current" THEN listed ELSE listed \cup {m}
      /\ UNCHANGED <<client, term, using, anon, asked, answered, requests, work, fence, stop,
                     items, resources, stable, breaks, failovers>>
      BY Zenon DEF server_greeting, scoutfs_net_server_greeting, scoutfs_recov_finish, serverVars, connVars, farewellVars, storeVars, bounds, clientVars
<1>r. Requests' = Requests BY <1>u, RequestsSame
<1>b. kick' \in BOOLEAN BY <1>u, Zenon
<1>1. TypeOK' BY Zenon, <1>u, <1>b DEF SessionInv, TypeOK
<1>2. ItemLast' BY <1>u DEF SessionInv, ItemLast
<1>3. ASSUME NEW o \in Mount PROVE Arriving(o)' /\ Present(o)' /\ Departing(o)'
  <2>1. Arriving(o)'
    <3>p. MapsTyped /\ Arriving(o) BY Zenon, SessionParts
    <3>q. QED BY <1>u, <3>p DEF MapsTyped, Arriving, Running
  <2>2. Present(o)' BY Zenon, <1>u DEF SessionInv, TypeOK, Present, Arriving
  <2>3. Departing(o)' BY Zenon, <1>u, <1>r DEF SessionInv, TypeOK, Departing, Leaves, Reclaimed, Arriving
  <2>4. QED BY Zenon, <2>1, <2>2, <2>3
<1>4. QED BY <1>1, <1>2, <1>3 DEF SessionInv

\* A mount that is up is given a log tree, or it is committed and the mount uses it.
LEMMA LogTreeInv ==
    ASSUME SessionInv, NEW m \in Mount, server_get_log_trees(m)
    PROVE  SessionInv'
<1>u. /\ client[m] = "up"
      /\ IF m \in stable.resources /\ m \in resources
            THEN using' = using \cup {m} /\ resources' = resources
            ELSE m \notin resources /\ resources' = resources \cup {m} /\ using' = using
      /\ UNCHANGED <<client, term, link, conn, listed, anon, asked, answered, pending, requests,
                     kick, work, fence, stop, items, stable, breaks, failovers>>
      BY Zenon DEF server_get_log_trees, serverVars, connVars, farewellVars, storeVars, bounds, clientVars
<1>r. Requests' = Requests BY Zenon, <1>u, RequestsSame
<1>v. UNCHANGED <<client, term, link, conn, listed, anon, asked, answered, pending, requests,
                  kick, work, fence, stop, items, stable, breaks, failovers>>
      BY Zenon, <1>u
<1>1. TypeOK'
  <2>1. using \subseteq Mount /\ resources \subseteq Mount BY Zenon DEF SessionInv, TypeOK
  <2>2. using' \subseteq Mount /\ resources' \subseteq Mount BY <1>u, <2>1, Zenon
  <2>3. QED BY Zenon, <1>v, <2>2 DEF SessionInv, TypeOK
<1>2. ItemLast' BY Zenon, <1>u DEF SessionInv, ItemLast, Present
<1>3. ASSUME NEW o \in Mount PROVE Arriving(o)' /\ Present(o)' /\ Departing(o)'
  <2>1. Arriving(o)' BY Zenon, <1>u DEF SessionInv, TypeOK, Arriving, Running
  <2>2. Present(o)'
    <3>p. MapsTyped /\ Present(o) /\ Arriving(o) BY Zenon, SessionParts
    <3>q. QED BY <1>u, <3>p DEF MapsTyped, Present, Arriving
  <2>3. Departing(o)'
    <3>p. MapsTyped /\ Departing(o) BY Zenon, SessionParts
    <3>q. QED BY <1>u, <1>r, <3>p DEF MapsTyped, Departing, Leaves, Reclaimed
  <2>4. QED BY <2>1, <2>2, <2>3
<1>4. QED BY <1>1, <1>2, <1>3 DEF SessionInv

\* A mount's locks are recovered.
LEMMA LockRecoveredInv ==
    ASSUME SessionInv, NEW m \in Mount, LockRecovered(m)
    PROVE  SessionInv'
<1>u. /\ pending' = [pending EXCEPT ![m] = @ \ {"locks"}]
      /\ kick' = TRUE
      /\ UNCHANGED <<client, term, link, using, conn, listed, anon, asked, answered, requests,
                     work, fence, stop, items, resources, stable, breaks, failovers>>
      BY Zenon DEF LockRecovered, scoutfs_recov_finish, serverVars, connVars, farewellVars, storeVars, bounds, clientVars
<1>r. Requests' = Requests BY Zenon, <1>u, RequestsSame
<1>1. TypeOK' BY Zenon, <1>u DEF SessionInv, TypeOK
<1>2. ItemLast' BY Zenon, <1>u DEF SessionInv, ItemLast
<1>3. ASSUME NEW o \in Mount PROVE Arriving(o)' /\ Present(o)' /\ Departing(o)'
  <2>1. Arriving(o)'
    <3>p. MapsTyped /\ Arriving(o) BY Zenon, SessionParts
    <3>q. QED BY <1>u, <3>p DEF MapsTyped, Arriving, Running
  <2>2. Present(o)' BY Zenon, <1>u DEF SessionInv, TypeOK, Present, Arriving
  <2>3. Departing(o)' BY Zenon, <1>u, <1>r DEF SessionInv, TypeOK, Departing, Leaves, Reclaimed, Arriving
  <2>4. QED BY <2>1, <2>2, <2>3
<1>4. QED BY <1>1, <1>2, <1>3 DEF SessionInv

\* A mount that isn't recovered in time is to be fenced.
LEMMA FencePendingInv ==
    ASSUME SessionInv, NEW m \in Mount, fence_pending_recov_worker(m)
    PROVE  SessionInv'
<1>u. /\ pending[m] # {}
      /\ fence' = [fence EXCEPT ![m] = "asked"]
      /\ UNCHANGED <<client, term, link, using, conn, listed, anon, asked, answered, pending,
                     requests, kick, work, stop, items, resources, stable, breaks, failovers>>
      BY Zenon DEF fence_pending_recov_worker, scoutfs_recov_is_pending, serverVars, connVars, farewellVars, storeVars, bounds, clientVars
<1>r. Requests' = Requests BY Zenon, <1>u, RequestsSame
<1>1. TypeOK' BY <1>u DEF SessionInv, TypeOK
<1>2. ItemLast' BY Zenon, <1>u DEF SessionInv, ItemLast
<1>3. ASSUME NEW o \in Mount PROVE Arriving(o)' /\ Present(o)' /\ Departing(o)'
  <2>1. Arriving(o)'
    <3>p. MapsTyped /\ Arriving(o) BY Zenon, SessionParts
    <3>q. QED BY <1>u, <3>p DEF MapsTyped, Arriving, Running
  <2>2. Present(o)' BY Zenon, <1>u DEF SessionInv, TypeOK, Present, Arriving
  <2>3. Departing(o)' BY ZenonT(60), <1>u, <1>r DEF SessionInv, TypeOK, Departing, Leaves, Reclaimed, Arriving
  <2>4. QED BY <2>1, <2>2, <2>3
<1>4. QED BY <1>1, <1>2, <1>3 DEF SessionInv

\* A list and the element that is put at its end.
LEMMA RangeAppend ==
    ASSUME NEW s \in Seq(Mount), NEW m \in Mount
    PROVE  Append(s, m) \in Seq(Mount) /\ Range(Append(s, m)) = Range(s) \cup {m}
<1>1. Len(s) \in Nat /\ DOMAIN s = 1..Len(s) OBVIOUS
<1>2. /\ Append(s, m) \in Seq(Mount) /\ Len(Append(s, m)) = Len(s) + 1
      /\ \A i \in 1..Len(s) : Append(s, m)[i] = s[i]
      /\ Append(s, m)[Len(s) + 1] = m
      BY <1>1
<1>3. DOMAIN Append(s, m) = 1..(Len(s) + 1) BY <1>2
<1> HIDE <1>1
<1>4. 1..(Len(s) + 1) = (1..Len(s)) \cup {Len(s) + 1} BY <1>1
<1>5. Range(Append(s, m)) = {Append(s, m)[i] : i \in 1..Len(s)} \cup {m} BY ZenonT(60), <1>2, <1>3, <1>4 DEF Range
<1>6. QED BY <1>1, <1>2, <1>5 DEF Range

-----------------------------------------------------------------------------
(* Farewells. *)

\* The response to its farewell lets a mount go.
LEMMA FarewellResponseInv ==
    ASSUME SessionInv, NEW m \in Mount, client_farewell_response(m)
    PROVE  SessionInv'
<1>u. /\ client[m] = "leaving"
      /\ m \in answered
      /\ client' = [client EXCEPT ![m] = "left"]
      /\ link' = [link EXCEPT ![m] = "none"]
      /\ conn' = [conn EXCEPT ![m] = @ \ {"up"}]
      /\ listed' = listed \ {m}
      /\ answered' = answered \ {m}
      /\ stop' = (stop \/ m \notin listed)
      /\ requests' = Without(requests, m)
      /\ UNCHANGED <<term, using, anon, asked, pending, kick, work, fence, items, resources,
                     stable, breaks, failovers>>
      BY Zenon DEF client_farewell_response, serverVars, connVars, farewellVars, storeVars, bounds, clientVars
<1>q. requests \in Seq(Mount) BY DEF SessionInv, TypeOK
<1>w. requests' \in Seq(Mount) /\ Range(requests') \subseteq Range(requests) BY Zenon, <1>u, <1>q, WithoutType
<1>r. Requests' \subseteq Requests BY <1>u, <1>w DEF Requests
<1>b. stop' \in BOOLEAN BY <1>u, Zenon
<1>1. TypeOK' BY Zenon, <1>u, <1>b, <1>w DEF SessionInv, TypeOK
<1>2. ItemLast' BY Zenon, <1>u DEF SessionInv, ItemLast
<1>3. ASSUME NEW o \in Mount PROVE Arriving(o)' /\ Present(o)' /\ Departing(o)'
  <2>1. Arriving(o)'
    <3>p. MapsTyped /\ Arriving(o) BY Zenon, SessionParts
    <3>q. QED BY <1>u, <3>p DEF MapsTyped, Arriving, Running
  <2>2. Present(o)' BY ZenonT(60), <1>u DEF SessionInv, TypeOK, Present, Arriving
  <2>3. Departing(o)'
    <3>p. MapsTyped /\ Departing(o) /\ Arriving(o) BY Zenon, SessionParts
    <3>q. QED BY <1>u, <1>r, <3>p DEF MapsTyped, Departing, Leaves, Reclaimed, Arriving
  <2>4. QED BY <2>1, <2>2, <2>3
<1>4. QED BY <1>1, <1>2, <1>3 DEF SessionInv

\* The farewell request of a mount arrives.
LEMMA FarewellAskInv ==
    ASSUME SessionInv, NEW m \in Mount, server_farewell(m)
    PROVE  SessionInv'
<1>u. /\ client[m] = "leaving"
      /\ asked' = asked \cup {m}
      /\ requests' = Append(requests, m)
      /\ kick' = TRUE
      /\ UNCHANGED <<client, term, link, using, conn, listed, anon, answered, pending, work,
                     fence, stop, items, resources, stable, breaks, failovers>>
      BY Zenon DEF server_farewell, serverVars, connVars, farewellVars, storeVars, bounds, clientVars
<1>q. requests \in Seq(Mount) BY DEF SessionInv, TypeOK
<1>w. requests' \in Seq(Mount) /\ Range(requests') = Range(requests) \cup {m} BY Zenon, <1>u, <1>q, RangeAppend
<1>r. Requests' \subseteq Requests \cup {m} BY Zenon, <1>u, <1>w DEF Requests
<1>1. TypeOK' BY Zenon, <1>u, <1>w DEF SessionInv, TypeOK
<1>2. ItemLast' BY Zenon, <1>u DEF SessionInv, ItemLast
<1>3. ASSUME NEW o \in Mount PROVE Arriving(o)' /\ Present(o)' /\ Departing(o)'
  <2>1. Arriving(o)' BY Zenon, <1>u DEF SessionInv, TypeOK, Arriving, Running
  <2>2. Present(o)' BY Zenon, <1>u DEF SessionInv, TypeOK, Present, Arriving
  <2>3. Departing(o)' BY Zenon, <1>u, <1>r DEF SessionInv, TypeOK, Departing, Leaves, Reclaimed, Arriving
  <2>4. QED BY <2>1, <2>2, <2>3
<1>4. QED BY <1>1, <1>2, <1>3 DEF SessionInv

\* farewell_worker() never answers more quorum members than asked.
LEMMA QuorumMayGoType ==
    ASSUME TypeOK, NEW quo \in Seq(Mount), NEW others
    PROVE  QuorumMayGo(quo, others) \in 0..Len(quo)
<1> DEFINE mnts == Cardinality(items \cap QuorumMount)
<1>1. items \cap QuorumMount \in SUBSET Mount BY DEF TypeOK
<1>2. IsFiniteSet(items \cap QuorumMount) BY <1>1, FS_Subset, MountAssumption, Zenon
<1>3. mnts \in Nat BY <1>2, FS_CardinalityType, Zenon
<1>4. Len(quo) \in Nat OBVIOUS
<1> HIDE DEF mnts
<1>5. QuorumMayGo(quo, others) =
        IF (Len(quo) = mnts /\ others = {}) \/ mnts >= VotesNeeded + Len(quo) THEN Len(quo)
        ELSE IF mnts > VotesNeeded THEN mnts - VotesNeeded ELSE 0
      BY DEF QuorumMayGo, mnts
<1>6. QED BY <1>3, <1>4, <1>5, MountAssumption

\* farewell_worker() takes the list.
LEMMA FarewellStartInv ==
    ASSUME SessionInv, FarewellStart
    PROVE  SessionInv'
<1>u. /\ kick' = FALSE
      /\ requests' = << >>
      /\ UNCHANGED <<client, term, link, using, conn, listed, anon, asked, answered, pending,
                     fence, stop, items, resources, stable, breaks, failovers>>
      BY Zenon DEF FarewellStart, serverVars, connVars, farewellVars, storeVars, bounds, clientVars
<1>q. requests \in Seq(Mount) BY DEF SessionInv, TypeOK
<1> DEFINE held == items \cap QuorumMount
           recovering == {m \in Mount : scoutfs_recov_is_pending(m, {"locks"})}
           quo == Filter(requests, held)
           go == QuorumMayGo(quo, (items \ QuorumMount) \ Range(requests))
           send == Reversed(Filter(requests, Mount \ held)) \o SubSeq(quo, 1, go)
<1>a. work' = [step |-> "reclaim",
               reqs |-> SubSeq(quo, go + 1, Len(quo)) \o Filter(send, recovering),
               send |-> Filter(send, Mount \ recovering)]
      BY Zenon DEF FarewellStart
<1>c. quo \in Seq(Mount) /\ Range(quo) \subseteq Range(requests) BY <1>q, FilterType
<1>d. Reversed(Filter(requests, Mount \ held)) \in Seq(Mount)
      /\ Range(Reversed(Filter(requests, Mount \ held))) \subseteq Range(requests)
      BY <1>q, FilterType, RangeReverse
<1>e. go \in 0..Len(quo) /\ Len(quo) \in Nat BY <1>c, QuorumMayGoType DEF SessionInv
<1> HIDE DEF quo, go
<1>g. /\ SubSeq(quo, 1, go) \in Seq(Mount) /\ Range(SubSeq(quo, 1, go)) \subseteq Range(requests)
      /\ SubSeq(quo, go + 1, Len(quo)) \in Seq(Mount)
      /\ Range(SubSeq(quo, go + 1, Len(quo))) \subseteq Range(requests)
  <2>1. go \in Nat /\ go + 1 \in Nat \ {0} /\ 1 \in Nat \ {0} /\ go <= Len(quo) /\ Len(quo) <= Len(quo) BY <1>e
  <2>2. SubSeq(quo, 1, go) \in Seq(Mount) /\ Range(SubSeq(quo, 1, go)) \subseteq Range(quo)
        BY <2>1, <1>c, RangeSubSeq, Zenon
  <2>3. SubSeq(quo, go + 1, Len(quo)) \in Seq(Mount) /\ Range(SubSeq(quo, go + 1, Len(quo))) \subseteq Range(quo)
        BY <2>1, <1>c, <1>e, RangeSubSeq, Zenon
  <2>4. QED BY Zenon, <2>2, <2>3, <1>c
<1>h. send \in Seq(Mount) /\ Range(send) \subseteq Range(requests) BY Zenon, <1>d, <1>g, RangeConcat
<1> HIDE DEF send, recovering
<1>i. /\ Filter(send, recovering) \in Seq(Mount) /\ Range(Filter(send, recovering)) \subseteq Range(requests)
      /\ Filter(send, Mount \ recovering) \in Seq(Mount)
      /\ Range(Filter(send, Mount \ recovering)) \subseteq Range(requests)
      BY <1>h, FilterType
<1>j. /\ work'.step = "reclaim"
      /\ work'.reqs = SubSeq(quo, go + 1, Len(quo)) \o Filter(send, recovering)
      /\ work'.send = Filter(send, Mount \ recovering)
      BY Zenon, <1>a
<1>k. work' \in [step : {"idle", "reclaim"}, reqs : Seq(Mount), send : Seq(Mount)]
      BY Zenon, <1>a, <1>g, <1>i, RangeConcat
<1>l. Range(work'.reqs) \subseteq Range(requests) /\ Range(work'.send) \subseteq Range(requests)
      BY Zenon, <1>g, <1>i, <1>j, RangeConcat
<1>m. requests' \in Seq(Mount) /\ Range(requests') = {} BY <1>u DEF Range
<1>r. Requests' \subseteq Requests BY <1>l, <1>m DEF Requests
<1>1. TypeOK' BY Zenon, <1>u, <1>k, <1>m DEF SessionInv, TypeOK
<1>2. ItemLast' BY Zenon, <1>u DEF SessionInv, ItemLast
<1>3. ASSUME NEW o \in Mount PROVE Arriving(o)' /\ Present(o)' /\ Departing(o)'
  <2>1. Arriving(o)' BY Zenon, <1>u DEF SessionInv, TypeOK, Arriving, Running
  <2>2. Present(o)' BY <1>u DEF SessionInv, TypeOK, Present, Arriving
  <2>3. Departing(o)' BY <1>u, <1>r, Zenon DEF SessionInv, Departing, Leaves, Reclaimed
  <2>4. QED BY <2>1, <2>2, <2>3
<1>4. QED BY <1>1, <1>2, <1>3 DEF SessionInv

\* reclaim_rid() of a mount that has left, died or asked to go.
LEMMA ReclaimInv ==
    ASSUME SessionInv, NEW m \in Mount, Leaves(m), reclaim_rid(m),
           UNCHANGED <<clientVars, serverVars, stable, bounds>>
    PROVE  SessionInv'
<1>u. UNCHANGED <<client, term, link, using, conn, listed, anon, asked, answered, pending, requests,
                  kick, work, fence, stop, stable, breaks, failovers>>
      BY Zenon DEF clientVars, serverVars, connVars, farewellVars, bounds
<1>r. Requests' = Requests BY <1>u, RequestsSame
<1>d. \/ resources' = resources \ {m} /\ items' = items
      \/ m \notin resources /\ items' = items \ {m} /\ resources' = resources
      BY Zenon DEF reclaim_rid, reclaim_open_log_tree, delete_mounted_client
<1>l. client[m] \in {"leaving", "left", "dead"} BY Zenon DEF Leaves
<1>1. TypeOK' BY <1>u, <1>d DEF SessionInv, TypeOK
<1>2. ItemLast' BY Zenon, <1>u, <1>d DEF SessionInv, ItemLast
<1>3. ASSUME NEW o \in Mount PROVE Arriving(o)' /\ Present(o)' /\ Departing(o)'
  <2>1. Arriving(o)' BY Zenon, <1>u, <1>d, <1>l DEF SessionInv, TypeOK, Arriving, Running
  <2>2. Present(o)' BY Zenon, <1>u, <1>d, <1>l DEF SessionInv, TypeOK, Present
  <2>3. Departing(o)' BY Zenon, <1>u, <1>r, <1>d DEF SessionInv, TypeOK, Departing, Leaves, Reclaimed
  <2>4. QED BY Zenon, <2>1, <2>2, <2>3
<1>4. QED BY <1>1, <1>2, <1>3 DEF SessionInv

\* The farewell work reclaims the mounts that it will answer.
LEMMA FarewellReclaimInv ==
    ASSUME SessionInv, NEW m \in Mount, FarewellReclaim(m)
    PROVE  SessionInv'
<1>1. Leaves(m) BY Zenon DEF FarewellReclaim, SessionInv, Departing, Requests
<1>2. QED BY <1>1, ReclaimInv, Zenon DEF FarewellReclaim

\* The responses are sent to the mounts that are reclaimed.
LEMMA FarewellSendInv ==
    ASSUME SessionInv, FarewellSend
    PROVE  SessionInv'
<1>u. /\ work' = Idle
      /\ kick' = (requests # << >> \/ kick)
      /\ \A m \in Range(work.send) : Reclaimed(m)
      /\ UNCHANGED <<client, term, link, using, conn, listed, anon, asked, pending, fence, stop,
                     items, resources, stable, breaks, failovers>>
      BY Zenon DEF FarewellSend, serverVars, connVars, farewellVars, storeVars, bounds, clientVars
<1>q. /\ requests \in Seq(Mount) /\ work.reqs \in Seq(Mount) /\ work.send \in Seq(Mount)
      /\ answered \subseteq Mount
      BY DEF SessionInv, TypeOK
<1>n. Len(work.send) \in Nat BY <1>q
<1>a. PICK sent \in 0..Len(work.send) :
         /\ answered' = answered \cup Range(SubSeq(work.send, 1, sent))
         /\ requests' = SubSeq(work.send, sent + 1, Len(work.send)) \o work.reqs \o requests
      BY Zenon DEF FarewellSend
<1>s. sent \in 0..Len(work.send) OBVIOUS
<1>g. /\ SubSeq(work.send, 1, sent) \in Seq(Mount)
      /\ Range(SubSeq(work.send, 1, sent)) \subseteq Range(work.send)
      /\ SubSeq(work.send, sent + 1, Len(work.send)) \in Seq(Mount)
      /\ Range(SubSeq(work.send, sent + 1, Len(work.send))) \subseteq Range(work.send)
  <2>1. /\ sent \in Nat /\ sent + 1 \in Nat \ {0} /\ 1 \in Nat \ {0}
        /\ sent <= Len(work.send) /\ Len(work.send) <= Len(work.send)
        BY <1>s, <1>n
  <2>2. QED BY <2>1, <1>q, <1>n, RangeSubSeq, Zenon
<1>h. /\ requests' \in Seq(Mount)
      /\ Range(requests') \subseteq Range(work.send) \cup Range(work.reqs) \cup Range(requests)
  <2> DEFINE rest == SubSeq(work.send, sent + 1, Len(work.send))
  <2> HIDE DEF rest
  <2>1. rest \in Seq(Mount) /\ Range(rest) \subseteq Range(work.send) BY Zenon, <1>g DEF rest
  <2>2. rest \o work.reqs \in Seq(Mount) /\ Range(rest \o work.reqs) = Range(rest) \cup Range(work.reqs)
        BY <2>1, <1>q, RangeConcat
  <2>3. /\ (rest \o work.reqs) \o requests \in Seq(Mount)
        /\ Range((rest \o work.reqs) \o requests) = Range(rest \o work.reqs) \cup Range(requests)
        BY Zenon, <2>2, <1>q, RangeConcat
  <2>4. requests' = (rest \o work.reqs) \o requests BY Zenon, <1>a DEF rest
  <2>5. QED BY Zenon, <2>1, <2>2, <2>3, <2>4
<1>i. answered' \subseteq answered \cup Range(work.send) /\ answered' \subseteq Mount
  <2>1. Range(work.send) \subseteq Mount BY <1>q DEF Range
  <2>2. QED BY Zenon, <2>1, <1>a, <1>g, <1>q
<1>j. Range(work'.reqs) = {} /\ Range(work'.send) = {} BY <1>u DEF Idle, Range
<1>k. work' \in [step : {"idle", "reclaim"}, reqs : Seq(Mount), send : Seq(Mount)] BY <1>u DEF Idle
<1>r. Requests' \subseteq Requests BY <1>h, <1>j DEF Requests
<1>b. kick' \in BOOLEAN BY <1>u, Zenon
<1>1. TypeOK' BY Zenon, <1>u, <1>b, <1>h, <1>i, <1>k DEF SessionInv, TypeOK
<1>2. ItemLast' BY Zenon, <1>u DEF SessionInv, ItemLast
<1>3. ASSUME NEW o \in Mount PROVE Arriving(o)' /\ Present(o)' /\ Departing(o)'
  <2>1. Arriving(o)' BY Zenon, <1>u DEF SessionInv, TypeOK, Arriving, Running
  <2>2. Present(o)' BY Zenon, <1>u DEF SessionInv, TypeOK, Present, Arriving
  <2>3. Departing(o)'
    <3>1. o \in Range(work.send) => Leaves(o) /\ Reclaimed(o)
          BY Zenon, <1>u DEF SessionInv, Departing, Requests
    <3>2. QED BY <3>1, <1>u, <1>r, <1>i, Zenon DEF SessionInv, Departing, Leaves, Reclaimed
  <2>4. QED BY Zenon, <2>1, <2>2, <2>3
<1>4. QED BY <1>1, <1>2, <1>3 DEF SessionInv

-----------------------------------------------------------------------------
(* Connections that break, fencing and reclaim. *)

\* The socket of a mount is gone and nothing else of the mount and the server changes,
\* except that the mount may be gone as well.
LEMMA CloseSocketInv ==
    ASSUME SessionInv, NEW m \in Mount, CloseSocket(m),
           \/ client' = client /\ using' = using
           \/ Running(m) /\ client' = [client EXCEPT ![m] = "dead"] /\ using' = using \ {m},
           fence' \in [Mount -> {"none", "asked", "fenced"}],
           \A o \in Mount : fence'[o] = fence[o] \/ (o = m /\ fence[m] = "asked" /\ client'[m] = "dead"),
           breaks' \in 0..MaxBreaks, failovers' \in 0..MaxFailovers,
           UNCHANGED <<term, kick, work, pending, items, resources, stable>>
    PROVE  SessionInv'
<1>q. requests \in Seq(Mount) /\ stop \in BOOLEAN /\ anon \in BOOLEAN BY Zenon DEF SessionInv, TypeOK
<1>c. /\ link' = [link EXCEPT ![m] = "none"]
      /\ \/ conn' = conn
         \/ conn' = [conn EXCEPT ![m] = {"wait"}] /\ conn[m] # {}
         \/ conn' = [conn EXCEPT ![m] = @ \ {"up"}]
      /\ answered' \subseteq answered /\ asked' \subseteq asked /\ listed' \subseteq listed
      BY DEF CloseSocket, DestroyConn
<1>b. stop' \in BOOLEAN /\ anon' \in BOOLEAN BY <1>q, Zenon DEF CloseSocket, DestroyConn
<1>w. requests' \in Seq(Mount) /\ Range(requests') \subseteq Range(requests)
  <2>1. requests' = requests \/ requests' = Without(requests, m) BY Zenon DEF CloseSocket, DestroyConn
  <2>2. QED BY <2>1, <1>q, WithoutType
<1>r. Requests' \subseteq Requests BY Zenon, <1>w DEF Requests
<1>1. TypeOK'
  <2>1. client' \in [Mount -> {"out", "mounting", "up", "leaving", "left", "dead"}] /\ using' \subseteq Mount
        BY Zenon DEF SessionInv, TypeOK
  <2>2. link' \in [Mount -> {"none", "greeting", "inserted", "greeted", "up"}] BY Zenon, <1>c DEF SessionInv, TypeOK
  <2>3. conn' \in [Mount -> SUBSET {"up", "wait"}]
    <3>1. conn \in [Mount -> SUBSET {"up", "wait"}] BY DEF SessionInv, TypeOK
    <3>2. conn[m] \ {"up"} \in SUBSET {"up", "wait"} /\ {"wait"} \in SUBSET {"up", "wait"} BY ZenonT(60), <3>1
    <3>3. QED BY Zenon, <1>c, <3>1, <3>2
  <2>4. QED BY Zenon, <2>1, <2>2, <2>3, <1>c, <1>b, <1>w DEF SessionInv, TypeOK
<1>2. ItemLast' BY DEF SessionInv, ItemLast
<1>3. ASSUME NEW o \in Mount PROVE Arriving(o)' /\ Present(o)' /\ Departing(o)'
  <2>1. Arriving(o)'
    <3>1. client'[o] = "out" => client[o] = "out" /\ conn'[o] = {} /\ fence'[o] = "none"
      <4>1. SUFFICES ASSUME client'[o] = "out"
                     PROVE  client[o] = "out" /\ conn'[o] = {} /\ fence'[o] = "none"
            BY Zenon
      <4>2. client[o] = "out" BY <4>1 DEF SessionInv, TypeOK
      <4>3. conn[o] = {} /\ fence[o] = "none" BY Zenon, <4>2 DEF SessionInv, Arriving
      <4>4. fence'[o] = "none" BY Zenon, <4>1, <4>3
      <4>5. conn \in [Mount -> SUBSET {"up", "wait"}] BY Zenon DEF SessionInv, TypeOK
      <4>6. conn'[o] = {} BY ZenonT(60), <1>c, <4>3, <4>5
      <4>7. QED BY Zenon, <4>2, <4>4, <4>6
    <3>2. CASE o = m
      <4>p. MapsTyped /\ Arriving(o) BY Zenon, SessionParts
      <4>q. QED BY <3>1, <3>2, <1>c, <4>p DEF MapsTyped, Arriving, Running
    <3>3. CASE o # m
      <4>p. MapsTyped /\ Arriving(o) BY Zenon, SessionParts
      <4>q. QED BY <3>1, <3>3, <1>c, <4>p DEF MapsTyped, Arriving, Running
    <3>4. QED BY Zenon, <3>2, <3>3
  <2>2. Present(o)'
    <3>p. MapsTyped /\ Present(o) BY Zenon, SessionParts
    <3>q. QED BY <3>p DEF MapsTyped, Present
  <2>3. Departing(o)'
    <3>1. Leaves(o) => Leaves(o)' BY Zenon DEF SessionInv, TypeOK, Leaves
    <3>2. client[o] = "left" => client'[o] = "left" BY Zenon DEF SessionInv, TypeOK, Running
    <3>3. Reclaimed(o)' = Reclaimed(o) BY Zenon DEF Reclaimed
    <3>4. client'[o] = "left" => client[o] = "left" BY Zenon DEF SessionInv, TypeOK
    <3>5. fence'[o] = "fenced" => client'[o] \in {"left", "dead"}
          BY DEF SessionInv, TypeOK, Departing, Running
    <3>6. QED BY Zenon, <3>1, <3>2, <3>3, <3>4, <3>5, <1>c, <1>r DEF SessionInv, Departing
  <2>4. QED BY Zenon, <2>1, <2>2, <2>3
<1>4. QED BY Zenon, <1>1, <1>2, <1>3 DEF SessionInv

\* A connection breaks.
LEMMA BreakInv ==
    ASSUME SessionInv, NEW m \in Mount, Break(m)
    PROVE  SessionInv'
<1>1. /\ CloseSocket(m) /\ breaks < MaxBreaks /\ breaks' = breaks + 1
      /\ UNCHANGED <<client, term, using, kick, work, pending, fence, items, resources, stable, failovers>>
      BY Zenon DEF Break, storeVars
<1>b. breaks \in 0..MaxBreaks BY Zenon DEF SessionInv, TypeOK
<1>2. breaks' \in 0..MaxBreaks BY <1>1, <1>b, BoundsAssumption
<1>3. fence \in [Mount -> {"none", "asked", "fenced"}] /\ failovers \in 0..MaxFailovers
      BY DEF SessionInv, TypeOK
<1>4. QED BY <1>1, <1>2, <1>3, CloseSocketInv, Zenon

\* A mount crashes.
LEMMA CrashInv ==
    ASSUME SessionInv, NEW m \in Mount, Crash(m)
    PROVE  SessionInv'
<1>1. /\ CloseSocket(m) /\ Running(m)
      /\ client' = [client EXCEPT ![m] = "dead"] /\ using' = using \ {m}
      /\ UNCHANGED <<term, kick, work, pending, fence, items, resources, stable, breaks, failovers>>
      BY Zenon DEF Crash, storeVars, bounds
<1>2. /\ fence \in [Mount -> {"none", "asked", "fenced"}]
      /\ breaks \in 0..MaxBreaks /\ failovers \in 0..MaxFailovers
      BY DEF SessionInv, TypeOK
<1>3. QED BY <1>1, <1>2, CloseSocketInv, Zenon

\* The agent finds that the mount doesn't run.
LEMMA FencedGoneInv ==
    ASSUME SessionInv, NEW m \in Mount, Fenced(m), ~Running(m)
    PROVE  SessionInv'
<1>u. /\ fence[m] = "asked"
      /\ fence' = [fence EXCEPT ![m] = "fenced"]
      /\ UNCHANGED <<client, term, link, using, conn, listed, anon, asked, answered, pending,
                     requests, kick, work, stop, items, resources, stable, breaks, failovers>>
      BY Zenon DEF Fenced, serverVars, connVars, farewellVars, storeVars, bounds, clientVars
<1>l. client[m] \in {"left", "dead"} BY Zenon, <1>u DEF SessionInv, TypeOK, Arriving, Running
<1>r. Requests' = Requests BY <1>u, RequestsSame
<1>1. TypeOK' BY Zenon, <1>u DEF SessionInv, TypeOK
<1>2. ItemLast' BY Zenon, <1>u DEF SessionInv, ItemLast
<1>3. ASSUME NEW o \in Mount PROVE Arriving(o)' /\ Present(o)' /\ Departing(o)'
  <2>1. Arriving(o)'
    <3>p. MapsTyped /\ Arriving(o) BY Zenon, SessionParts
    <3>q. QED BY <1>u, <3>p DEF MapsTyped, Arriving, Running
  <2>2. Present(o)' BY Zenon, <1>u DEF SessionInv, TypeOK, Present, Arriving
  <2>3. Departing(o)' BY Zenon, <1>u, <1>l, <1>r DEF SessionInv, TypeOK, Departing, Leaves, Reclaimed
  <2>4. QED BY Zenon, <2>1, <2>2, <2>3
<1>4. QED BY <1>1, <1>2, <1>3 DEF SessionInv

\* The agent makes sure that the mount doesn't run.
LEMMA FencedInv ==
    ASSUME SessionInv, NEW m \in Mount, Fenced(m)
    PROVE  SessionInv'
<1>1. CASE Running(m)
  <2>1. /\ CloseSocket(m) /\ fence[m] = "asked" /\ fence' = [fence EXCEPT ![m] = "fenced"]
        /\ client' = [client EXCEPT ![m] = "dead"] /\ using' = using \ {m}
        /\ UNCHANGED <<term, kick, work, pending, items, resources, stable, breaks, failovers>>
        BY <1>1, Zenon DEF Fenced, storeVars, bounds
  <2>2. /\ fence' \in [Mount -> {"none", "asked", "fenced"}]
        /\ breaks' \in 0..MaxBreaks /\ failovers' \in 0..MaxFailovers
        BY Zenon, <2>1 DEF SessionInv, TypeOK
  <2>3. client'[m] = "dead" BY Zenon, <2>1 DEF SessionInv, TypeOK
  <2>4. \A o \in Mount : fence'[o] = fence[o] \/ (o = m /\ fence[m] = "asked" /\ client'[m] = "dead")
        BY Zenon, <2>1, <2>3 DEF SessionInv, TypeOK
  <2>5. QED BY <1>1, <2>1, <2>2, <2>4, CloseSocketInv, Zenon
<1>2. CASE ~Running(m) BY Zenon, <1>2, FencedGoneInv
<1>3. QED BY <1>1, <1>2

\* A connection that a mount doesn't come back to is given up.
LEMMA ReconnTimeoutInv ==
    ASSUME SessionInv, NEW m \in Mount, ReconnTimeout(m)
    PROVE  SessionInv'
<1>u. /\ "wait" \in conn[m]
      /\ fence' = [fence EXCEPT ![m] = IF @ = "none" THEN "asked" ELSE @]
      /\ conn' = [conn EXCEPT ![m] = @ \ {"wait"}]
      /\ listed' = IF conn[m] = {"wait"} THEN listed \ {m} ELSE listed
      /\ answered' = IF conn[m] = {"wait"} THEN answered \ {m} ELSE answered
      /\ asked' = IF conn[m] = {"wait"} THEN asked \ {m} ELSE asked
      /\ requests' = Without(requests, m)
      /\ stop' = (stop \/ m \notin listed)
      /\ UNCHANGED <<client, term, link, using, anon, pending, kick, work, items, resources,
                     stable, breaks, failovers>>
      BY Zenon DEF ReconnTimeout, DestroyConn, serverVars, connVars, farewellVars, storeVars, bounds, clientVars
<1>q. requests \in Seq(Mount) BY DEF SessionInv, TypeOK
<1>w. requests' \in Seq(Mount) /\ Range(requests') \subseteq Range(requests) BY Zenon, <1>u, <1>q, WithoutType
<1>r. Requests' \subseteq Requests BY <1>u, <1>w DEF Requests
<1>b. stop' \in BOOLEAN BY <1>u, Zenon
<1>1. TypeOK' BY Zenon, <1>u, <1>b, <1>w DEF SessionInv, TypeOK
<1>2. ItemLast' BY ZenonT(60), <1>u DEF SessionInv, ItemLast
<1>3. ASSUME NEW o \in Mount PROVE Arriving(o)' /\ Present(o)' /\ Departing(o)'
  <2>1. Arriving(o)'
    <3>p. MapsTyped /\ Arriving(o) BY Zenon, SessionParts
    <3>q. QED BY <1>u, <3>p DEF MapsTyped, Arriving, Running
  <2>2. Present(o)' BY Zenon, <1>u DEF SessionInv, TypeOK, Present, Arriving
  <2>3. Departing(o)' BY ZenonT(60), <1>u, <1>r DEF SessionInv, TypeOK, Departing, Leaves, Reclaimed, Arriving
  <2>4. QED BY <2>1, <2>2, <2>3
<1>4. QED BY <1>1, <1>2, <1>3 DEF SessionInv

\* A connection without a mount stops the server.
LEMMA AnonTimeoutInv ==
    ASSUME SessionInv, AnonTimeout
    PROVE  SessionInv'
<1>u. /\ stop' = TRUE
      /\ anon' = FALSE
      /\ UNCHANGED <<client, term, link, using, conn, listed, asked, answered, pending, requests,
                     kick, work, fence, items, resources, stable, breaks, failovers>>
      BY Zenon DEF AnonTimeout, serverVars, connVars, farewellVars, storeVars, bounds, clientVars
<1>r. Requests' = Requests BY Zenon, <1>u, RequestsSame
<1>1. TypeOK' BY Zenon, <1>u DEF SessionInv, TypeOK
<1>2. ItemLast' BY Zenon, <1>u DEF SessionInv, ItemLast
<1>3. ASSUME NEW o \in Mount PROVE Arriving(o)' /\ Present(o)' /\ Departing(o)'
  <2>1. Arriving(o)' BY ZenonT(60), <1>u DEF SessionInv, TypeOK, Arriving, Running
  <2>2. Present(o)' BY ZenonT(60), <1>u DEF SessionInv, TypeOK, Present, Arriving
  <2>3. Departing(o)' BY ZenonT(60), <1>u, <1>r DEF SessionInv, TypeOK, Departing, Leaves, Reclaimed, Arriving
  <2>4. QED BY <2>1, <2>2, <2>3
<1>4. QED BY <1>1, <1>2, <1>3 DEF SessionInv

\* A fenced mount is reclaimed.
LEMMA ReclaimFencedInv ==
    ASSUME SessionInv, NEW m \in Mount, ReclaimFenced(m)
    PROVE  SessionInv'
<1>1. Leaves(m) BY DEF ReclaimFenced, SessionInv, Departing, Leaves
<1>2. QED BY <1>1, ReclaimInv, Zenon DEF ReclaimFenced

\* A fenced mount is reclaimed and forgotten.
LEMMA ReclaimDoneInv ==
    ASSUME SessionInv, NEW m \in Mount, ReclaimDone(m)
    PROVE  SessionInv'
<1>u. /\ fence' = [fence EXCEPT ![m] = "none"]
      /\ pending' = [pending EXCEPT ![m] = @ \ Recov]
      /\ kick' = TRUE
      /\ UNCHANGED <<client, term, link, using, conn, listed, anon, asked, answered, requests,
                     work, stop, items, resources, stable, breaks, failovers>>
      BY Zenon DEF ReclaimDone, scoutfs_recov_finish, serverVars, connVars, farewellVars, storeVars, bounds, clientVars
<1>r. Requests' = Requests BY Zenon, <1>u, RequestsSame
<1>1. TypeOK' BY Zenon, <1>u DEF SessionInv, TypeOK
<1>2. ItemLast' BY Zenon, <1>u DEF SessionInv, ItemLast
<1>3. ASSUME NEW o \in Mount PROVE Arriving(o)' /\ Present(o)' /\ Departing(o)'
  <2>1. Arriving(o)'
    <3>p. MapsTyped /\ Arriving(o) BY Zenon, SessionParts
    <3>q. QED BY <1>u, <3>p, Zenon DEF MapsTyped, Arriving, Running
  <2>2. Present(o)' BY Zenon, <1>u DEF SessionInv, TypeOK, Present, Arriving
  <2>3. Departing(o)' BY ZenonT(60), <1>u, <1>r DEF SessionInv, TypeOK, Departing, Leaves, Reclaimed, Arriving
  <2>4. QED BY <2>1, <2>2, <2>3
<1>4. QED BY <1>1, <1>2, <1>3 DEF SessionInv

\* Another server finds what the last one committed.
LEMMA NextServerInv ==
    ASSUME SessionInv, NextServer, failovers' \in 0..MaxFailovers
    PROVE  SessionInv'
<1>u. /\ conn' = [m \in Mount |-> {}]
      /\ listed' = {} /\ anon' = FALSE /\ asked' = {} /\ answered' = {}
      /\ requests' = << >> /\ kick' = FALSE /\ work' = Idle
      /\ pending' = start_recovery
      /\ fence' = [m \in Mount |-> "none"]
      /\ stop' = FALSE
      /\ items' = stable.items /\ resources' = stable.resources
      /\ link' = [m \in Mount |-> "none"]
      /\ term' = [m \in Mount |-> IF term[m] = "current" THEN "old" ELSE term[m]]
      /\ UNCHANGED <<client, using, stable, breaks>>
      BY Zenon DEF NextServer
<1>r. Requests' = {} BY <1>u DEF Requests, Range, Idle
<1>s. stable \in [items : SUBSET Mount, resources : SUBSET Mount] BY DEF SessionInv, TypeOK
<1>f. \A o \in Mount : /\ conn'[o] = {} /\ fence'[o] = "none" /\ link'[o] = "none"
                       /\ term'[o] = "never" <=> term[o] = "never"
                       /\ o \notin stable.items => pending'[o] = {}
      BY Zenon, <1>u DEF start_recovery
<1>1. TypeOK'
  <2>1. term' \in [Mount -> {"never", "old", "current"}] BY <1>u DEF SessionInv, TypeOK
  <2>2. pending' \in [Mount -> SUBSET Recov] BY Zenon, <1>u DEF start_recovery
  <2>3. work' \in [step : {"idle", "reclaim"}, reqs : Seq(Mount), send : Seq(Mount)] /\ requests' \in Seq(Mount)
        BY <1>u, IdleType, Zenon
  <2>4. /\ conn' \in [Mount -> SUBSET {"up", "wait"}] /\ fence' \in [Mount -> {"none", "asked", "fenced"}]
        /\ link' \in [Mount -> {"none", "greeting", "inserted", "greeted", "up"}]
        BY <1>u
  <2>5. anon' \in BOOLEAN /\ kick' \in BOOLEAN /\ stop' \in BOOLEAN BY <1>u, Zenon
  <2>6. /\ listed' \subseteq Mount /\ asked' \subseteq Mount /\ answered' \subseteq Mount
        /\ items' \subseteq Mount /\ resources' \subseteq Mount
        BY Zenon, <1>u, <1>s
  <2>7. QED BY <1>u, <2>1, <2>2, <2>3, <2>4, <2>5, <2>6, Zenon DEF SessionInv, TypeOK
<1>2. ItemLast' BY <1>u DEF SessionInv, ItemLast
<1>3. ASSUME NEW o \in Mount PROVE Arriving(o)' /\ Present(o)' /\ Departing(o)'
  <2>1. Arriving(o)' BY Zenon, <1>u, <1>f DEF SessionInv, TypeOK, Arriving, Running
  <2>2. Present(o)' BY ZenonT(60), <1>u, <1>f DEF SessionInv, TypeOK, Present
  <2>3. Departing(o)' BY Zenon, <1>u, <1>f, <1>r DEF SessionInv, TypeOK, Departing, Leaves, Reclaimed
  <2>4. QED BY Zenon, <2>1, <2>2, <2>3
<1>4. QED BY <1>1, <1>2, <1>3 DEF SessionInv

-----------------------------------------------------------------------------
(* The theorems. *)

\* The invariant holds at first.
LEMMA SessionInit ==
    ASSUME Init
    PROVE  SessionInv
<1>1. \A m \in Mount : /\ client[m] = "out" /\ term[m] = "never" /\ link[m] = "none"
                       /\ conn[m] = {} /\ pending[m] = {} /\ fence[m] = "none"
      BY DEF Init
<1>2. /\ items = {} /\ resources = {} /\ stable = [items |-> {}, resources |-> {}]
      /\ using = {} /\ answered = {} /\ listed = {} /\ asked = {}
      /\ requests = << >> /\ work = Idle /\ breaks = 0 /\ failovers = 0
      BY Zenon DEF Init
<1>3. Requests = {} BY <1>2 DEF Requests, Range, Idle
<1>4. TypeOK
  <2>1. /\ client \in [Mount -> {"out", "mounting", "up", "leaving", "left", "dead"}]
        /\ term \in [Mount -> {"never", "old", "current"}]
        /\ link \in [Mount -> {"none", "greeting", "inserted", "greeted", "up"}]
        /\ conn \in [Mount -> SUBSET {"up", "wait"}]
        /\ pending \in [Mount -> SUBSET Recov]
        /\ fence \in [Mount -> {"none", "asked", "fenced"}]
        BY DEF Init
  <2>2. anon \in BOOLEAN /\ kick \in BOOLEAN /\ stop \in BOOLEAN BY Zenon DEF Init
  <2>3. /\ work \in [step : {"idle", "reclaim"}, reqs : Seq(Mount), send : Seq(Mount)]
        /\ requests \in Seq(Mount)
        BY <1>2, IdleType, Zenon
  <2>4. breaks \in 0..MaxBreaks /\ failovers \in 0..MaxFailovers BY <1>2, BoundsAssumption
  <2>5. /\ stable \in [items : SUBSET Mount, resources : SUBSET Mount]
        /\ items \subseteq Mount /\ resources \subseteq Mount /\ using \subseteq Mount
        /\ listed \subseteq Mount /\ asked \subseteq Mount /\ answered \subseteq Mount
        BY Zenon, <1>2
  <2>6. QED BY <2>1, <2>2, <2>3, <2>4, <2>5, Zenon DEF TypeOK
<1>5. ItemLast BY <1>2 DEF ItemLast
<1>6. ASSUME NEW m \in Mount PROVE Arriving(m) /\ Present(m) /\ Departing(m)
      BY Zenon, <1>1, <1>2, <1>3 DEF Arriving, Present, Departing
<1>7. QED BY Zenon, <1>4, <1>5, <1>6 DEF SessionInv

\* Every step keeps the invariant.
LEMMA SessionNext ==
    ASSUME SessionInv, [Next]_vars
    PROVE  SessionInv'
<1>1. CASE UNCHANGED vars
  <2>1. UNCHANGED <<client, term, link, using, conn, listed, anon, asked, answered, pending, requests,
                    kick, work, fence, stop, items, resources, stable, breaks, failovers>>
        BY <1>1, Zenon DEF vars, clientVars, serverVars, connVars, farewellVars, storeVars, bounds
  <2>2. Requests' = Requests BY <2>1, RequestsSame
  <2>3. QED BY <2>1, <2>2, ZenonT(60) DEF SessionInv, TypeOK, ItemLast, Arriving, Present, Departing, Leaves, Reclaimed, Running
<1>2. CASE ServerFail
  <2>1. failovers' \in 0..MaxFailovers BY <1>2, BoundsAssumption DEF ServerFail, SessionInv, TypeOK
  <2>2. QED BY <1>2, <2>1, NextServerInv, Zenon DEF ServerFail
<1>3. CASE ServerStops
  <2>1. failovers' \in 0..MaxFailovers BY Zenon, <1>3 DEF ServerStops, SessionInv, TypeOK
  <2>2. QED BY <1>3, <2>1, NextServerInv, Zenon DEF ServerStops
<1>4. CASE server_apply_commit \/ FarewellStart \/ FarewellSend \/ AnonTimeout
      BY <1>4, CommitInv, FarewellStartInv, FarewellSendInv, AnonTimeoutInv, Zenon
<1>5. ASSUME NEW m \in Mount,
             \/ scoutfs_client_setup(m) \/ scoutfs_client_connect_worker(m) \/ client_greeting(m)
             \/ client_farewell_response(m) \/ scoutfs_client_destroy(m)
             \/ insert_mounted_client(m) \/ server_greeting(m) \/ server_get_log_trees(m)
      PROVE  SessionInv'
      BY <1>5, SetupInv, FoundNoItemInv, ConnectInv, GreetedInv, FarewellResponseInv, DestroyInv,
         InsertInv, GreetingDroppedInv, GreetingInv, LogTreeInv, Zenon
<1>6. ASSUME NEW m \in Mount,
             \/ LockRecovered(m) \/ fence_pending_recov_worker(m)
             \/ server_farewell(m) \/ FarewellReclaim(m)
             \/ Break(m) \/ Crash(m) \/ ReconnTimeout(m) \/ Fenced(m)
             \/ ReclaimFenced(m) \/ ReclaimDone(m)
      PROVE  SessionInv'
      BY <1>6, LockRecoveredInv, FencePendingInv, FarewellAskInv, FarewellReclaimInv, BreakInv, CrashInv,
         ReconnTimeoutInv, FencedInv, ReclaimFencedInv, ReclaimDoneInv, Zenon
<1>7. QED BY <1>1, <1>2, <1>3, <1>4, <1>5, <1>6, Zenon DEF Next

\* What is stored for a mount, what the server knows of it and what the mount does fit
\* together, for any mounts, whatever connections break, mounts crash and servers fail.
THEOREM SessionInvariant == Spec => []SessionInv
<1>1. Init => SessionInv BY SessionInit
<1>2. SessionInv /\ [Next]_vars => SessionInv' BY SessionNext
<1>3. QED BY <1>1, <1>2, PTL DEF Spec

\* reclaim_rid() never takes the log tree of a mount that runs and uses it.
THEOREM NothingReclaimedInUse == Spec => []ReclaimedWhenGone
<1>1. SessionInv => ReclaimedWhenGone
      BY DEF SessionInv, TypeOK, Present, ReclaimedWhenGone
<1>2. QED BY <1>1, SessionInvariant, PTL

\* The mounted client item is deleted last, in memory and in every commit, so that a
\* server that starts finds every mount that has something to be reclaimed.
THEOREM ItemsLast == Spec => []ItemLast
<1>1. SessionInv => ItemLast BY DEF SessionInv
<1>2. QED BY <1>1, SessionInvariant, PTL

\* A mount whose unmount has finished left nothing for a server to find, whether it got
\* the response or only found that its item was gone.
THEOREM LeftNothing == Spec => []LeavesNothing
<1>1. SessionInv => LeavesNothing BY Zenon DEF SessionInv, Departing, LeavesNothing
<1>2. QED BY <1>1, SessionInvariant, PTL

==============================================================================
