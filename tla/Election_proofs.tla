--------------------------- MODULE Election_proofs ---------------------------
(***************************************************************************)
(* The proof about Election: when mounts read all quorum blocks, a server  *)
(* never runs beside a leader whose election it read, unless a newer       *)
(* leader had fenced since or its agent failed.                            *)
(*                                                                         *)
(* Every action of a quorum worker keeps the terms of its slot in order    *)
(* (TermsKept), and no action of a worker touches what servers have read   *)
(* and asked of their agents.  The actions of servers and agents keep      *)
(* FencesHold.                                                             *)
(***************************************************************************)
EXTENDS Election, TLAPS

-----------------------------------------------------------------------------
(* Helpers. *)

\* One entry of a function is replaced.
LEMMA FunPut ==
    ASSUME NEW S, NEW T, NEW f \in [S -> T], NEW s \in S, NEW v \in T
    PROVE  /\ [f EXCEPT ![s] = v] \in [S -> T]
           /\ [f EXCEPT ![s] = v][s] = v
           /\ \A t \in S \ {s} : [f EXCEPT ![s] = v][t] = f[t]
OBVIOUS

\* One event of a slot's block is set.
LEMMA BlockPut ==
    ASSUME block \in [Slot -> Block], NEW s \in Slot, NEW e \in EventName, NEW ev \in Event,
           block' = [block EXCEPT ![s][e] = ev]
    PROVE  /\ block' \in [Slot -> Block]
           /\ block'[s][e] = ev
           /\ \A d \in EventName \ {e} : block'[s][d] = block[s][d]
           /\ \A t \in Slot \ {s} : block'[t] = block[t]
BY DEF Block

\* Terms and rids are numbers.
LEMMA BlockNumbers ==
    ASSUME TypeOK, NEW s \in Slot, NEW e \in EventName
    PROVE  /\ block[s][e] \in Event /\ block[s][e].term \in Term /\ block[s][e].term \in Nat
           /\ block[s][e].rid \in 0..MaxRid
<1>1. block[s][e] \in Event BY DEF TypeOK, Block
<1>2. QED BY <1>1, QuorumAssumption DEF Event, Term

\* What a server read, or has yet to read, has numbers too.
LEMMA SeenNumbers ==
    ASSUME TypeOK, NEW t \in Slot, NEW s \in Slot, NEW e \in EventName
    PROVE  seen[t][s][e].term \in Nat /\ seen[t][s][e].rid \in Int
<1>1. seen[t][s] \in Block \cup {Unread} BY DEF TypeOK
<1>2. CASE seen[t][s] \in Block
  <2>1. seen[t][s][e] \in Event BY <1>2 DEF Block
  <2>2. QED BY <2>1, QuorumAssumption DEF Event, Term
<1>3. CASE seen[t][s] = Unread BY <1>3 DEF Unread
<1>4. QED BY <1>1, <1>2, <1>3

\* A slot whose worker, block and server are left alone keeps its terms.
LEMMA TermsFrame ==
    ASSUME NEW t \in Slot, TermsKept(t), mount'[t] = mount[t], pc'[t] = pc[t], qst'[t] = qst[t],
           server'[t] = server[t], block'[t]["stop"].term = block[t]["stop"].term
    PROVE  TermsKept(t)'
BY Zenon DEF TermsKept

\* A server that does not read or wait, and whose requests are left alone, still has
\* fenced or asked for what it read.
LEMMA FencesFrame ==
    ASSUME NEW t \in Slot, FencesHold(t), mount'[t] = mount[t],
           server'[t].phase \in {"wait", "serve"} =>
              server'[t].phase = server[t].phase /\ server'[t].term = server[t].term,
           seen'[t] = seen[t], fences'[t] = fences[t],
           \A s \in Slot : mount'[s] # 0 => mount'[s] = mount[s]
    PROVE  FencesHold(t)'
<1>1. ASSUME server'[t].phase \in {"wait", "serve"},
             NEW o \in ToFence(t, seen[t])', NEW s \in Slot,
             mount'[s] # 0, mount'[s] = seen'[t][o[1]][o[2]].rid
      PROVE  fences'[t][mount'[s]] \in {"pending", "error"}
  <2>1. server'[t].term = server[t].term /\ server[t].phase \in {"wait", "serve"} BY <1>1, Zenon
  <2>2. o \in ToFence(t, seen[t]) BY <1>1, <2>1, Zenon DEF ToFence
  <2>3. mount'[s] = mount[s] BY <1>1, Zenon
  <2>4. QED BY <1>1, <2>1, <2>2, <2>3, Zenon DEF FencesHold
<1>2. server'[t].phase = "serve" => all_fenced(t)'
  <2>1. server'[t].phase = "serve" => server[t].phase = "serve" BY Zenon
  <2>2. QED BY <2>1, Zenon DEF FencesHold, all_fenced
<1>3. QED BY <1>1, <1>2, Zenon DEF FencesHold

-----------------------------------------------------------------------------
(* The quorum workers. *)

\* A step of one slot's worker, or of its unmount, that keeps its terms in order keeps
\* the invariant.
LEMMA WorkerKeeps ==
    ASSUME ElectionInv, NEW s \in Slot, TypeOK', TermsKept(s)',
           UNCHANGED <<mount, lastRid, seen, fences>>,
           \A t \in Slot \ {s} : /\ block'[t] = block[t] /\ qst'[t] = qst[t] /\ pc'[t] = pc[t]
                                 /\ server'[t] = server[t],
           \A e \in EventName : block'[s][e].rid <= lastRid,
           block[s]["stop"].term <= block'[s]["stop"].term,
           server'[s].phase \in {"wait", "serve"} =>
              server'[s].phase = server[s].phase /\ server'[s].term = server[s].term
    PROVE  ElectionInv'
<1>i. TypeOK /\ RidsKept /\ StopsKept /\ \A t \in Slot : TermsKept(t) /\ FencesHold(t)
      BY Zenon DEF ElectionInv
<1>u. mount' = mount /\ lastRid' = lastRid /\ seen' = seen /\ fences' = fences BY Zenon
<1>1. RidsKept'
  <2>1. \A t \in Slot, e \in EventName : block'[t][e].rid <= lastRid BY <1>i DEF RidsKept
  <2>2. QED BY <1>i, <1>u, <2>1 DEF RidsKept
<1>2. StopsKept'
  <2>1. ASSUME NEW t \in Slot, NEW r \in Slot PROVE seen'[t][r]["stop"].term <= block'[r]["stop"].term
    <3>1. seen[t][r]["stop"].term <= block[r]["stop"].term BY <1>i, Zenon DEF StopsKept
    <3>2. "stop" \in EventName BY DEF EventName
    <3>3. seen[t][r]["stop"].term \in Nat /\ block[r]["stop"].term \in Nat BY <1>i, <3>2, SeenNumbers, BlockNumbers, Zenon
    <3>4. block'[r]["stop"].term \in Nat BY <3>2, QuorumAssumption DEF TypeOK, Block, Event, Term
    <3>5. block[r]["stop"].term <= block'[r]["stop"].term BY <3>3
    <3>6. QED BY <1>u, <3>1, <3>3, <3>4, <3>5
  <2>2. QED BY <2>1, Zenon DEF StopsKept
<1>3. ASSUME NEW t \in Slot PROVE TermsKept(t)' /\ FencesHold(t)'
  <2>1. TermsKept(t)'
    <3>1. CASE t = s BY <3>1, Zenon
    <3>2. CASE t # s BY <1>i, <1>u, <3>2, TermsFrame, Zenon
    <3>3. QED BY <3>1, <3>2, Zenon
  <2>2. server'[t].phase \in {"wait", "serve"} =>
           server'[t].phase = server[t].phase /\ server'[t].term = server[t].term
        BY Zenon
  <2>3. FencesHold(t)' BY <1>i, <1>u, <2>2, FencesFrame, Zenon
  <2>4. QED BY <2>1, <2>3
<1>4. QED BY <1>1, <1>2, <1>3, Zenon DEF ElectionInv

\* A worker that writes its block, or waits for one to be written, has a mount.
LEMMA WorkerMounted ==
    ASSUME ElectionInv, NEW s \in Slot, pc[s] # "off"
    PROVE  mount[s] # 0 /\ mount[s] \in 0..MaxRid /\ mount[s] <= lastRid
BY Zenon DEF ElectionInv, TypeOK, TermsKept, RidsKept

\* Datagrams to the others are datagrams.
LEMMA SentOthers ==
    ASSUME NEW s \in Slot, NEW term \in Term,
           NEW type \in {"request_vote", "vote", "heartbeat", "resignation"}
    PROVE  send_msg_others(s, type, term) \subseteq Datagram
BY DEF send_msg_others, Datagram

\* The vote of an iteration, and the way back to the top of the loop.
LEMMA EndFacts ==
    ASSUME TypeOK, NEW s \in Slot, NEW q \in QuorumStatus, NEW m \in Datagram \cup {NoMsg},
           EndIteration(s, q, m)
    PROVE  /\ net' \subseteq Datagram
           /\ qst' \in [Slot -> QuorumStatus]
           /\ pc' \in [Slot -> {"off", "recv", "term", "elect", "fence", "stop", "stopwait", "gone"}]
           /\ msg' \in [Slot -> Datagram \cup {NoMsg}]
           /\ \A t \in Slot \ {s} : qst'[t] = qst[t] /\ pc'[t] = pc[t]
           /\ qst'[s].term = q.term /\ qst'[s].server_start_term = q.server_start_term
           /\ qst'[s].role = q.role
           /\ pc'[s] = "recv"
<1>1. /\ pc' \in [Slot -> {"off", "recv", "term", "elect", "fence", "stop", "stopwait", "gone"}]
      /\ msg' \in [Slot -> Datagram \cup {NoMsg}]
      /\ pc'[s] = "recv" /\ \A t \in Slot \ {s} : pc'[t] = pc[t]
      BY DEF TypeOK, EndIteration
<1>2. CASE Votes(q, m)
  <2>1. m \in Datagram BY <1>2 DEF Votes, NoMsg
  <2>2. m.from \in Slot /\ q.term \in Term BY <2>1 DEF Datagram, QuorumStatus
  <2>3. /\ qst' = [qst EXCEPT ![s] = [q EXCEPT !.vote_for = m.from]]
        /\ net' = net \cup {[type |-> "vote", term |-> q.term, from |-> s, to |-> m.from]}
        BY <1>2, Zenon DEF EndIteration
  <2>4. net' \subseteq Datagram BY <2>2, <2>3 DEF TypeOK, Datagram
  <2>5. /\ [q EXCEPT !.vote_for = m.from] \in QuorumStatus
        /\ [q EXCEPT !.vote_for = m.from].term = q.term
        /\ [q EXCEPT !.vote_for = m.from].server_start_term = q.server_start_term
        /\ [q EXCEPT !.vote_for = m.from].role = q.role
        BY <2>2 DEF QuorumStatus
  <2>6. QED BY <1>1, <2>3, <2>4, <2>5, FunPut, Zenon DEF TypeOK
<1>3. CASE ~ Votes(q, m)
  <2>1. qst' = [qst EXCEPT ![s] = q] /\ net' = net BY <1>3, Zenon DEF EndIteration
  <2>2. QED BY <1>1, <2>1, FunPut, Zenon DEF TypeOK
<1>4. QED BY <1>2, <1>3, Zenon

\* A running server may be told to stop.
LEMMA StopFacts ==
    ASSUME TypeOK, NEW s \in Slot
    PROVE  /\ stop_server(s) \in ServerInfo
           /\ stop_server(s).phase = server[s].phase /\ stop_server(s).term = server[s].term
           /\ stop_server(s).status = "down" <=> server[s].status = "down"
<1>1. server[s] \in ServerInfo BY DEF TypeOK
<1>2. CASE is_running(s)
  <2>1. stop_server(s) = [server[s] EXCEPT !.status = "stopping"] BY <1>2, Zenon DEF stop_server
  <2>2. QED BY <1>1, <1>2, <2>1 DEF ServerInfo, is_running
<1>3. CASE ~ is_running(s)
  <2>1. stop_server(s) = server[s] BY <1>3, Zenon DEF stop_server
  <2>2. QED BY <1>1, <2>1, Zenon
<1>4. QED BY <1>2, <1>3, Zenon

\* Counting a vote leaves the rest.
LEMMA CountFacts ==
    ASSUME NEW q \in QuorumStatus, NEW m \in Datagram \cup {NoMsg}
    PROVE  /\ CountVote(q, m) \in QuorumStatus
           /\ CountVote(q, m).term = q.term /\ CountVote(q, m).role = q.role
           /\ CountVote(q, m).server_start_term = q.server_start_term
<1>1. CASE q.role = "candidate" /\ m.type = "vote"
  <2>1. m.from \in Slot BY <1>1 DEF Datagram, NoMsg
  <2>2. CountVote(q, m) = [q EXCEPT !.vote_bits = q.vote_bits \cup {m.from}] BY <1>1, Zenon DEF CountVote
  <2>3. q.vote_bits \cup {m.from} \in SUBSET Slot BY <2>1 DEF QuorumStatus
  <2>4. QED BY <2>2, <2>3 DEF QuorumStatus
<1>2. CASE ~ (q.role = "candidate" /\ m.type = "vote")
  <2>1. CountVote(q, m) = q BY <1>2, Zenon DEF CountVote
  <2>2. QED BY <2>1, Zenon
<1>3. QED BY <1>1, <1>2, Zenon

\* What the rest of an iteration promises: the term is kept, only candidates are elected,
\* and a stop is only recorded of a server that is down.
LEMMA ContinueFacts ==
    ASSUME TypeOK, NEW s \in Slot, NEW q0 \in QuorumStatus, NEW m \in Datagram \cup {NoMsg},
           Continue(s, q0, m)
    PROVE  /\ net' \subseteq Datagram
           /\ qst' \in [Slot -> QuorumStatus]
           /\ pc' \in [Slot -> {"off", "recv", "term", "elect", "fence", "stop", "stopwait", "gone"}]
           /\ msg' \in [Slot -> Datagram \cup {NoMsg}]
           /\ server' \in [Slot -> ServerInfo]
           /\ \A t \in Slot \ {s} : qst'[t] = qst[t] /\ pc'[t] = pc[t] /\ server'[t] = server[t]
           /\ qst'[s].term = q0.term /\ qst'[s].server_start_term = q0.server_start_term
           /\ qst'[s].role = "candidate" \/ pc'[s] = "elect" => q0.role = "candidate"
           /\ pc'[s] = "elect" => qst'[s].role = "leader"
           /\ pc'[s] # "off"
           /\ pc'[s] = "stop" => server'[s].status = "down" /\ q0.server_start_term > 0
           /\ server'[s].phase = server[s].phase /\ server'[s].term = server[s].term
           /\ server'[s].status = "down" <=> server[s].status = "down"
<1> DEFINE q == CountVote(q0, m)
<1>q. /\ q \in QuorumStatus /\ q.term = q0.term /\ q.role = q0.role
      /\ q.server_start_term = q0.server_start_term
      BY CountFacts, Zenon
<1>t. q.term \in Term /\ q.server_start_term \in Term BY <1>q DEF QuorumStatus
<1>n. NoMsg \in Datagram \cup {NoMsg} OBVIOUS
<1>c. \/ /\ Wins(q)
         /\ qst' = [qst EXCEPT ![s] = [q EXCEPT !.role = "leader"]]
         /\ net' = net \cup send_msg_others(s, "heartbeat", q.term)
         /\ pc' = [pc EXCEPT ![s] = "elect"]
         /\ msg' = [msg EXCEPT ![s] = NoMsg]
         /\ UNCHANGED server
      \/ /\ ~ Wins(q)
         /\ FenceDue(s, q)
         /\ qst' = [qst EXCEPT ![s] = q]
         /\ pc' = [pc EXCEPT ![s] = "fence"]
         /\ msg' = [msg EXCEPT ![s] = NoMsg]
         /\ UNCHANGED <<net, server>>
      \/ /\ ~ Wins(q)
         /\ StopDue(s, q)
         /\ qst' = [qst EXCEPT ![s] = Resigned(q)]
         /\ net' = net \cup Resignation(s, q)
         /\ pc' = [pc EXCEPT ![s] = "stop"]
         /\ msg' = [msg EXCEPT ![s] = m]
         /\ UNCHANGED server
      \/ /\ ~ Wins(q)
         /\ ~ FenceDue(s, q)
         /\ ~ StopDue(s, q)
         /\ FollowServer(s, q)
         /\ EndIteration(s, q, m)
      BY Zenon DEF Continue
<1> HIDE DEF q
<1>1. CASE /\ Wins(q)
           /\ qst' = [qst EXCEPT ![s] = [q EXCEPT !.role = "leader"]]
           /\ net' = net \cup send_msg_others(s, "heartbeat", q.term)
           /\ pc' = [pc EXCEPT ![s] = "elect"]
           /\ msg' = [msg EXCEPT ![s] = NoMsg]
           /\ UNCHANGED server
  <2>1. q.role = "candidate" BY <1>1, Zenon DEF Wins
  <2>2. net' \subseteq Datagram BY <1>1, <1>t, SentOthers DEF TypeOK
  <2>3. /\ [q EXCEPT !.role = "leader"] \in QuorumStatus
        /\ [q EXCEPT !.role = "leader"].term = q.term
        /\ [q EXCEPT !.role = "leader"].server_start_term = q.server_start_term
        /\ [q EXCEPT !.role = "leader"].role = "leader"
        BY <1>q DEF QuorumStatus
  <2>4. /\ qst' \in [Slot -> QuorumStatus] /\ qst'[s] = [q EXCEPT !.role = "leader"]
        /\ \A t \in Slot \ {s} : qst'[t] = qst[t]
        BY <1>1, <2>3, FunPut, Zenon DEF TypeOK
  <2>5. /\ pc' \in [Slot -> {"off", "recv", "term", "elect", "fence", "stop", "stopwait", "gone"}]
        /\ pc'[s] = "elect" /\ \A t \in Slot \ {s} : pc'[t] = pc[t]
        /\ msg' \in [Slot -> Datagram \cup {NoMsg}]
        BY <1>1 DEF TypeOK
  <2>6. pc'[s] # "stop" /\ pc'[s] # "off" BY <2>5
  <2>7. server' = server /\ server \in [Slot -> ServerInfo] BY <1>1, Zenon DEF TypeOK
  <2>8. QED BY <1>q, <2>1, <2>2, <2>3, <2>4, <2>5, <2>6, <2>7, Zenon
<1>2. CASE /\ FenceDue(s, q)
           /\ qst' = [qst EXCEPT ![s] = q]
           /\ pc' = [pc EXCEPT ![s] = "fence"]
           /\ msg' = [msg EXCEPT ![s] = NoMsg]
           /\ UNCHANGED <<net, server>>
  <2>1. /\ qst' \in [Slot -> QuorumStatus] /\ qst'[s] = q
        /\ \A t \in Slot \ {s} : qst'[t] = qst[t]
        BY <1>q, <1>2, FunPut, Zenon DEF TypeOK
  <2>2. /\ pc' \in [Slot -> {"off", "recv", "term", "elect", "fence", "stop", "stopwait", "gone"}]
        /\ pc'[s] = "fence" /\ \A t \in Slot \ {s} : pc'[t] = pc[t]
        /\ msg' \in [Slot -> Datagram \cup {NoMsg}]
        BY <1>2 DEF TypeOK
  <2>3. pc'[s] # "stop" /\ pc'[s] # "off" /\ pc'[s] # "elect" BY <2>2
  <2>4. net' = net /\ server' = server BY <1>2, Zenon
  <2>5. QED BY <1>q, <2>1, <2>2, <2>3, <2>4, Zenon DEF TypeOK
<1>3. CASE /\ StopDue(s, q)
           /\ qst' = [qst EXCEPT ![s] = Resigned(q)]
           /\ net' = net \cup Resignation(s, q)
           /\ pc' = [pc EXCEPT ![s] = "stop"]
           /\ msg' = [msg EXCEPT ![s] = m]
           /\ UNCHANGED server
  <2>1. /\ Resigned(q) \in QuorumStatus /\ Resigned(q).term = q.term
        /\ Resigned(q).server_start_term = q.server_start_term
        /\ Resigned(q).role = "candidate" => q.role = "candidate"
        BY <1>q, Zenon DEF Resigned, QuorumStatus
  <2>2. net' \subseteq Datagram
    <3>1. send_msg_others(s, "resignation", q.server_start_term) \subseteq Datagram BY <1>t, SentOthers
    <3>2. Resignation(s, q) \subseteq Datagram BY <3>1 DEF Resignation
    <3>3. QED BY <1>3, <3>2 DEF TypeOK
  <2>3. /\ qst' \in [Slot -> QuorumStatus] /\ qst'[s] = Resigned(q)
        /\ \A t \in Slot \ {s} : qst'[t] = qst[t]
        BY <1>3, <2>1, FunPut, Zenon DEF TypeOK
  <2>4. /\ pc' \in [Slot -> {"off", "recv", "term", "elect", "fence", "stop", "stopwait", "gone"}]
        /\ pc'[s] = "stop" /\ \A t \in Slot \ {s} : pc'[t] = pc[t]
        /\ msg' \in [Slot -> Datagram \cup {NoMsg}]
        BY <1>3 DEF TypeOK
  <2>5. pc'[s] # "off" /\ pc'[s] # "elect" BY <2>4
  <2>6. server' = server /\ server[s].status = "down" /\ q.server_start_term > 0 BY <1>3, Zenon DEF StopDue
  <2>7. QED BY <1>q, <2>1, <2>2, <2>3, <2>4, <2>5, <2>6, Zenon DEF TypeOK
<1>4. CASE FollowServer(s, q) /\ EndIteration(s, q, m)
  <2>1. /\ server' \in [Slot -> ServerInfo]
        /\ \A t \in Slot \ {s} : server'[t] = server[t]
        /\ server'[s].phase = server[s].phase /\ server'[s].term = server[s].term
        /\ server'[s].status = "down" <=> server[s].status = "down"
    <3>1. CASE server' = server BY <3>1, Zenon DEF TypeOK
    <3>2. CASE server' = [server EXCEPT ![s] = stop_server(s)]
      <4>1. /\ server' \in [Slot -> ServerInfo] /\ server'[s] = stop_server(s)
            /\ \A t \in Slot \ {s} : server'[t] = server[t]
            BY <3>2, StopFacts, FunPut, Zenon DEF TypeOK
      <4>2. QED BY <4>1, StopFacts, Zenon
    <3>3. QED BY <1>4, <3>1, <3>2, Zenon DEF FollowServer
  <2>2. /\ net' \subseteq Datagram
        /\ qst' \in [Slot -> QuorumStatus]
        /\ pc' \in [Slot -> {"off", "recv", "term", "elect", "fence", "stop", "stopwait", "gone"}]
        /\ msg' \in [Slot -> Datagram \cup {NoMsg}]
        /\ \A t \in Slot \ {s} : qst'[t] = qst[t] /\ pc'[t] = pc[t]
        /\ qst'[s].term = q.term /\ qst'[s].server_start_term = q.server_start_term
        /\ qst'[s].role = q.role
        /\ pc'[s] = "recv"
        BY <1>q, <1>4, EndFacts, Zenon
  <2>3. pc'[s] # "off" /\ pc'[s] # "elect" /\ pc'[s] # "stop" BY <2>2
  <2>4. QED BY <1>q, <2>1, <2>2, <2>3, Zenon
<1>5. QED BY <1>c, <1>1, <1>2, <1>3, <1>4, Zenon

\* The worker's and the server's terms are numbers.
LEMMA WorkerNumbers ==
    ASSUME TypeOK, NEW s \in Slot
    PROVE  /\ qst[s] \in QuorumStatus /\ qst[s].term \in Nat /\ qst[s].server_start_term \in Nat
           /\ qst[s].term \in Term /\ qst[s].server_start_term \in Term
           /\ server[s] \in ServerInfo /\ server[s].term \in Nat
           /\ block[s]["stop"].term \in Nat
<1>1. qst[s] \in QuorumStatus /\ server[s] \in ServerInfo BY DEF TypeOK
<1>2. "stop" \in EventName BY DEF EventName
<1>3. block[s]["stop"].term \in Nat BY <1>2, BlockNumbers, Zenon
<1>4. QED BY <1>1, <1>3, QuorumAssumption DEF QuorumStatus, ServerInfo, Term

\* Received messages are datagrams, or none.
LEMMA ReceivedFacts ==
    ASSUME TypeOK, NEW s \in Slot, NEW m \in Received(s)
    PROVE  m \in Datagram \cup {NoMsg} /\ m.term \in Term
<1>1. m \in Datagram \cup {NoMsg} BY Zenon DEF TypeOK, Received
<1>2. QED BY <1>1, QuorumAssumption DEF Datagram, NoMsg, Term

\* A newer term makes a follower.
LEMMA RecvNewerInv ==
    ASSUME ElectionInv, NEW s \in Slot, NEW m \in Received(s), RecvNewer(s, m)
    PROVE  ElectionInv'
<1>i. TypeOK /\ RidsKept /\ TermsKept(s) BY Zenon DEF ElectionInv
<1>u. /\ pc[s] = "recv" /\ m.term > qst[s].term
      /\ qst' = [qst EXCEPT ![s] = [qst[s] EXCEPT !.role = "follower", !.term = m.term,
                                                  !.vote_for = None, !.vote_bits = {}]]
      /\ pc' = [pc EXCEPT ![s] = "term"]
      /\ msg' = [msg EXCEPT ![s] = m]
      /\ UNCHANGED <<net, block, mount, lastRid, shutdown, server, seen, fences, faults>>
      BY Zenon DEF RecvNewer, Loops, serverVars
<1>m. m \in Datagram \cup {NoMsg} /\ m.term \in Term BY <1>i, ReceivedFacts, Zenon
<1>n. /\ qst[s] \in QuorumStatus /\ qst[s].term \in Nat /\ qst[s].server_start_term \in Nat
      /\ server[s].term \in Nat /\ block[s]["stop"].term \in Nat /\ m.term \in Nat
      BY <1>i, <1>m, WorkerNumbers, QuorumAssumption DEF Term
<1>q. /\ qst' \in [Slot -> QuorumStatus]
      /\ qst'[s].role = "follower" /\ qst'[s].term = m.term
      /\ qst'[s].server_start_term = qst[s].server_start_term
      /\ \A t \in Slot \ {s} : qst'[t] = qst[t]
  <2> DEFINE q == [qst[s] EXCEPT !.role = "follower", !.term = m.term, !.vote_for = None,
                                 !.vote_bits = {}]
  <2>1. /\ q \in QuorumStatus /\ q.role = "follower" /\ q.term = m.term
        /\ q.server_start_term = qst[s].server_start_term
        BY <1>n, <1>m, Zenon DEF QuorumStatus
  <2>2. qst' = [qst EXCEPT ![s] = q] BY <1>u, Zenon
  <2> HIDE DEF q
  <2>3. QED BY <1>i, <2>1, <2>2, FunPut, Zenon DEF TypeOK
<1>p. /\ pc' \in [Slot -> {"off", "recv", "term", "elect", "fence", "stop", "stopwait", "gone"}]
      /\ pc'[s] = "term" /\ msg' \in [Slot -> Datagram \cup {NoMsg}]
      /\ \A t \in Slot \ {s} : pc'[t] = pc[t]
      BY <1>i, <1>u, <1>m DEF TypeOK
<1>1. TypeOK' BY <1>i, <1>u, <1>q, <1>p, Zenon DEF TypeOK
<1>2. TermsKept(s)' BY <1>i, <1>u, <1>n, <1>q, <1>p DEF TermsKept
<1>3. \A e \in EventName : block'[s][e].rid <= lastRid BY <1>i, <1>u, Zenon DEF RidsKept
<1>4. block[s]["stop"].term <= block'[s]["stop"].term BY <1>u, <1>n
<1>5. QED BY <1>u, <1>q, <1>p, <1>1, <1>2, <1>3, <1>4, WorkerKeeps, Zenon

\* A candidate's term is newer than all it has recorded.
LEMMA StandForElectionInv ==
    ASSUME ElectionInv, NEW s \in Slot, NEW m \in Received(s), StandForElection(s, m)
    PROVE  ElectionInv'
<1>i. TypeOK /\ RidsKept /\ TermsKept(s) BY Zenon DEF ElectionInv
<1>u. /\ pc[s] = "recv" /\ qst[s].term < MaxTerm
      /\ qst' = [qst EXCEPT ![s] = [qst[s] EXCEPT !.role = "candidate", !.term = qst[s].term + 1,
                                                  !.vote_for = None, !.vote_bits = {s}]]
      /\ net' = net \cup send_msg_others(s, "request_vote", qst[s].term + 1)
      /\ pc' = [pc EXCEPT ![s] = "term"]
      /\ msg' = [msg EXCEPT ![s] = m]
      /\ UNCHANGED <<block, mount, lastRid, shutdown, server, seen, fences, faults>>
      BY Zenon DEF StandForElection, Loops, serverVars
<1>m. m \in Datagram \cup {NoMsg} BY <1>i, ReceivedFacts, Zenon
<1>n. /\ qst[s] \in QuorumStatus /\ qst[s].term \in Nat /\ qst[s].server_start_term \in Nat
      /\ server[s].term \in Nat /\ block[s]["stop"].term \in Nat
      BY <1>i, WorkerNumbers
<1>v. qst[s].term + 1 \in Term BY <1>u, <1>n, QuorumAssumption DEF Term
<1>q. /\ qst' \in [Slot -> QuorumStatus]
      /\ qst'[s].role = "candidate" /\ qst'[s].term = qst[s].term + 1
      /\ qst'[s].server_start_term = qst[s].server_start_term
      /\ \A t \in Slot \ {s} : qst'[t] = qst[t]
  <2> DEFINE q == [qst[s] EXCEPT !.role = "candidate", !.term = qst[s].term + 1, !.vote_for = None,
                                 !.vote_bits = {s}]
  <2>1. /\ q \in QuorumStatus /\ q.role = "candidate" /\ q.term = qst[s].term + 1
        /\ q.server_start_term = qst[s].server_start_term
        BY <1>n, <1>v, Zenon DEF QuorumStatus
  <2>2. qst' = [qst EXCEPT ![s] = q] BY <1>u, Zenon
  <2> HIDE DEF q
  <2>3. QED BY <1>i, <2>1, <2>2, FunPut, Zenon DEF TypeOK
<1>p. /\ pc' \in [Slot -> {"off", "recv", "term", "elect", "fence", "stop", "stopwait", "gone"}]
      /\ pc'[s] = "term" /\ msg' \in [Slot -> Datagram \cup {NoMsg}]
      /\ \A t \in Slot \ {s} : pc'[t] = pc[t]
      BY <1>i, <1>u, <1>m DEF TypeOK
<1>w. net' \subseteq Datagram BY <1>i, <1>u, <1>v, SentOthers DEF TypeOK
<1>1. TypeOK' BY <1>i, <1>u, <1>q, <1>p, <1>w, Zenon DEF TypeOK
<1>2. TermsKept(s)' BY <1>i, <1>u, <1>n, <1>q, <1>p DEF TermsKept
<1>3. \A e \in EventName : block'[s][e].rid <= lastRid BY <1>i, <1>u, Zenon DEF RidsKept
<1>4. block[s]["stop"].term <= block'[s]["stop"].term BY <1>u, <1>n
<1>5. QED BY <1>u, <1>q, <1>p, <1>1, <1>2, <1>3, <1>4, WorkerKeeps, Zenon

\* The rest of an iteration, whether the term was stored or not.
LEMMA ContinueInv ==
    ASSUME ElectionInv, NEW s \in Slot, NEW m \in Datagram \cup {NoMsg}, Continue(s, qst[s], m),
           pc[s] # "off", pc[s] # "gone", block' \in [Slot -> Block],
           \A t \in Slot \ {s} : block'[t] = block[t],
           \A e \in EventName : block'[s][e].rid <= lastRid, block'[s]["stop"] = block[s]["stop"],
           UNCHANGED <<mount, lastRid, shutdown, seen, fences, faults>>
    PROVE  ElectionInv'
<1>i. TypeOK /\ RidsKept /\ TermsKept(s) BY Zenon DEF ElectionInv
<1>n. /\ qst[s] \in QuorumStatus /\ qst[s].term \in Nat /\ qst[s].server_start_term \in Nat
      /\ server[s].term \in Nat /\ block[s]["stop"].term \in Nat
      BY <1>i, WorkerNumbers
<1>c. /\ net' \subseteq Datagram
      /\ qst' \in [Slot -> QuorumStatus]
      /\ pc' \in [Slot -> {"off", "recv", "term", "elect", "fence", "stop", "stopwait", "gone"}]
      /\ msg' \in [Slot -> Datagram \cup {NoMsg}]
      /\ server' \in [Slot -> ServerInfo]
      /\ \A t \in Slot \ {s} : qst'[t] = qst[t] /\ pc'[t] = pc[t] /\ server'[t] = server[t]
      /\ qst'[s].term = qst[s].term /\ qst'[s].server_start_term = qst[s].server_start_term
      /\ qst'[s].role = "candidate" \/ pc'[s] = "elect" => qst[s].role = "candidate"
      /\ pc'[s] = "elect" => qst'[s].role = "leader"
      /\ pc'[s] # "off"
      /\ pc'[s] = "stop" => server'[s].status = "down" /\ qst[s].server_start_term > 0
      /\ server'[s].phase = server[s].phase /\ server'[s].term = server[s].term
      /\ server'[s].status = "down" <=> server[s].status = "down"
      BY <1>i, <1>n, ContinueFacts, Zenon
<1>1. TypeOK' BY <1>i, <1>c, Zenon DEF TypeOK
<1>2. TermsKept(s)' BY <1>i, <1>n, <1>c DEF TermsKept
<1>3. block[s]["stop"].term <= block'[s]["stop"].term BY <1>n
<1>4. QED BY <1>c, <1>1, <1>2, <1>3, WorkerKeeps, Zenon

\* The term is stored before the iteration goes on.
LEMMA StoreTermInv ==
    ASSUME ElectionInv, NEW s \in Slot, StoreTerm(s)
    PROVE  ElectionInv'
<1>i. TypeOK /\ RidsKept BY Zenon DEF ElectionInv
<1>u. /\ pc[s] = "term"
      /\ block' = [block EXCEPT ![s]["term"] = [rid |-> mount[s], term |-> qst[s].term]]
      /\ Continue(s, qst[s], msg[s])
      /\ UNCHANGED <<mount, lastRid, shutdown, seen, fences, faults>>
      BY Zenon DEF StoreTerm, update_quorum_block
<1>m. mount[s] # 0 /\ mount[s] \in 0..MaxRid /\ mount[s] <= lastRid /\ pc[s] # "off" /\ pc[s] # "gone"
  <2>1. pc[s] # "off" /\ pc[s] # "gone" BY <1>u
  <2>2. QED BY <2>1, WorkerMounted, Zenon
<1>e. [rid |-> mount[s], term |-> qst[s].term] \in Event /\ "term" \in EventName /\ "stop" \in EventName \ {"term"}
  <2>1. qst[s].term \in Term BY <1>i, WorkerNumbers, Zenon
  <2>2. QED BY <1>m, <2>1 DEF Event, EventName
<1>b. /\ block' \in [Slot -> Block]
      /\ block'[s]["term"] = [rid |-> mount[s], term |-> qst[s].term]
      /\ \A d \in EventName \ {"term"} : block'[s][d] = block[s][d]
      /\ \A t \in Slot \ {s} : block'[t] = block[t]
  <2>1. block \in [Slot -> Block] BY <1>i, Zenon DEF TypeOK
  <2>2. QED BY <1>u, <1>e, <2>1, BlockPut, Zenon
<1>1. \A e \in EventName : block'[s][e].rid <= lastRid
  <2>1. \A e \in EventName : block[s][e].rid <= lastRid BY <1>i, Zenon DEF RidsKept
  <2>2. QED BY <1>m, <1>b, <2>1
<1>2. block'[s]["stop"] = block[s]["stop"] BY <1>b, <1>e, Zenon
<1>3. msg[s] \in Datagram \cup {NoMsg} BY <1>i DEF TypeOK
<1>4. QED BY <1>u, <1>m, <1>b, <1>1, <1>2, <1>3, ContinueInv, Zenon

\* An iteration in the same term.
LEMMA RecvSameInv ==
    ASSUME ElectionInv, NEW s \in Slot, NEW m \in Received(s), RecvSame(s, m)
    PROVE  ElectionInv'
<1>i. TypeOK /\ RidsKept BY Zenon DEF ElectionInv
<1>u. /\ pc[s] = "recv"
      /\ Continue(s, qst[s], m)
      /\ UNCHANGED <<block, mount, lastRid, shutdown, seen, fences, faults>>
      BY Zenon DEF RecvSame, Loops
<1>1. \A e \in EventName : block'[s][e].rid <= lastRid BY <1>i, <1>u, Zenon DEF RidsKept
<1>2. block' \in [Slot -> Block] BY <1>i, <1>u, Zenon DEF TypeOK
<1>3. m \in Datagram \cup {NoMsg} BY <1>i, ReceivedFacts, Zenon
<1>4. pc[s] # "off" /\ pc[s] # "gone" BY <1>u
<1>5. QED BY <1>u, <1>1, <1>2, <1>3, <1>4, ContinueInv, Zenon

\* A leader starts its server in a term after its last stop.
LEMMA WriteElectInv ==
    ASSUME ElectionInv, NEW s \in Slot, WriteElect(s)
    PROVE  ElectionInv'
<1>i. TypeOK /\ RidsKept /\ TermsKept(s) BY Zenon DEF ElectionInv
<1> DEFINE q == [qst[s] EXCEPT !.server_start_term = qst[s].term, !.server_event = "elect"]
           v == [status |-> "starting", phase |-> "read", term |-> qst[s].term]
<1>u. /\ pc[s] = "elect"
      /\ block' = [block EXCEPT ![s]["elect"] = [rid |-> mount[s], term |-> qst[s].term]]
      /\ qst' = [qst EXCEPT ![s] = q]
      /\ server' = IF server[s].status = "down" THEN [server EXCEPT ![s] = v] ELSE server
      /\ pc' = [pc EXCEPT ![s] = "recv"]
      /\ UNCHANGED <<net, mount, lastRid, msg, shutdown, seen, fences, faults>>
      BY Zenon DEF WriteElect, update_quorum_block
<1>n. /\ qst[s] \in QuorumStatus /\ qst[s].term \in Nat /\ qst[s].server_start_term \in Nat
      /\ qst[s].term \in Term
      /\ server[s] \in ServerInfo /\ server[s].term \in Nat /\ block[s]["stop"].term \in Nat
      BY <1>i, WorkerNumbers
<1>v. /\ v \in ServerInfo /\ v.status = "starting" /\ v.phase = "read" /\ v.term = qst[s].term
      BY <1>n DEF ServerInfo
<1>q. /\ q \in QuorumStatus /\ q.term = qst[s].term /\ q.server_start_term = qst[s].term
      /\ q.role = qst[s].role
      BY <1>n, Zenon DEF QuorumStatus
<1> HIDE DEF q, v
<1>m. mount[s] # 0 /\ mount[s] \in 0..MaxRid /\ mount[s] <= lastRid
  <2>1. pc[s] # "off" BY <1>u
  <2>2. QED BY <2>1, WorkerMounted, Zenon
<1>e. [rid |-> mount[s], term |-> qst[s].term] \in Event /\ "elect" \in EventName /\ "stop" \in EventName \ {"elect"}
      BY <1>m, <1>n DEF Event, EventName
<1>b. /\ block' \in [Slot -> Block]
      /\ block'[s]["elect"] = [rid |-> mount[s], term |-> qst[s].term]
      /\ \A d \in EventName \ {"elect"} : block'[s][d] = block[s][d]
      /\ \A t \in Slot \ {s} : block'[t] = block[t]
  <2>1. block \in [Slot -> Block] BY <1>i, Zenon DEF TypeOK
  <2>2. QED BY <1>u, <1>e, <2>1, BlockPut, Zenon
<1>c. /\ qst' \in [Slot -> QuorumStatus] /\ qst'[s] = q /\ \A t \in Slot \ {s} : qst'[t] = qst[t]
      BY <1>i, <1>u, <1>q, FunPut, Zenon DEF TypeOK
<1>p. /\ pc' \in [Slot -> {"off", "recv", "term", "elect", "fence", "stop", "stopwait", "gone"}]
      /\ pc'[s] = "recv" /\ \A t \in Slot \ {s} : pc'[t] = pc[t]
      BY <1>i, <1>u DEF TypeOK
<1>s. /\ server' \in [Slot -> ServerInfo]
      /\ \A t \in Slot \ {s} : server'[t] = server[t]
      /\ server'[s] = IF server[s].status = "down" THEN v ELSE server[s]
  <2>1. CASE server[s].status = "down" BY <1>i, <1>u, <1>v, <2>1, FunPut, Zenon DEF TypeOK
  <2>2. CASE server[s].status # "down" BY <1>i, <1>u, <2>2, Zenon DEF TypeOK
  <2>3. QED BY <2>1, <2>2, Zenon
<1>1. TypeOK' BY <1>i, <1>u, <1>b, <1>c, <1>p, <1>s, Zenon DEF TypeOK
<1>2. TermsKept(s)'
  <2>1. block'[s]["stop"] = block[s]["stop"] BY <1>b, <1>e, Zenon
  <2>2. block[s]["stop"].term < qst[s].term BY <1>i, <1>u, Zenon DEF TermsKept
  <2>3. qst'[s].role # "candidate"
    <3>1. qst[s].role = "leader" BY <1>i, <1>u, Zenon DEF TermsKept
    <3>2. QED BY <1>q, <1>c, <3>1
  <2>4. QED BY <1>i, <1>u, <1>n, <1>m, <1>q, <1>v, <1>c, <1>p, <1>s, <2>1, <2>2, <2>3 DEF TermsKept
<1>3. \A e \in EventName : block'[s][e].rid <= lastRid
  <2>1. \A e \in EventName : block[s][e].rid <= lastRid BY <1>i, Zenon DEF RidsKept
  <2>2. QED BY <1>m, <1>b, <2>1
<1>4. block[s]["stop"].term <= block'[s]["stop"].term BY <1>n, <1>b, <1>e
<1>5. server'[s].phase \in {"wait", "serve"} =>
         server'[s].phase = server[s].phase /\ server'[s].term = server[s].term
      BY <1>s, <1>v
<1>6. QED BY <1>u, <1>b, <1>c, <1>p, <1>s, <1>1, <1>2, <1>3, <1>4, <1>5, WorkerKeeps, Zenon

\* The other writes of the block by a worker that stays where it was or leaves: the server,
\* the term and the term that its server was started in are left alone.
LEMMA WriteKeeps ==
    ASSUME ElectionInv, NEW s \in Slot, TypeOK', pc[s] # "off", mount[s] # 0,
           UNCHANGED <<mount, lastRid, seen, fences>>,
           \A t \in Slot \ {s} : /\ block'[t] = block[t] /\ qst'[t] = qst[t] /\ pc'[t] = pc[t]
                                 /\ server'[t] = server[t],
           \A e \in EventName : block'[s][e].rid <= lastRid,
           block'[s]["stop"] = block[s]["stop"],
           qst'[s].term = qst[s].term, qst'[s].role = qst[s].role,
           qst'[s].server_start_term = qst[s].server_start_term,
           pc'[s] \notin {"off", "elect", "stop"}, pc[s] # "gone",
           server'[s].phase = server[s].phase, server'[s].term = server[s].term,
           server'[s].status = "down" <=> server[s].status = "down"
    PROVE  ElectionInv'
<1>i. TypeOK /\ TermsKept(s) BY Zenon DEF ElectionInv
<1>n. /\ qst[s].term \in Nat /\ qst[s].server_start_term \in Nat
      /\ server[s].term \in Nat /\ block[s]["stop"].term \in Nat
      BY <1>i, WorkerNumbers
<1>1. mount'[s] = mount[s] BY Zenon
<1>2. TermsKept(s)' BY <1>i, <1>n, <1>1 DEF TermsKept
<1>3. block[s]["stop"].term <= block'[s]["stop"].term BY <1>n
<1>4. QED BY <1>2, <1>3, WorkerKeeps, Zenon

\* The leader records that it has fenced.
LEMMA WriteFenceInv ==
    ASSUME ElectionInv, NEW s \in Slot, WriteFence(s)
    PROVE  ElectionInv'
<1>i. TypeOK /\ RidsKept BY Zenon DEF ElectionInv
<1>u. /\ pc[s] = "fence"
      /\ block' = [block EXCEPT ![s]["fence"] = [rid |-> mount[s], term |-> qst[s].term]]
      /\ qst' = [qst EXCEPT ![s].server_event = "fence"]
      /\ pc' = [pc EXCEPT ![s] = "recv"]
      /\ UNCHANGED <<net, mount, lastRid, msg, shutdown, server, seen, fences, faults>>
      BY Zenon DEF WriteFence, update_quorum_block, serverVars
<1>m. mount[s] # 0 /\ mount[s] \in 0..MaxRid /\ mount[s] <= lastRid /\ pc[s] # "off" /\ pc[s] # "gone"
  <2>1. pc[s] # "off" /\ pc[s] # "gone" BY <1>u
  <2>2. QED BY <2>1, WorkerMounted, Zenon
<1>e. [rid |-> mount[s], term |-> qst[s].term] \in Event /\ "fence" \in EventName /\ "stop" \in EventName \ {"fence"}
  <2>1. qst[s].term \in Term BY <1>i, WorkerNumbers, Zenon
  <2>2. QED BY <1>m, <2>1 DEF Event, EventName
<1>b. /\ block' \in [Slot -> Block]
      /\ block'[s]["fence"] = [rid |-> mount[s], term |-> qst[s].term]
      /\ \A d \in EventName \ {"fence"} : block'[s][d] = block[s][d]
      /\ \A t \in Slot \ {s} : block'[t] = block[t]
  <2>1. block \in [Slot -> Block] BY <1>i, Zenon DEF TypeOK
  <2>2. QED BY <1>u, <1>e, <2>1, BlockPut, Zenon
<1>c. /\ qst' \in [Slot -> QuorumStatus] /\ \A t \in Slot \ {s} : qst'[t] = qst[t]
      /\ qst'[s].term = qst[s].term /\ qst'[s].role = qst[s].role
      /\ qst'[s].server_start_term = qst[s].server_start_term
  <2> DEFINE q == [qst[s] EXCEPT !.server_event = "fence"]
  <2>1. qst[s] \in QuorumStatus BY <1>i, WorkerNumbers, Zenon
  <2>2. /\ q \in QuorumStatus /\ q.term = qst[s].term /\ q.role = qst[s].role
        /\ q.server_start_term = qst[s].server_start_term
        BY <2>1, Zenon DEF QuorumStatus
  <2>3. qst' = [qst EXCEPT ![s] = q] BY <1>u, Zenon
  <2> HIDE DEF q
  <2>4. QED BY <1>i, <2>2, <2>3, FunPut, Zenon DEF TypeOK
<1>p. /\ pc' \in [Slot -> {"off", "recv", "term", "elect", "fence", "stop", "stopwait", "gone"}]
      /\ pc'[s] \notin {"off", "elect", "stop"} /\ \A t \in Slot \ {s} : pc'[t] = pc[t]
      BY <1>i, <1>u DEF TypeOK
<1>1. TypeOK' BY <1>i, <1>u, <1>b, <1>c, <1>p, Zenon DEF TypeOK
<1>2. \A e \in EventName : block'[s][e].rid <= lastRid
  <2>1. \A e \in EventName : block[s][e].rid <= lastRid BY <1>i, Zenon DEF RidsKept
  <2>2. QED BY <1>m, <1>b, <2>1
<1>3. block'[s]["stop"] = block[s]["stop"] BY <1>b, <1>e, Zenon
<1>4. QED BY <1>u, <1>m, <1>b, <1>c, <1>p, <1>1, <1>2, <1>3, WriteKeeps, Zenon

\* The worker gives up.
LEMMA WorkerFailsInv ==
    ASSUME ElectionInv, NEW s \in Slot, WorkerFails(s)
    PROVE  ElectionInv'
<1>i. TypeOK /\ RidsKept BY Zenon DEF ElectionInv
<1>u. /\ pc[s] \in {"term", "elect", "fence", "stop"}
      /\ faults < MaxFaults /\ faults' = faults + 1
      /\ pc' = [pc EXCEPT ![s] = "gone"]
      /\ msg' = [msg EXCEPT ![s] = NoMsg]
      /\ UNCHANGED <<net, block, mount, lastRid, qst, shutdown, server, seen, fences>>
      BY Zenon DEF WorkerFails, Fails, Counted, serverVars
<1>m. mount[s] # 0 /\ pc[s] # "off" /\ pc[s] # "gone"
  <2>1. pc[s] # "off" /\ pc[s] # "gone" BY <1>u
  <2>2. QED BY <2>1, WorkerMounted, Zenon
<1>p. /\ pc' \in [Slot -> {"off", "recv", "term", "elect", "fence", "stop", "stopwait", "gone"}]
      /\ pc'[s] \notin {"off", "elect", "stop"} /\ \A t \in Slot \ {s} : pc'[t] = pc[t]
      /\ msg' \in [Slot -> Datagram \cup {NoMsg}]
      BY <1>i, <1>u DEF TypeOK
<1>f. faults' \in 0..MaxFaults BY <1>i, <1>u, QuorumAssumption DEF TypeOK
<1>1. TypeOK' BY <1>i, <1>u, <1>p, <1>f, Zenon DEF TypeOK
<1>2. \A e \in EventName : block'[s][e].rid <= lastRid BY <1>i, <1>u, Zenon DEF RidsKept
<1>3. QED BY <1>u, <1>m, <1>p, <1>1, <1>2, WriteKeeps, Zenon

\* The stop of a server that is down is newer than the one recorded before.
LEMMA WriteStopInv ==
    ASSUME ElectionInv, NEW s \in Slot, WriteStop(s)
    PROVE  ElectionInv'
<1>i. TypeOK /\ RidsKept /\ TermsKept(s) BY Zenon DEF ElectionInv
<1> DEFINE q == [qst[s] EXCEPT !.server_start_term = 0]
<1>u. /\ pc[s] = "stop"
      /\ block' = [block EXCEPT ![s]["stop"] = [rid |-> mount[s], term |-> qst[s].server_start_term]]
      /\ EndIteration(s, q, msg[s])
      /\ UNCHANGED <<mount, lastRid, shutdown, server, seen, fences, faults>>
      BY Zenon DEF WriteStop, update_quorum_block, serverVars
<1>n. /\ qst[s] \in QuorumStatus /\ qst[s].term \in Nat /\ qst[s].server_start_term \in Nat
      /\ qst[s].server_start_term \in Term
      /\ server[s].term \in Nat /\ block[s]["stop"].term \in Nat
      BY <1>i, WorkerNumbers
<1>q. q \in QuorumStatus /\ q.term = qst[s].term /\ q.server_start_term = 0 /\ q.role = qst[s].role
  <2>1. 0 \in Term BY QuorumAssumption DEF Term
  <2>2. QED BY <1>n, <2>1, Zenon DEF QuorumStatus
<1> HIDE DEF q
<1>m. mount[s] # 0 /\ mount[s] \in 0..MaxRid /\ mount[s] <= lastRid
  <2>1. pc[s] # "off" BY <1>u
  <2>2. QED BY <2>1, WorkerMounted, Zenon
<1>e. [rid |-> mount[s], term |-> qst[s].server_start_term] \in Event /\ "stop" \in EventName
      BY <1>m, <1>n DEF Event, EventName
<1>b. /\ block' \in [Slot -> Block]
      /\ block'[s]["stop"] = [rid |-> mount[s], term |-> qst[s].server_start_term]
      /\ \A d \in EventName \ {"stop"} : block'[s][d] = block[s][d]
      /\ \A t \in Slot \ {s} : block'[t] = block[t]
  <2>1. block \in [Slot -> Block] BY <1>i, Zenon DEF TypeOK
  <2>2. QED BY <1>u, <1>e, <2>1, BlockPut, Zenon
<1>c. /\ net' \subseteq Datagram
      /\ qst' \in [Slot -> QuorumStatus]
      /\ pc' \in [Slot -> {"off", "recv", "term", "elect", "fence", "stop", "stopwait", "gone"}]
      /\ msg' \in [Slot -> Datagram \cup {NoMsg}]
      /\ \A t \in Slot \ {s} : qst'[t] = qst[t] /\ pc'[t] = pc[t]
      /\ qst'[s].term = q.term /\ qst'[s].server_start_term = q.server_start_term
      /\ qst'[s].role = q.role
      /\ pc'[s] = "recv"
  <2>1. msg[s] \in Datagram \cup {NoMsg} BY <1>i DEF TypeOK
  <2>2. QED BY <1>i, <1>u, <1>q, <2>1, EndFacts, Zenon
<1>1. TypeOK' BY <1>i, <1>u, <1>b, <1>c, Zenon DEF TypeOK
<1>s. block'[s]["stop"].term = qst[s].server_start_term BY <1>b
<1>2. TermsKept(s)' BY <1>i, <1>u, <1>n, <1>m, <1>q, <1>c, <1>s DEF TermsKept
<1>3. \A e \in EventName : block'[s][e].rid <= lastRid
  <2>1. \A e \in EventName : block[s][e].rid <= lastRid BY <1>i, Zenon DEF RidsKept
  <2>2. QED BY <1>m, <1>b, <2>1
<1>4. block[s]["stop"].term <= block'[s]["stop"].term BY <1>i, <1>u, <1>n, <1>s DEF TermsKept
<1>5. QED BY <1>u, <1>b, <1>c, <1>1, <1>2, <1>3, <1>4, WorkerKeeps, Zenon

\* The worker leaves its loop.
LEMMA LeaveLoopInv ==
    ASSUME ElectionInv, NEW s \in Slot, LeaveLoop(s)
    PROVE  ElectionInv'
<1>i. TypeOK /\ RidsKept BY Zenon DEF ElectionInv
<1>u. /\ pc[s] = "recv"
      /\ UNCHANGED <<net, mount, lastRid, qst, msg, shutdown, seen, fences, faults>>
      BY Zenon DEF LeaveLoop
<1>m. mount[s] # 0 /\ mount[s] \in 0..MaxRid /\ mount[s] <= lastRid /\ pc[s] # "off" /\ pc[s] # "gone"
  <2>1. pc[s] # "off" /\ pc[s] # "gone" BY <1>u
  <2>2. QED BY <2>1, WorkerMounted, Zenon
<1>1. CASE /\ server' = [server EXCEPT ![s] = stop_server(s)]
           /\ pc' = [pc EXCEPT ![s] = "stopwait"]
           /\ UNCHANGED block
  <2>1. /\ server' \in [Slot -> ServerInfo] /\ server'[s] = stop_server(s)
        /\ \A t \in Slot \ {s} : server'[t] = server[t]
        BY <1>i, <1>1, StopFacts, FunPut, Zenon DEF TypeOK
  <2>2. /\ server'[s].phase = server[s].phase /\ server'[s].term = server[s].term
        /\ server'[s].status = "down" <=> server[s].status = "down"
        BY <1>i, <2>1, StopFacts, Zenon
  <2>3. /\ pc' \in [Slot -> {"off", "recv", "term", "elect", "fence", "stop", "stopwait", "gone"}]
        /\ pc'[s] \notin {"off", "elect", "stop"} /\ \A t \in Slot \ {s} : pc'[t] = pc[t]
        BY <1>i, <1>1 DEF TypeOK
  <2>4. TypeOK' BY <1>i, <1>u, <1>1, <2>1, <2>3, Zenon DEF TypeOK
  <2>5. \A e \in EventName : block'[s][e].rid <= lastRid BY <1>i, <1>1, Zenon DEF RidsKept
  <2>6. QED BY <1>u, <1>m, <1>1, <2>1, <2>2, <2>3, <2>4, <2>5, WriteKeeps, Zenon
<1>2. CASE /\ update_quorum_block(s, "end", qst[s].term)
           /\ pc' = [pc EXCEPT ![s] = "gone"]
           /\ UNCHANGED server
  <2>e. [rid |-> mount[s], term |-> qst[s].term] \in Event /\ "end" \in EventName /\ "stop" \in EventName \ {"end"}
    <3>1. qst[s].term \in Term BY <1>i, WorkerNumbers, Zenon
    <3>2. QED BY <1>m, <3>1 DEF Event, EventName
  <2>b. /\ block' \in [Slot -> Block]
        /\ block'[s]["end"] = [rid |-> mount[s], term |-> qst[s].term]
        /\ \A d \in EventName \ {"end"} : block'[s][d] = block[s][d]
        /\ \A t \in Slot \ {s} : block'[t] = block[t]
    <3>1. block \in [Slot -> Block] BY <1>i, Zenon DEF TypeOK
    <3>2. QED BY <1>2, <2>e, <3>1, BlockPut, Zenon DEF update_quorum_block
  <2>1. /\ pc' \in [Slot -> {"off", "recv", "term", "elect", "fence", "stop", "stopwait", "gone"}]
        /\ pc'[s] \notin {"off", "elect", "stop"} /\ \A t \in Slot \ {s} : pc'[t] = pc[t]
        BY <1>i, <1>2 DEF TypeOK
  <2>2. TypeOK' BY <1>i, <1>u, <1>2, <2>b, <2>1, Zenon DEF TypeOK
  <2>3. \A e \in EventName : block'[s][e].rid <= lastRid
    <3>1. \A e \in EventName : block[s][e].rid <= lastRid BY <1>i, Zenon DEF RidsKept
    <3>2. QED BY <1>m, <2>b, <3>1
  <2>4. block'[s]["stop"] = block[s]["stop"] BY <2>b, <2>e, Zenon
  <2>5. QED BY <1>u, <1>m, <1>2, <2>b, <2>1, <2>2, <2>3, <2>4, WriteKeeps, Zenon
<1>3. QED BY <1>1, <1>2, Zenon DEF LeaveLoop

\* A worker that leaves records the stop of its server.
LEMMA LeaveStoppedInv ==
    ASSUME ElectionInv, NEW s \in Slot, LeaveStopped(s)
    PROVE  ElectionInv'
<1>i. TypeOK /\ RidsKept /\ TermsKept(s) BY Zenon DEF ElectionInv
<1> DEFINE ev == IF qst[s].server_start_term > 0
                 THEN [rid |-> mount[s], term |-> qst[s].server_start_term]
                 ELSE block[s]["stop"]
           fin == [rid |-> mount[s], term |-> qst[s].term]
<1>u. /\ pc[s] = "stopwait" /\ server[s].status = "down"
      /\ net' = net \cup send_msg_others(s, "resignation", qst[s].term)
      /\ block' = [block EXCEPT ![s]["stop"] = ev, ![s]["end"] = fin]
      /\ pc' = [pc EXCEPT ![s] = "gone"]
      /\ UNCHANGED <<mount, lastRid, qst, msg, shutdown, server, seen, fences, faults>>
      BY Zenon DEF LeaveStopped, serverVars
<1>n. /\ qst[s].term \in Nat /\ qst[s].server_start_term \in Nat
      /\ qst[s].term \in Term /\ qst[s].server_start_term \in Term
      /\ server[s].term \in Nat /\ block[s]["stop"].term \in Nat
      BY <1>i, WorkerNumbers
<1>m. mount[s] # 0 /\ mount[s] \in 0..MaxRid /\ mount[s] <= lastRid
  <2>1. pc[s] # "off" BY <1>u
  <2>2. QED BY <2>1, WorkerMounted, Zenon
<1>r. \A e \in EventName : block[s][e].rid <= lastRid BY <1>i, Zenon DEF RidsKept
<1>e. /\ ev \in Event /\ fin \in Event /\ "stop" \in EventName /\ "end" \in EventName /\ "stop" # "end"
      /\ ev.rid <= lastRid /\ fin.rid <= lastRid
      /\ ev.term = IF qst[s].server_start_term > 0 THEN qst[s].server_start_term ELSE block[s]["stop"].term
  <2>1. "stop" \in EventName /\ "end" \in EventName /\ "stop" # "end" BY DEF EventName
  <2>2. block[s]["stop"] \in Event /\ block[s]["stop"].rid <= lastRid BY <1>i, <1>r, <2>1, BlockNumbers, Zenon
  <2>3. fin \in Event /\ fin.rid <= lastRid BY <1>m, <1>n DEF Event
  <2>4. CASE qst[s].server_start_term > 0 BY <1>m, <1>n, <2>1, <2>3, <2>4 DEF Event
  <2>5. CASE ~ (qst[s].server_start_term > 0) BY <2>1, <2>2, <2>3, <2>5
  <2>6. QED BY <2>4, <2>5, Zenon
<1> HIDE DEF ev, fin
<1>b. /\ block' \in [Slot -> Block]
      /\ block'[s]["stop"] = ev /\ block'[s]["end"] = fin
      /\ \A d \in EventName \ {"stop", "end"} : block'[s][d] = block[s][d]
      /\ \A t \in Slot \ {s} : block'[t] = block[t]
      BY <1>i, <1>u, <1>e, Zenon DEF TypeOK, Block
<1>p. /\ pc' \in [Slot -> {"off", "recv", "term", "elect", "fence", "stop", "stopwait", "gone"}]
      /\ pc'[s] = "gone" /\ \A t \in Slot \ {s} : pc'[t] = pc[t]
      BY <1>i, <1>u DEF TypeOK
<1>w. net' \subseteq Datagram
  <2>1. send_msg_others(s, "resignation", qst[s].term) \subseteq Datagram BY <1>n, SentOthers
  <2>2. QED BY <1>i, <1>u, <2>1 DEF TypeOK
<1>1. TypeOK' BY <1>i, <1>u, <1>b, <1>p, <1>w, Zenon DEF TypeOK
<1>s. block'[s]["stop"].term = IF qst[s].server_start_term > 0 THEN qst[s].server_start_term ELSE block[s]["stop"].term
      BY <1>b, <1>e, Zenon
<1>2. TermsKept(s)'
  <2>1. qst'[s] = qst[s] /\ server'[s] = server[s] /\ mount'[s] = mount[s] BY <1>u, Zenon
  <2>2. QED BY <1>i, <1>u, <1>n, <1>m, <1>p, <1>s, <2>1 DEF TermsKept
<1>3. \A e \in EventName : block'[s][e].rid <= lastRid BY <1>b, <1>e, <1>r
<1>4. block[s]["stop"].term <= block'[s]["stop"].term BY <1>i, <1>u, <1>n, <1>s DEF TermsKept
<1>5. QED BY <1>u, <1>b, <1>p, <1>1, <1>2, <1>3, <1>4, WorkerKeeps, Zenon

\* An unmount only asks the worker to leave.
LEMMA UnmountInv ==
    ASSUME ElectionInv, NEW s \in Slot, Unmount(s)
    PROVE  ElectionInv'
<1>i. TypeOK /\ RidsKept /\ TermsKept(s) BY Zenon DEF ElectionInv
<1>u. /\ faults < MaxFaults /\ faults' = faults + 1
      /\ shutdown' = [shutdown EXCEPT ![s] = TRUE]
      /\ UNCHANGED <<net, block, mount, lastRid, qst, pc, msg, server, seen, fences>>
      BY Zenon DEF Unmount, Counted, serverVars
<1>1. faults' \in 0..MaxFaults BY <1>i, <1>u, QuorumAssumption DEF TypeOK
<1>2. shutdown' \in [Slot -> BOOLEAN] BY <1>i, <1>u DEF TypeOK
<1>3. TypeOK' BY <1>i, <1>u, <1>1, <1>2, Zenon DEF TypeOK
<1>4. TermsKept(s)' BY <1>i, <1>u, TermsFrame, Zenon
<1>5. \A e \in EventName : block'[s][e].rid <= lastRid BY <1>i, <1>u, Zenon DEF RidsKept
<1>6. block[s]["stop"].term <= block'[s]["stop"].term
  <2>1. block[s]["stop"].term \in Nat BY <1>i, WorkerNumbers, Zenon
  <2>2. QED BY <1>u, <2>1
<1>7. QED BY <1>u, <1>3, <1>4, <1>5, <1>6, WorkerKeeps, Zenon

\* Every step of a slot's worker keeps the invariant.
LEMMA WorkerStepInv ==
    ASSUME ElectionInv, NEW s \in Slot, WorkerStep(s)
    PROVE  ElectionInv'
BY RecvNewerInv, RecvSameInv, StandForElectionInv, StoreTermInv, WriteElectInv, WriteFenceInv,
   WriteStopInv, LeaveLoopInv, LeaveStoppedInv, Zenon DEF WorkerStep

-----------------------------------------------------------------------------
(* The servers and their agents. *)

\* A step of one slot's server that starts nothing and keeps what it fences keeps the
\* invariant.
LEMMA ServerKeeps ==
    ASSUME ElectionInv, NEW s \in Slot, TypeOK', FencesHold(s)',
           UNCHANGED <<block, mount, lastRid, qst, pc>>,
           \A t \in Slot \ {s} : server'[t] = server[t] /\ seen'[t] = seen[t] /\ fences'[t] = fences[t],
           \A r \in Slot : /\ seen'[s][r]["stop"].term <= block[r]["stop"].term
                           /\ \A e \in EventName : seen'[s][r][e].rid <= lastRid,
           server[s].status = "down" => server'[s].status = "down",
           server'[s].status = "down" => server'[s].phase = "idle",
           server'[s].status # "down" => server'[s].term = server[s].term
    PROVE  ElectionInv'
<1>i. TypeOK /\ RidsKept /\ StopsKept /\ \A t \in Slot : TermsKept(t) /\ FencesHold(t)
      BY Zenon DEF ElectionInv
<1>u. block' = block /\ mount' = mount /\ lastRid' = lastRid /\ qst' = qst /\ pc' = pc BY Zenon
<1>1. RidsKept'
  <2>1. \A t, r \in Slot, e \in EventName : seen'[t][r][e].rid <= lastRid BY <1>i DEF RidsKept
  <2>2. QED BY <1>i, <1>u, <2>1 DEF RidsKept
<1>2. StopsKept'
  <2>1. \A t, r \in Slot : seen'[t][r]["stop"].term <= block[r]["stop"].term BY <1>i DEF StopsKept
  <2>2. QED BY <1>u, <2>1, Zenon DEF StopsKept
<1>3. ASSUME NEW t \in Slot PROVE TermsKept(t)' /\ FencesHold(t)'
  <2>i. TermsKept(t) /\ FencesHold(t) BY <1>i
  <2>1. CASE t = s
    <3>1. /\ mount'[s] = mount[s] /\ pc'[s] = pc[s] /\ qst'[s] = qst[s] /\ block'[s] = block[s] BY <1>u, Zenon
    <3>2. TermsKept(s)' BY <2>i, <2>1, <3>1, Zenon DEF TermsKept
    <3>3. QED BY <2>1, <3>2, Zenon
  <2>2. CASE t # s
    <3>1. server'[t] = server[t] /\ seen'[t] = seen[t] /\ fences'[t] = fences[t] BY <2>2, Zenon
    <3>2. TermsKept(t)' BY <1>u, <2>i, <3>1, TermsFrame, Zenon
    <3>3. FencesHold(t)' BY <1>u, <2>i, <3>1, FencesFrame, Zenon
    <3>4. QED BY <3>2, <3>3
  <2>3. QED BY <2>1, <2>2, Zenon
<1>4. QED BY <1>1, <1>2, <1>3, Zenon DEF ElectionInv

\* A server that goes on still has fenced, or asked for, what it read.
LEMMA FencesMove ==
    ASSUME NEW t \in Slot, FencesHold(t), mount'[t] = mount[t], seen'[t] = seen[t],
           server'[t].phase \in {"wait", "serve"} =>
              server[t].phase \in {"wait", "serve"} /\ server'[t].term = server[t].term,
           \A s \in Slot : mount'[s] # 0 =>
              /\ mount'[s] = mount[s]
              /\ fences[t][mount[s]] \in {"pending", "error"} => fences'[t][mount[s]] \in {"pending", "error"},
           server'[t].phase = "serve" => all_fenced(t)'
    PROVE  FencesHold(t)'
<1>1. ASSUME server'[t].phase \in {"wait", "serve"},
             NEW o \in ToFence(t, seen[t])', NEW s \in Slot,
             mount'[s] # 0, mount'[s] = seen'[t][o[1]][o[2]].rid
      PROVE  fences'[t][mount'[s]] \in {"pending", "error"}
  <2>1. server'[t].term = server[t].term /\ server[t].phase \in {"wait", "serve"} BY <1>1, Zenon
  <2>2. o \in ToFence(t, seen[t]) BY <1>1, <2>1, Zenon DEF ToFence
  <2>3. mount'[s] = mount[s] BY <1>1, Zenon
  <2>4. fences[t][mount[s]] \in {"pending", "error"} BY <1>1, <2>1, <2>2, <2>3, Zenon DEF FencesHold
  <2>5. QED BY <1>1, <2>3, <2>4, Zenon
<1>2. QED BY <1>1, Zenon DEF FencesHold

\* What a server read is as the invariant says.
LEMMA SeenFacts ==
    ASSUME ElectionInv, NEW s \in Slot
    PROVE  \A r \in Slot : /\ seen[s][r]["stop"].term <= block[r]["stop"].term
                           /\ \A e \in EventName : seen[s][r][e].rid <= lastRid
BY Zenon DEF ElectionInv, StopsKept, RidsKept

\* fence_leaders() asks for all old leaders that it read of.
LEMMA FenceLeadersInv ==
    ASSUME ElectionInv, NEW s \in Slot, NEW i \in Slot, fence_leaders(s, i)
    PROVE  ElectionInv'
<1>i. TypeOK /\ RidsKept /\ TermsKept(s) /\ FencesHold(s) BY Zenon DEF ElectionInv
<1> DEFINE blocks == [seen[s] EXCEPT ![i] = block[i]]
           old == ToFence(s, blocks)
           rids == {blocks[o[1]][o[2]].rid : o \in old}
<1>u. /\ server[s].phase = "read"
      /\ seen' = [seen EXCEPT ![s] = blocks]
      /\ \/ UNCHANGED <<server, fences>>
         \/ /\ fences' = [fences EXCEPT ![s] = [r \in Rid |-> IF r \in rids THEN "pending" ELSE "none"]]
            /\ server' = [server EXCEPT ![s].phase =
                             IF Cardinality(rids) = Cardinality(old) THEN "wait" ELSE "end"]
      /\ UNCHANGED <<net, block, mount, lastRid, qst, pc, msg, shutdown, faults>>
      BY Zenon DEF fence_leaders, workerVars
<1>b. /\ blocks \in [Slot -> Block \cup {Unread}]
      /\ \A r \in Slot : /\ blocks[r]["stop"].term <= block[r]["stop"].term
                         /\ \A e \in EventName : blocks[r][e].rid <= lastRid
  <2>1. seen[s] \in [Slot -> Block \cup {Unread}] /\ block[i] \in Block BY Zenon, <1>i DEF TypeOK
  <2>2. /\ blocks \in [Slot -> Block \cup {Unread}] /\ blocks[i] = block[i]
        /\ \A r \in Slot \ {i} : blocks[r] = seen[s][r]
        BY <2>1
  <2>3. ASSUME NEW r \in Slot
        PROVE  /\ blocks[r]["stop"].term <= block[r]["stop"].term
               /\ \A e \in EventName : blocks[r][e].rid <= lastRid
    <3>1. CASE r = i
      <4>1. block[i]["stop"].term <= block[i]["stop"].term
        <5>1. block[i]["stop"].term \in Nat BY <1>i, WorkerNumbers, Zenon
        <5>2. QED BY <5>1
      <4>2. \A e \in EventName : block[i][e].rid <= lastRid BY <1>i, Zenon DEF RidsKept
      <4>3. QED BY <2>2, <3>1, <4>1, <4>2, Zenon
    <3>2. CASE r # i
      <4>1. blocks[r] = seen[s][r] BY <2>2, <3>2, Zenon
      <4>2. QED BY <4>1, SeenFacts, Zenon
    <3>3. QED BY <3>1, <3>2, Zenon
  <2>4. QED BY <2>2, <2>3, Zenon
<1>s. /\ seen' \in [Slot -> [Slot -> Block \cup {Unread}]] /\ seen'[s] = blocks
      /\ \A t \in Slot \ {s} : seen'[t] = seen[t]
  <2>1. seen \in [Slot -> [Slot -> Block \cup {Unread}]] BY <1>i, Zenon DEF TypeOK
  <2> HIDE DEF blocks
  <2>2. QED BY <1>u, <1>b, <2>1, FunPut, Zenon
<1> HIDE DEF blocks, old
<1>d. server[s].status # "down"
  <2>1. "read" # "idle" OBVIOUS
  <2>2. QED BY <1>i, <1>u, <2>1, Zenon DEF TermsKept
<1>1. CASE UNCHANGED <<server, fences>>
  <2>1. TypeOK' BY <1>i, <1>u, <1>s, <1>1, Zenon DEF TypeOK
  <2>2. FencesHold(s)'
    <3>1. server'[s].phase \notin {"wait", "serve"} /\ server'[s].phase # "serve" BY <1>u, <1>1
    <3>2. QED BY <3>1, Zenon DEF FencesHold
  <2>3. server'[s] = server[s] BY <1>1, Zenon
  <2>4. QED BY <1>u, <1>b, <1>s, <1>d, <1>1, <2>1, <2>2, <2>3, ServerKeeps, Zenon
<1>2. CASE /\ fences' = [fences EXCEPT ![s] = [r \in Rid |-> IF r \in rids THEN "pending" ELSE "none"]]
           /\ server' = [server EXCEPT ![s].phase =
                            IF Cardinality(rids) = Cardinality(old) THEN "wait" ELSE "end"]
  <2> DEFINE ph == IF Cardinality(rids) = Cardinality(old) THEN "wait" ELSE "end"
             fe == [r \in Rid |-> IF r \in rids THEN "pending" ELSE "none"]
             sv == [server[s] EXCEPT !.phase = ph]
  <2>p. ph \in {"wait", "end"} OBVIOUS
  <2>u. fences' = [fences EXCEPT ![s] = fe] /\ server' = [server EXCEPT ![s] = sv] BY <1>2, Zenon
  <2>g. fe \in [Rid -> {"none", "pending", "fenced", "error"}] /\ \A r \in Rid : r \in rids => fe[r] = "pending"
        OBVIOUS
  <2> HIDE DEF ph, fe, rids
  <2>v. sv \in ServerInfo /\ sv.phase = ph /\ sv.term = server[s].term /\ sv.status = server[s].status
    <3>1. server[s] \in ServerInfo BY <1>i, WorkerNumbers, Zenon
    <3>2. QED BY <2>p, <3>1 DEF ServerInfo
  <2> HIDE DEF sv
  <2>f. /\ fences' \in [Slot -> [Rid -> {"none", "pending", "fenced", "error"}]] /\ fences'[s] = fe
        /\ \A t \in Slot \ {s} : fences'[t] = fences[t]
    <3>1. fences \in [Slot -> [Rid -> {"none", "pending", "fenced", "error"}]] BY <1>i, Zenon DEF TypeOK
    <3>2. QED BY <2>u, <2>g, <3>1, FunPut, Zenon
  <2>s. /\ server' \in [Slot -> ServerInfo] /\ server'[s] = sv /\ \A t \in Slot \ {s} : server'[t] = server[t]
        BY <1>i, <2>u, <2>v, FunPut, Zenon DEF TypeOK
  <2>1. TypeOK' BY <1>i, <1>u, <1>s, <2>f, <2>s, Zenon DEF TypeOK
  <2>2. FencesHold(s)'
    <3>1. server'[s].phase # "serve" BY <2>p, <2>s, <2>v
    <3>2. ASSUME NEW o \in ToFence(s, seen[s])', NEW t \in Slot,
                 mount'[t] # 0, mount'[t] = seen'[s][o[1]][o[2]].rid
          PROVE  fences'[s][mount'[t]] \in {"pending", "error"}
      <4>1. mount' = mount /\ server'[s].term = server[s].term BY <1>u, <2>s, <2>v, Zenon
      <4>2. o \in old BY <1>s, <3>2, <4>1, Zenon DEF old, ToFence
      <4>3. mount[t] \in rids BY <1>s, <3>2, <4>1, <4>2, Zenon DEF rids
      <4>4. mount[t] \in Rid BY <1>i, <3>2, <4>1 DEF TypeOK, Rid
      <4>5. QED BY <2>f, <2>g, <4>1, <4>3, <4>4, Zenon
    <3>3. QED BY <3>1, <3>2, Zenon DEF FencesHold
  <2>3. /\ server'[s].status = server[s].status /\ server'[s].term = server[s].term BY <2>s, <2>v, Zenon
  <2>4. QED BY <1>u, <1>b, <1>s, <1>d, <2>f, <2>s, <2>1, <2>2, <2>3, ServerKeeps, Zenon
<1>3. QED BY <1>u, <1>1, <1>2, Zenon

\* A server that goes on, stops or gives up, with the same requests.
LEMMA ServerMoves ==
    ASSUME ElectionInv, NEW s \in Slot, NEW sv \in ServerInfo, server' = [server EXCEPT ![s] = sv],
           UNCHANGED <<net, block, mount, lastRid, workerVars, seen, fences>>, faults' \in 0..MaxFaults,
           sv.status # "down", server[s].status # "down", sv.term = server[s].term,
           sv.phase \in {"wait", "serve"} => server[s].phase \in {"wait", "serve"},
           sv.phase = "serve" => all_fenced(s)
    PROVE  ElectionInv'
<1>i. TypeOK /\ FencesHold(s) BY Zenon DEF ElectionInv
<1>u. /\ net' = net /\ block' = block /\ mount' = mount /\ lastRid' = lastRid /\ qst' = qst /\ pc' = pc
      /\ msg' = msg /\ shutdown' = shutdown /\ seen' = seen /\ fences' = fences
      BY Zenon DEF workerVars
<1>s. /\ server' \in [Slot -> ServerInfo] /\ server'[s] = sv /\ \A t \in Slot \ {s} : server'[t] = server[t]
      BY <1>i, FunPut, Zenon DEF TypeOK
<1>1. TypeOK' BY <1>i, <1>u, <1>s, Zenon DEF TypeOK
<1>2. FencesHold(s)'
  <2>1. sv.phase = "serve" => all_fenced(s)' BY <1>u, Zenon DEF all_fenced
  <2>2. QED BY <1>i, <1>u, <1>s, <2>1, FencesMove, Zenon
<1>3. QED BY <1>u, <1>s, <1>1, <1>2, SeenFacts, ServerKeeps, Zenon

\* stop_server() of a server that runs.
LEMMA ServerStops ==
    ASSUME ElectionInv, NEW s \in Slot, is_running(s), server' = [server EXCEPT ![s] = stop_server(s)],
           UNCHANGED <<net, block, mount, lastRid, workerVars, seen, fences>>, faults' \in 0..MaxFaults
    PROVE  ElectionInv'
<1>i. TypeOK /\ FencesHold(s) BY Zenon DEF ElectionInv
<1>1. server[s] \in ServerInfo BY <1>i, WorkerNumbers, Zenon
<1>2. /\ stop_server(s) \in ServerInfo /\ stop_server(s).status = "stopping"
      /\ stop_server(s).term = server[s].term /\ stop_server(s).phase = server[s].phase
      BY <1>1 DEF stop_server, ServerInfo
<1>3. server[s].status # "down" /\ stop_server(s).status # "down" BY <1>2 DEF is_running
<1>4. stop_server(s).phase = "serve" => all_fenced(s) BY <1>i, <1>2, Zenon DEF FencesHold
<1>5. QED BY <1>2, <1>3, <1>4, ServerMoves, Zenon

\* server_up(): all requests are fenced, or one has failed.
LEMMA ServerUpInv ==
    ASSUME ElectionInv, NEW s \in Slot, server_up(s)
    PROVE  ElectionInv'
<1>i. TypeOK /\ TermsKept(s) BY Zenon DEF ElectionInv
<1> DEFINE sv == [server[s] EXCEPT !.phase = "serve",
                                   !.status = IF server[s].status = "starting" THEN "up" ELSE server[s].status]
<1>u. /\ server[s].phase = "wait" /\ all_fenced(s) /\ server' = [server EXCEPT ![s] = sv]
      /\ UNCHANGED <<net, block, mount, lastRid, workerVars, seen, fences>> /\ faults' = faults
      BY Zenon DEF server_up, wait_fenced
<1>1. server[s] \in ServerInfo BY <1>i, WorkerNumbers, Zenon
<1>2. server[s].status # "down" BY <1>u, <1>i DEF TermsKept
<1>3. sv \in ServerInfo /\ sv.phase = "serve" /\ sv.term = server[s].term /\ sv.status # "down"
      BY <1>1, <1>2, Zenon DEF ServerInfo
<1> HIDE DEF sv
<1>4. faults' \in 0..MaxFaults BY <1>i, <1>u, Zenon DEF TypeOK
<1>5. QED BY <1>u, <1>2, <1>3, <1>4, ServerMoves, Zenon

\* The wait for the requests times out.
LEMMA FenceTimesOutInv ==
    ASSUME ElectionInv, NEW s \in Slot, FenceTimesOut(s)
    PROVE  ElectionInv'
<1>i. TypeOK /\ TermsKept(s) BY Zenon DEF ElectionInv
<1> DEFINE sv == [server[s] EXCEPT !.phase = "end"]
<1>u. /\ server[s].phase = "wait" /\ server' = [server EXCEPT ![s] = sv]
      /\ UNCHANGED <<net, block, mount, lastRid, workerVars, seen, fences>> /\ faults' = faults
      BY Zenon DEF FenceTimesOut
<1>1. server[s] \in ServerInfo BY <1>i, WorkerNumbers, Zenon
<1>2. server[s].status # "down" BY <1>u, <1>i DEF TermsKept
<1>3. /\ sv \in ServerInfo /\ sv.phase = "end" /\ sv.term = server[s].term /\ sv.status = server[s].status
      BY <1>1 DEF ServerInfo
<1>6. sv.phase \notin {"wait", "serve"} /\ sv.phase # "serve" BY <1>3
<1> HIDE DEF sv
<1>4. faults' \in 0..MaxFaults BY <1>i, <1>u, Zenon DEF TypeOK
<1>5. QED BY <1>u, <1>2, <1>3, <1>4, <1>6, ServerMoves, Zenon

\* A failure that is counted leaves a count in bounds.
LEMMA CountedBound ==
    ASSUME TypeOK, Counted
    PROVE  faults' \in 0..MaxFaults
BY QuorumAssumption DEF TypeOK, Counted

\* The server shuts down after an error.
LEMMA ServerFailsInv ==
    ASSUME ElectionInv, NEW s \in Slot, ServerFails(s)
    PROVE  ElectionInv'
<1>1. /\ is_running(s) /\ server' = [server EXCEPT ![s] = stop_server(s)]
      /\ UNCHANGED <<net, block, mount, lastRid, workerVars, seen, fences>> /\ Counted
      BY Zenon DEF ServerFails, Fails
<1>2. faults' \in 0..MaxFaults BY <1>1, CountedBound, Zenon DEF ElectionInv
<1>3. QED BY <1>1, <1>2, ServerStops, Zenon

\* One of a server's requests is no longer fenced or pending.
LEMMA RequestMoves ==
    ASSUME ElectionInv, NEW s \in Slot, NEW r \in Rid, NEW v,
           \/ fences[s][r] = "fenced" /\ v = "none"
           \/ fences[s][r] = "pending" /\ v = "error",
           fences' = [fences EXCEPT ![s][r] = v],
           UNCHANGED <<net, block, mount, lastRid, workerVars, server, seen, faults>>
    PROVE  ElectionInv'
<1>i. TypeOK /\ RidsKept /\ FencesHold(s) /\ TermsKept(s) BY Zenon DEF ElectionInv
<1>u. /\ net' = net /\ block' = block /\ mount' = mount /\ lastRid' = lastRid /\ qst' = qst /\ pc' = pc
      /\ msg' = msg /\ shutdown' = shutdown /\ seen' = seen /\ server' = server /\ faults' = faults
      BY Zenon DEF workerVars
<1> DEFINE fe == [fences[s] EXCEPT ![r] = v]
<1>f. fences[s] \in [Rid -> {"none", "pending", "fenced", "error"}] BY <1>i DEF TypeOK
<1>v. v \in {"none", "pending", "fenced", "error"} OBVIOUS
<1>g. /\ fe \in [Rid -> {"none", "pending", "fenced", "error"}] /\ fe[r] = v
      /\ \A q \in Rid \ {r} : fe[q] = fences[s][q]
      BY <1>f, <1>v, FunPut, Zenon
<1>e. fences' = [fences EXCEPT ![s] = fe] OBVIOUS
<1> HIDE DEF fe
<1>p. /\ fences' \in [Slot -> [Rid -> {"none", "pending", "fenced", "error"}]] /\ fences'[s] = fe
      /\ \A t \in Slot \ {s} : fences'[t] = fences[t]
  <2>1. fences \in [Slot -> [Rid -> {"none", "pending", "fenced", "error"}]] BY <1>i, Zenon DEF TypeOK
  <2>2. fe \in [Rid -> {"none", "pending", "fenced", "error"}] BY <1>g, Zenon
  <2> DEFINE g == [fences EXCEPT ![s] = fe]
             F == [Rid -> {"none", "pending", "fenced", "error"}]
  <2>3. fences \in [Slot -> F] /\ fe \in F /\ fences' = g BY <1>e, <2>1, <2>2, Zenon
  <2> HIDE DEF F
  <2>4. g \in [Slot -> F] /\ g[s] = fe /\ \A t \in Slot \ {s} : g[t] = fences[t] BY <2>3, FunPut
  <2>5. QED BY <2>3, <2>4, Zenon DEF F
<1>1. TypeOK' BY <1>i, <1>u, <1>p, Zenon DEF TypeOK
<1>2. \A q \in Rid : fences[s][q] \in {"pending", "error"} => fe[q] \in {"pending", "error"} BY <1>g
<1>3. all_fenced(s) => all_fenced(s)'
  <2>1. (\E q \in Rid : fences[s][q] = "error") => \E q \in Rid : fe[q] = "error" BY <1>g
  <2>2. (\A q \in Rid : fences[s][q] # "pending") => \A q \in Rid : fe[q] # "pending" BY <1>g
  <2>3. QED BY <1>p, <2>1, <2>2, Zenon DEF all_fenced
<1>4. \A t \in Slot : mount'[t] # 0 => mount'[t] = mount[t] /\ mount[t] \in Rid BY <1>i, <1>u DEF TypeOK, Rid
<1>5. FencesHold(s)'
  <2>1. server[s].phase = "serve" => all_fenced(s)' BY <1>i, <1>3, Zenon DEF FencesHold
  <2>2. \A t \in Slot : mount'[t] # 0 =>
              /\ mount'[t] = mount[t]
              /\ fences[s][mount[t]] \in {"pending", "error"} => fences'[s][mount[t]] \in {"pending", "error"}
        BY <1>2, <1>4, <1>p, Zenon
  <2>3. mount'[s] = mount[s] /\ seen'[s] = seen[s] /\ server'[s] = server[s] BY <1>u, Zenon
  <2>4. QED BY <1>i, <2>1, <2>2, <2>3, FencesMove, Zenon
<1>6. server'[s] = server[s] /\ seen'[s] = seen[s] BY <1>u, Zenon
<1>7. (server[s].status = "down" => server[s].phase = "idle") BY <1>i, Zenon DEF TermsKept
<1>8. QED BY <1>u, <1>p, <1>1, <1>5, <1>6, <1>7, SeenFacts, ServerKeeps, Zenon

\* reclaim_worker() forgets a fenced mount or stops the server.
LEMMA ReclaimInv ==
    ASSUME ElectionInv, NEW s \in Slot, NEW r \in Rid, reclaim_worker(s, r)
    PROVE  ElectionInv'
<1>1. CASE fences[s][r] = "fenced" /\ fences' = [fences EXCEPT ![s][r] = "none"] /\ UNCHANGED server
  <2>1. UNCHANGED <<net, block, mount, lastRid, workerVars, server, seen, faults>>
        BY <1>1, Zenon DEF reclaim_worker, workerVars
  <2>2. QED BY <1>1, <2>1, RequestMoves, Zenon
<1>2. CASE server' = [server EXCEPT ![s] = stop_server(s)] /\ UNCHANGED fences
  <2>1. /\ UNCHANGED <<net, block, mount, lastRid, workerVars, seen, fences>> /\ faults' = faults
        /\ server[s].status = "up"
        BY <1>2, Zenon DEF reclaim_worker, workerVars
  <2>2. is_running(s) BY <2>1, Zenon DEF is_running
  <2>3. faults' \in 0..MaxFaults BY <2>1, Zenon DEF ElectionInv, TypeOK
  <2>4. QED BY <1>2, <2>1, <2>2, <2>3, ServerStops, Zenon
<1>3. QED BY <1>1, <1>2, Zenon DEF reclaim_worker

\* A request fails.
LEMMA AgentFailsInv ==
    ASSUME ElectionInv, NEW s \in Slot, NEW r \in Rid, AgentFails(s, r)
    PROVE  ElectionInv'
<1>1. /\ fences[s][r] = "pending" /\ fences' = [fences EXCEPT ![s][r] = "error"]
      /\ UNCHANGED <<net, block, mount, lastRid, workerVars, server, seen, faults>>
      BY Zenon DEF AgentFails
<1>2. QED BY <1>1, RequestMoves, Zenon

\* The state of slots on which nothing runs has its type and says nothing.
LEMMA DownFacts ==
    /\ ServerDown \in ServerInfo /\ ServerDown.status = "down" /\ ServerDown.phase = "idle"
    /\ NoneSeen \in [Slot -> Block \cup {Unread}]
    /\ \A r \in Slot, e \in EventName : NoneSeen[r][e].rid = -1 /\ NoneSeen[r][e].term = 0
    /\ NoFences \in [Rid -> {"none", "pending", "fenced", "error"}]
    /\ NoQst \in QuorumStatus /\ NoQst.server_start_term = 0 /\ NoQst.term = 0 /\ NoQst.role = "follower"
<1>1. 0 \in Term BY QuorumAssumption DEF Term
<1>2. ServerDown \in ServerInfo /\ ServerDown.status = "down" /\ ServerDown.phase = "idle"
      BY <1>1 DEF ServerDown, ServerInfo
<1>3. NoneSeen \in [Slot -> Block \cup {Unread}] BY DEF NoneSeen
<1>4. \A r \in Slot, e \in EventName : NoneSeen[r][e].rid = -1 /\ NoneSeen[r][e].term = 0
      BY DEF NoneSeen, Unread
<1>5. NoFences \in [Rid -> {"none", "pending", "fenced", "error"}] BY DEF NoFences
<1>6. NoQst \in QuorumStatus /\ NoQst.server_start_term = 0 /\ NoQst.term = 0 /\ NoQst.role = "follower"
      BY <1>1 DEF NoQst, QuorumStatus
<1>7. QED BY <1>2, <1>3, <1>4, <1>5, <1>6, Zenon

\* What is not read is older than all that is recorded.
LEMMA NoneSeenFacts ==
    ASSUME TypeOK, NEW r \in Slot
    PROVE  /\ NoneSeen[r]["stop"].term <= block[r]["stop"].term
           /\ \A e \in EventName : NoneSeen[r][e].rid <= lastRid
<1>1. block[r]["stop"].term \in Nat BY WorkerNumbers, Zenon
<1>2. lastRid \in Nat BY QuorumAssumption DEF TypeOK
<1>3. "stop" \in EventName BY DEF EventName
<1>4. NoneSeen[r]["stop"].term = 0 /\ \A e \in EventName : NoneSeen[r][e].rid = -1
      BY <1>3, DownFacts, Zenon
<1>5. QED BY <1>1, <1>2, <1>4

\* server_down(): nothing is left of the server.
LEMMA ServerDownInv ==
    ASSUME ElectionInv, NEW s \in Slot, server_down(s)
    PROVE  ElectionInv'
<1>i. TypeOK BY Zenon DEF ElectionInv
<1>u. /\ server' = [server EXCEPT ![s] = ServerDown] /\ fences' = [fences EXCEPT ![s] = NoFences]
      /\ seen' = [seen EXCEPT ![s] = NoneSeen]
      /\ net' = net /\ block' = block /\ mount' = mount /\ lastRid' = lastRid /\ qst' = qst /\ pc' = pc
      /\ msg' = msg /\ shutdown' = shutdown /\ faults' = faults
      BY Zenon DEF server_down, workerVars
<1>s. /\ server' \in [Slot -> ServerInfo] /\ server'[s] = ServerDown
      /\ \A t \in Slot \ {s} : server'[t] = server[t]
      BY <1>i, <1>u, DownFacts, FunPut, ZenonT(60) DEF TypeOK
<1>f. /\ fences' \in [Slot -> [Rid -> {"none", "pending", "fenced", "error"}]]
      /\ \A t \in Slot \ {s} : fences'[t] = fences[t]
  <2> DEFINE F == [Rid -> {"none", "pending", "fenced", "error"}]
  <2>1. fences \in [Slot -> F] /\ NoFences \in F BY <1>i, DownFacts, Zenon DEF TypeOK
  <2> HIDE DEF F
  <2>2. fences' \in [Slot -> F] /\ \A t \in Slot \ {s} : fences'[t] = fences[t] BY <1>u, <2>1, FunPut
  <2>3. QED BY <2>2, Zenon DEF F
<1>n. /\ seen' \in [Slot -> [Slot -> Block \cup {Unread}]] /\ seen'[s] = NoneSeen
      /\ \A t \in Slot \ {s} : seen'[t] = seen[t]
  <2> DEFINE F == [Slot -> Block \cup {Unread}]
  <2>1. seen \in [Slot -> F] /\ NoneSeen \in F BY <1>i, DownFacts, Zenon DEF TypeOK
  <2> HIDE DEF F
  <2>2. seen' \in [Slot -> F] /\ seen'[s] = NoneSeen /\ \A t \in Slot \ {s} : seen'[t] = seen[t]
        BY <1>u, <2>1, FunPut
  <2>3. QED BY <2>2, Zenon DEF F
<1>1. TypeOK' BY <1>i, <1>u, <1>s, <1>f, <1>n, Zenon DEF TypeOK
<1>2. server'[s].status = "down" /\ server'[s].phase = "idle" BY <1>s, DownFacts, Zenon
<1>3. FencesHold(s)'
  <2>1. server'[s].phase \notin {"wait", "serve"} /\ server'[s].phase # "serve" BY <1>2
  <2>2. QED BY <2>1, Zenon DEF FencesHold
<1>4. QED BY <1>i, <1>u, <1>s, <1>f, <1>n, <1>1, <1>2, <1>3, NoneSeenFacts, ServerKeeps, Zenon

\* Slots on which everything stops, while the other servers go on.
LEMMA StopsKeep ==
    ASSUME ElectionInv, NEW dead \in SUBSET Slot, Stops(dead),
           UNCHANGED <<net, block, lastRid>>, faults' \in 0..MaxFaults,
           fences' \in [Slot -> [Rid -> {"none", "pending", "fenced", "error"}]],
           \A t \in Slot \ dead : FencesHold(t)'
    PROVE  ElectionInv'
<1>i. TypeOK /\ RidsKept /\ StopsKept /\ \A t \in Slot : TermsKept(t) /\ FencesHold(t)
      BY Zenon DEF ElectionInv
<1>u. net' = net /\ block' = block /\ lastRid' = lastRid BY Zenon
<1>d. ASSUME NEW t \in dead
      PROVE  /\ mount'[t] = 0 /\ qst'[t] = NoQst /\ pc'[t] = "off" /\ server'[t] = ServerDown
             /\ seen'[t] = NoneSeen
      BY DEF Stops
<1>l. ASSUME NEW t \in Slot \ dead
      PROVE  /\ mount'[t] = mount[t] /\ qst'[t] = qst[t] /\ pc'[t] = pc[t] /\ server'[t] = server[t]
             /\ seen'[t] = seen[t]
      BY DEF Stops
<1>1. TypeOK'
  <2>1. 0 \in 0..MaxRid BY QuorumAssumption
  <2>2. mount' \in [Slot -> 0..MaxRid] BY Zenon, <1>i, <2>1 DEF TypeOK, Stops
  <2>3. qst' \in [Slot -> QuorumStatus] BY <1>i, DownFacts DEF TypeOK, Stops
  <2>4. pc' \in [Slot -> {"off", "recv", "term", "elect", "fence", "stop", "stopwait", "gone"}]
        BY <1>i DEF TypeOK, Stops
  <2>5. msg' \in [Slot -> Datagram \cup {NoMsg}] BY <1>i DEF TypeOK, Stops
  <2>6. shutdown' \in [Slot -> BOOLEAN] BY <1>i, Zenon DEF TypeOK, Stops
  <2>7. server' \in [Slot -> ServerInfo] BY <1>i, DownFacts DEF TypeOK, Stops
  <2>8. seen' \in [Slot -> [Slot -> Block \cup {Unread}]]
    <3> DEFINE F == [Slot -> Block \cup {Unread}]
    <3>1. seen \in [Slot -> F] /\ NoneSeen \in F BY <1>i, DownFacts, Zenon DEF TypeOK
    <3> HIDE DEF F
    <3>2. seen' \in [Slot -> F] BY Zenon, <3>1 DEF Stops
    <3>3. QED BY <3>2, Zenon DEF F
  <2>9. QED BY <1>i, <1>u, <2>2, <2>3, <2>4, <2>5, <2>6, <2>7, <2>8, Zenon DEF TypeOK
<1>2. RidsKept'
  <2>1. \A s, t \in Slot : mount'[s] <= lastRid /\ (mount'[s] = mount'[t] /\ mount'[s] # 0 => s = t)
    <3>1. lastRid \in Nat BY <1>i, QuorumAssumption DEF TypeOK
    <3>2. \A s \in Slot : mount'[s] = 0 \/ (mount'[s] = mount[s] /\ s \notin dead) BY <1>d, <1>l, ZenonT(60)
    <3>3. QED BY <1>i, <3>1, <3>2 DEF RidsKept
  <2>2. \A t, s \in Slot, e \in EventName : seen'[t][s][e].rid <= lastRid
    <3>1. SUFFICES ASSUME NEW t \in Slot, NEW s \in Slot, NEW e \in EventName
                   PROVE  seen'[t][s][e].rid <= lastRid
          OBVIOUS
    <3>2. CASE t \in dead BY <1>d, <1>i, <3>2, NoneSeenFacts, Zenon
    <3>3. CASE t \notin dead BY <1>l, <1>i, <3>3, Zenon DEF RidsKept
    <3>4. QED BY <3>2, <3>3
  <2>3. QED BY <1>i, <1>u, <2>1, <2>2 DEF RidsKept
<1>3. StopsKept'
  <2>1. SUFFICES ASSUME NEW t \in Slot, NEW s \in Slot
                 PROVE  seen'[t][s]["stop"].term <= block[s]["stop"].term
        BY <1>u, Zenon DEF StopsKept
  <2>2. CASE t \in dead BY <1>d, <1>i, <2>2, NoneSeenFacts, Zenon
  <2>3. CASE t \notin dead BY <1>l, <1>i, <2>3, Zenon DEF StopsKept
  <2>4. QED BY <2>2, <2>3
<1>4. ASSUME NEW t \in dead PROVE TermsKept(t)' /\ FencesHold(t)'
  <2>1. t \in Slot OBVIOUS
  <2>2. server'[t].status = "down" /\ server'[t].phase = "idle" BY <1>d, DownFacts, Zenon
  <2>3. server'[t].phase \notin {"wait", "serve"} /\ server'[t].phase # "serve" BY <2>2
  <2>4. FencesHold(t)' BY <2>3, Zenon DEF FencesHold
  <2>5. /\ qst'[t].server_start_term = 0 /\ qst'[t].term = 0 /\ qst'[t].role = "follower"
        /\ mount'[t] = 0 /\ pc'[t] = "off"
        BY <1>d, DownFacts, Zenon
  <2>6. TermsKept(t)' BY <2>2, <2>5 DEF TermsKept
  <2>7. QED BY <2>4, <2>6
<1>5. ASSUME NEW t \in Slot \ dead PROVE TermsKept(t)' /\ FencesHold(t)'
  <2>1. TermsKept(t)' BY <1>i, <1>u, <1>l, TermsFrame, Zenon
  <2>2. QED BY <2>1, Zenon
<1>6. QED BY <1>1, <1>2, <1>3, <1>4, <1>5, Zenon DEF ElectionInv

\* The agent fences a mount: nothing of it runs any more.
LEMMA AgentFencesInv ==
    ASSUME ElectionInv, NEW s \in Slot, NEW r \in Rid, AgentFences(s, r)
    PROVE  ElectionInv'
<1>i. TypeOK /\ \A t \in Slot : FencesHold(t) BY Zenon DEF ElectionInv
<1> DEFINE dead == {i \in Slot : mount[i] = r}
           fe == [fences[s] EXCEPT ![r] = "fenced"]
<1>u. /\ fences[s][r] = "pending" /\ Stops(dead)
      /\ fences' = [i \in Slot |-> IF i \in dead THEN NoFences ELSE IF i = s THEN fe ELSE fences[i]]
      /\ UNCHANGED <<net, block, lastRid>> /\ faults' = faults
      BY Zenon DEF AgentFences
<1>f. /\ fences[s] \in [Rid -> {"none", "pending", "fenced", "error"}]
      /\ fe \in [Rid -> {"none", "pending", "fenced", "error"}] /\ fe[r] = "fenced"
      /\ \A q \in Rid \ {r} : fe[q] = fences[s][q]
      BY <1>i DEF TypeOK
<1> HIDE DEF fe
<1>t. fences' \in [Slot -> [Rid -> {"none", "pending", "fenced", "error"}]]
  <2> DEFINE F == [Rid -> {"none", "pending", "fenced", "error"}]
  <2>1. fences \in [Slot -> F] /\ NoFences \in F /\ fe \in F BY <1>i, <1>f, DownFacts, Zenon DEF TypeOK
  <2> HIDE DEF F, dead
  <2>2. fences' \in [Slot -> F] BY <1>u, <2>1
  <2>3. QED BY <2>2, Zenon DEF F
<1>g. /\ dead \in SUBSET Slot /\ faults' \in 0..MaxFaults BY <1>i, <1>u DEF TypeOK
<1>1. ASSUME NEW t \in Slot \ dead PROVE FencesHold(t)'
  <2>1. mount'[t] = mount[t] /\ server'[t] = server[t] /\ seen'[t] = seen[t] BY <1>u DEF Stops
  <2>2. \A i \in Slot : mount'[i] # 0 => mount'[i] = mount[i] /\ mount[i] \in Rid /\ mount[i] # r
    <3>1. ASSUME NEW i \in Slot, mount'[i] # 0 PROVE i \notin dead /\ mount'[i] = mount[i]
          BY <1>u, <3>1 DEF Stops
    <3>2. QED BY <1>i, <3>1 DEF TypeOK, Rid
  <2>3. FencesHold(t) BY <1>i
  <2>4. CASE t # s
    <3>1. fences'[t] = fences[t] BY <1>u, <2>4
    <3>2. QED BY <2>1, <2>2, <2>3, <3>1, FencesFrame, ZenonT(60)
  <2>5. CASE t = s
    <3>1. fences'[s] = fe BY <1>u, <2>5
    <3>2. all_fenced(s) => all_fenced(s)'
      <4>1. (\E q \in Rid : fences[s][q] = "error") => \E q \in Rid : fe[q] = "error" BY <1>f, <1>u
      <4>2. ~ \A q \in Rid : fences[s][q] # "pending" BY <1>u, Zenon
      <4>3. QED BY <3>1, <4>1, <4>2, Zenon DEF all_fenced
    <3>3. \A i \in Slot : mount'[i] # 0 =>
              /\ mount'[i] = mount[i]
              /\ fences[s][mount[i]] \in {"pending", "error"} => fences'[s][mount[i]] \in {"pending", "error"}
          BY <1>f, <2>2, <3>1
    <3>4. server[s].phase = "serve" => all_fenced(s)' BY <2>3, <2>5, <3>2, Zenon DEF FencesHold
    <3>5. QED BY <2>1, <2>3, <2>5, <3>3, <3>4, FencesMove, Zenon
  <2>6. QED BY Zenon, <2>4, <2>5
<1> HIDE DEF dead
<1>2. QED BY <1>u, <1>t, <1>g, <1>1, StopsKeep, Zenon

\* All of one mount stops, and the requests of the others stay as they are.
LEMMA MountStops ==
    ASSUME ElectionInv, NEW s \in Slot, Stops({s}), UNCHANGED <<net, block, lastRid>>,
           faults' \in 0..MaxFaults,
           fences' \in [Slot -> [Rid -> {"none", "pending", "fenced", "error"}]],
           \A t \in Slot \ {s} : fences'[t] = fences[t]
    PROVE  ElectionInv'
<1>1. ASSUME NEW t \in Slot \ {s} PROVE FencesHold(t)'
  <2>1. FencesHold(t) BY Zenon DEF ElectionInv
  <2>2. mount'[t] = mount[t] /\ server'[t] = server[t] /\ seen'[t] = seen[t] BY Zenon DEF Stops
  <2>3. \A i \in Slot : mount'[i] # 0 => mount'[i] = mount[i] BY DEF Stops
  <2>4. QED BY <2>1, <2>2, <2>3, FencesFrame, Zenon
<1>2. {s} \in SUBSET Slot OBVIOUS
<1>3. QED BY <1>1, <1>2, StopsKeep, Zenon

\* The host of a mount stops.
LEMMA CrashInv ==
    ASSUME ElectionInv, NEW s \in Slot, Crash(s)
    PROVE  ElectionInv'
<1>i. TypeOK BY Zenon DEF ElectionInv
<1>u. /\ Stops({s}) /\ UNCHANGED <<net, block, lastRid>> /\ Counted
      /\ fences' = [fences EXCEPT ![s] = NoFences]
      BY Zenon DEF Crash, Fails
<1>1. faults' \in 0..MaxFaults BY <1>i, <1>u, CountedBound, Zenon
<1>2. /\ fences' \in [Slot -> [Rid -> {"none", "pending", "fenced", "error"}]]
      /\ \A t \in Slot \ {s} : fences'[t] = fences[t]
  <2> DEFINE F == [Rid -> {"none", "pending", "fenced", "error"}]
  <2>1. fences \in [Slot -> F] /\ NoFences \in F BY <1>i, DownFacts, Zenon DEF TypeOK
  <2> HIDE DEF F
  <2>2. fences' \in [Slot -> F] /\ \A t \in Slot \ {s} : fences'[t] = fences[t] BY <1>u, <2>1, FunPut
  <2>3. QED BY <2>2, Zenon DEF F
<1>3. QED BY <1>u, <1>1, <1>2, MountStops, Zenon

\* scoutfs_server_destroy() stops the server, and the mount is gone once it is down.
LEMMA DestroyInv ==
    ASSUME ElectionInv, NEW s \in Slot, Destroy(s)
    PROVE  ElectionInv'
<1>i. TypeOK BY Zenon DEF ElectionInv
<1>u. net' = net /\ block' = block /\ lastRid' = lastRid /\ fences' = fences /\ faults' = faults
      BY Zenon DEF Destroy
<1>f. /\ faults' \in 0..MaxFaults /\ fences' \in [Slot -> [Rid -> {"none", "pending", "fenced", "error"}]]
      BY <1>i, <1>u, Zenon DEF TypeOK
<1>1. CASE is_running(s) /\ server' = [server EXCEPT ![s] = stop_server(s)] /\ UNCHANGED <<mount, workerVars, seen>>
  <2>1. UNCHANGED <<net, block, mount, lastRid, workerVars, seen, fences>> BY <1>u, <1>1, Zenon DEF workerVars
  <2>2. QED BY <1>f, <1>1, <2>1, ServerStops, Zenon
<1>2. CASE Stops({s})
  <2>1. \A t \in Slot \ {s} : fences'[t] = fences[t] BY <1>u, Zenon
  <2>2. QED BY <1>u, <1>f, <1>2, <2>1, MountStops, Zenon
<1>3. QED BY <1>1, <1>2, Zenon DEF Destroy

\* A new mount begins in a term that is no older than the stop its block records, and
\* has an rid that no server has read.
LEMMA MountInv ==
    ASSUME ElectionInv, NEW s \in Slot, Mount(s), "read" \notin Fault
    PROVE  ElectionInv'
<1>i. TypeOK /\ RidsKept /\ StopsKept /\ \A t \in Slot : TermsKept(t) /\ FencesHold(t)
      BY Zenon DEF ElectionInv
<1>u. /\ mount[s] = 0 /\ lastRid < MaxRid /\ lastRid' = lastRid + 1
      /\ mount' = [mount EXCEPT ![s] = lastRid + 1] /\ pc' = [pc EXCEPT ![s] = "recv"]
      /\ net' = net /\ msg' = msg /\ shutdown' = shutdown /\ server' = server /\ seen' = seen /\ fences' = fences
      BY Zenon DEF Mount, serverVars
<1>t. PICK term \in Term :
         /\ faults' = faults /\ read_greatest_term(Slot, term)
         /\ qst' = [qst EXCEPT ![s] = [NoQst EXCEPT !.term = term]]
         /\ block' = [block EXCEPT ![s]["begin"] = [rid |-> lastRid + 1, term |-> term]]
  <2>1. ~ Fails("read") BY Zenon DEF Fails
  <2>2. QED BY <2>1, Zenon DEF Mount
<1>n. lastRid \in Nat /\ MaxRid \in Nat BY <1>i, QuorumAssumption DEF TypeOK
<1>e. "begin" \in EventName /\ "stop" \in EventName \ {"begin"} BY DEF EventName
<1> DEFINE ev == [rid |-> lastRid + 1, term |-> term]
           q == [NoQst EXCEPT !.term = term]
<1>v. ev \in Event /\ ev.rid = lastRid + 1 /\ lastRid + 1 \in 0..MaxRid BY <1>n, <1>u DEF Event
<1>b. /\ block' \in [Slot -> Block] /\ block'[s]["begin"] = ev
      /\ \A d \in EventName \ {"begin"} : block'[s][d] = block[s][d]
      /\ \A t \in Slot \ {s} : block'[t] = block[t]
  <2>1. block' = [block EXCEPT ![s]["begin"] = ev] BY <1>t, Zenon
  <2>2. block \in [Slot -> Block] BY <1>i, Zenon DEF TypeOK
  <2>3. ev \in Event BY <1>v, Zenon
  <2> HIDE DEF ev
  <2>4. "begin" \in EventName BY <1>e, Zenon
  <2>5. QED BY <2>1, <2>2, <2>3, <2>4 DEF Block
<1>q. q \in QuorumStatus /\ q.term = term /\ q.server_start_term = 0 /\ q.role = "follower"
      BY DownFacts DEF QuorumStatus
<1>z. qst' = [qst EXCEPT ![s] = q] BY <1>t, Zenon
<1> HIDE DEF ev, q
<1>w. /\ qst' \in [Slot -> QuorumStatus] /\ qst'[s] = q /\ \A t \in Slot \ {s} : qst'[t] = qst[t]
      BY <1>i, <1>z, <1>q, FunPut, ZenonT(60) DEF TypeOK
<1>m. /\ mount' \in [Slot -> 0..MaxRid] /\ mount'[s] = lastRid + 1 /\ \A t \in Slot \ {s} : mount'[t] = mount[t]
      BY <1>i, <1>u, <1>v, FunPut, Zenon DEF TypeOK
<1>p. /\ pc' \in [Slot -> {"off", "recv", "term", "elect", "fence", "stop", "stopwait", "gone"}]
      /\ pc'[s] = "recv" /\ \A t \in Slot \ {s} : pc'[t] = pc[t]
      BY <1>i, <1>u DEF TypeOK
<1>1. TypeOK'
  <2>1. lastRid' \in 0..MaxRid BY <1>u, <1>v, Zenon
  <2>2. QED BY <1>i, <1>u, <1>t, <1>b, <1>w, <1>m, <1>p, <2>1, Zenon DEF TypeOK
<1>2. RidsKept'
  <2>1. \A i, t \in Slot : mount'[i] <= lastRid' /\ (mount'[i] = mount'[t] /\ mount'[i] # 0 => i = t)
    <3>1. \A i \in Slot : mount[i] \in Nat /\ mount[i] <= lastRid BY <1>i, <1>n DEF TypeOK, RidsKept
    <3>2. \A i, t \in Slot : mount[i] = mount[t] /\ mount[i] # 0 => i = t BY <1>i, Zenon DEF RidsKept
    <3>3. QED BY <1>u, <1>n, <1>m, <3>1, <3>2
  <2>2. ASSUME NEW i \in Slot, NEW e \in EventName PROVE block'[i][e].rid <= lastRid'
    <3>1. block[i][e].rid <= lastRid BY <1>i, Zenon DEF RidsKept
    <3>2. block[i][e].rid \in Nat
      <4>1. block[i][e].rid \in 0..MaxRid BY <1>i, BlockNumbers, Zenon
      <4>2. QED BY <1>n, <4>1
    <3>3. CASE i = s /\ e = "begin" BY <1>b, <1>u, <1>v, <1>n, <3>3
    <3>4. CASE ~ (i = s /\ e = "begin")
      <4>1. block'[i][e] = block[i][e] BY <1>b, <3>4, Zenon
      <4>2. QED BY <1>u, <1>n, <3>1, <3>2, <4>1
    <3>5. QED BY <3>3, <3>4
  <2>3. ASSUME NEW t \in Slot, NEW i \in Slot, NEW e \in EventName PROVE seen'[t][i][e].rid <= lastRid'
    <3>1. seen[t][i][e].rid <= lastRid BY <1>i, Zenon DEF RidsKept
    <3>2. seen[t][i][e].rid \in Int BY <1>i, SeenNumbers, Zenon
    <3>3. seen'[t][i][e].rid = seen[t][i][e].rid BY <1>u, Zenon
    <3>4. QED BY <1>u, <1>n, <3>1, <3>2, <3>3
  <2>4. QED BY <2>1, <2>2, <2>3, Zenon DEF RidsKept
<1>s. \A t \in Slot : block'[t]["stop"] = block[t]["stop"] BY <1>b, <1>e, Zenon
<1>3. StopsKept' BY <1>i, <1>u, <1>s, Zenon DEF StopsKept
<1>d. server[s].status = "down" /\ server[s].phase = "idle" BY <1>i, <1>u, Zenon DEF TermsKept
<1>4. TermsKept(s)'
  <2>1. block'[s]["stop"].term <= term
    <3>1. \A i \in Slot, e \in EventName : block[i][e].term <= term
      <4>1. read_greatest_term(Slot, term) BY <1>t, Zenon
      <4>2. QED BY <4>1 DEF read_greatest_term
    <3>2. "stop" \in EventName BY <1>e, Zenon
    <3>3. block[s]["stop"].term <= term BY <3>1, <3>2, Zenon
    <3>4. QED BY <1>s, <3>3, Zenon
  <2>2. 0 <= term /\ ~ (0 > 0) BY QuorumAssumption DEF Term
  <2>3. /\ qst'[s].term = term /\ qst'[s].server_start_term = 0 /\ qst'[s].role = "follower" /\ pc'[s] = "recv"
        /\ server'[s].status = "down" /\ server'[s].phase = "idle"
        BY <1>u, <1>w, <1>q, <1>p, <1>d, Zenon
  <2>4. mount'[s] # 0 BY <1>m, <1>n
  <2>5. QED BY <2>1, <2>2, <2>3, <2>4 DEF TermsKept
<1>5. FencesHold(s)'
  <2>1. server'[s].phase \notin {"wait", "serve"} /\ server'[s].phase # "serve" BY <1>u, <1>d
  <2>2. QED BY <2>1, Zenon DEF FencesHold
<1>6. ASSUME NEW t \in Slot \ {s} PROVE TermsKept(t)' /\ FencesHold(t)'
  <2>i. TermsKept(t) /\ FencesHold(t) BY <1>i, Zenon
  <2>1. mount'[t] = mount[t] /\ pc'[t] = pc[t] /\ qst'[t] = qst[t] /\ server'[t] = server[t] /\ seen'[t] = seen[t]
        /\ fences'[t] = fences[t] /\ block'[t]["stop"].term = block[t]["stop"].term
        BY <1>u, <1>m, <1>p, <1>w, <1>s, Zenon
  <2>2. TermsKept(t)' BY <2>i, <2>1, TermsFrame, Zenon
  <2>3. ASSUME server'[t].phase \in {"wait", "serve"},
               NEW o \in ToFence(t, seen[t])', NEW i \in Slot,
               mount'[i] # 0, mount'[i] = seen'[t][o[1]][o[2]].rid
        PROVE  fences'[t][mount'[i]] \in {"pending", "error"}
    <3>1. o \in ToFence(t, seen[t]) BY <2>1, <2>3, ZenonT(60) DEF ToFence
    <3>2. o[1] \in Slot /\ o[2] \in EventName BY Zenon, <3>1 DEF ToFence, EventName
    <3>3. seen[t][o[1]][o[2]].rid <= lastRid BY <1>i, <3>2, Zenon DEF RidsKept
    <3>4. i # s
      <4>1. lastRid + 1 # seen[t][o[1]][o[2]].rid BY <1>n, <3>3
      <4>2. QED BY <1>m, <2>1, <2>3, <4>1, Zenon
    <3>5. mount'[i] = mount[i] BY <1>m, <3>4, Zenon
    <3>6. QED BY <2>i, <2>1, <2>3, <3>1, <3>5, Zenon DEF FencesHold
  <2>4. server'[t].phase = "serve" => all_fenced(t)' BY <2>i, <2>1, Zenon DEF FencesHold, all_fenced
  <2>5. FencesHold(t)' BY <2>3, <2>4, Zenon DEF FencesHold
  <2>6. QED BY <2>2, <2>5
<1>7. QED BY <1>1, <1>2, <1>3, <1>4, <1>5, <1>6, Zenon DEF ElectionInv

-----------------------------------------------------------------------------
(* The invariant. *)

\* Nothing has run on any slot at first.
LEMMA InitInv == Init => ElectionInv
<1> SUFFICES ASSUME Init PROVE ElectionInv
    OBVIOUS
<1>n. 0 \in Term /\ 0 \in 0..MaxRid /\ 0 \in 0..MaxFaults BY QuorumAssumption DEF Term
<1>b. /\ NoBlock \in Block /\ \A e \in EventName : NoBlock[e].rid = 0 /\ NoBlock[e].term = 0
      BY <1>n DEF NoBlock, Block, Event
<1>1. TypeOK
  <2>1. net \subseteq Datagram /\ block \in [Slot -> Block] /\ mount \in [Slot -> 0..MaxRid] /\ lastRid \in 0..MaxRid
        BY Zenon, <1>n, <1>b DEF Init
  <2>2. qst \in [Slot -> QuorumStatus] /\ server \in [Slot -> ServerInfo] BY DownFacts DEF Init
  <2>3. pc \in [Slot -> {"off", "recv", "term", "elect", "fence", "stop", "stopwait", "gone"}] BY DEF Init
  <2>4. msg \in [Slot -> Datagram \cup {NoMsg}] /\ shutdown \in [Slot -> BOOLEAN] BY DEF Init
  <2>5. seen \in [Slot -> [Slot -> Block \cup {Unread}]]
    <3> DEFINE F == [Slot -> Block \cup {Unread}]
    <3>1. NoneSeen \in F BY DownFacts, Zenon
    <3> HIDE DEF F
    <3>2. seen \in [Slot -> F] BY <3>1 DEF Init
    <3>3. QED BY <3>2, Zenon DEF F
  <2>6. fences \in [Slot -> [Rid -> {"none", "pending", "fenced", "error"}]]
    <3> DEFINE F == [Rid -> {"none", "pending", "fenced", "error"}]
    <3>1. NoFences \in F BY DownFacts, Zenon
    <3> HIDE DEF F
    <3>2. fences \in [Slot -> F] BY <3>1 DEF Init
    <3>3. QED BY <3>2, Zenon DEF F
  <2>7. faults \in 0..MaxFaults BY <1>n DEF Init
  <2>8. QED BY <2>1, <2>2, <2>3, <2>4, <2>5, <2>6, <2>7, Zenon DEF TypeOK
<1>s. ASSUME NEW s \in Slot
      PROVE  /\ mount[s] = 0 /\ qst[s] = NoQst /\ pc[s] = "off" /\ server[s] = ServerDown
             /\ seen[s] = NoneSeen /\ block[s] = NoBlock
      BY Zenon DEF Init
<1>2. RidsKept
  <2>1. lastRid = 0 BY DEF Init
  <2>2. \A s \in Slot : mount[s] = 0 BY <1>s, Zenon
  <2>3. \A s \in Slot, e \in EventName : block[s][e].rid = 0 BY <1>s, <1>b, Zenon
  <2>4. \A t, s \in Slot, e \in EventName : seen[t][s][e].rid <= 0 BY <1>s DEF NoneSeen, Unread
  <2>5. QED BY <2>1, <2>2, <2>3, <2>4 DEF RidsKept
<1>3. StopsKept BY <1>s, <1>1, NoneSeenFacts, Zenon DEF StopsKept
<1>4. ASSUME NEW s \in Slot PROVE TermsKept(s) /\ FencesHold(s)
  <2>1. /\ qst[s].server_start_term = 0 /\ qst[s].term = 0 /\ qst[s].role = "follower" /\ mount[s] = 0
        /\ pc[s] = "off" /\ server[s].status = "down" /\ server[s].phase = "idle"
        BY <1>s, DownFacts, Zenon
  <2>2. TermsKept(s) BY <2>1 DEF TermsKept
  <2>3. server[s].phase \notin {"wait", "serve"} /\ server[s].phase # "serve" BY <2>1
  <2>4. FencesHold(s) BY <2>3, Zenon DEF FencesHold
  <2>5. QED BY <2>2, <2>4
<1>5. QED BY <1>1, <1>2, <1>3, <1>4, Zenon DEF ElectionInv

\* Steps that leave everything as it was keep the invariant.
LEMMA StutterInv ==
    ASSUME ElectionInv, UNCHANGED vars
    PROVE  ElectionInv'
<1>u. /\ net' = net /\ block' = block /\ mount' = mount /\ lastRid' = lastRid /\ qst' = qst /\ pc' = pc
      /\ msg' = msg /\ shutdown' = shutdown /\ server' = server /\ seen' = seen /\ fences' = fences
      /\ faults' = faults
      BY Zenon DEF vars, workerVars, serverVars
<1>1. TypeOK' /\ RidsKept' /\ StopsKept' BY <1>u, Zenon DEF ElectionInv, TypeOK, RidsKept, StopsKept
<1>2. ASSUME NEW s \in Slot PROVE TermsKept(s)' /\ FencesHold(s)'
  <2>1. TermsKept(s) /\ FencesHold(s) BY Zenon DEF ElectionInv
  <2>2. QED BY <1>u, <2>1, TermsFrame, FencesFrame, Zenon
<1>3. QED BY <1>1, <1>2, Zenon DEF ElectionInv

\* Every step keeps the invariant when no mount skips a block that it can't read.
LEMMA NextInv ==
    ASSUME ElectionInv, [Next]_vars, "read" \notin Fault
    PROVE  ElectionInv'
<1>1. CASE UNCHANGED vars BY <1>1, StutterInv, Zenon
<1>2. ASSUME NEW s \in Slot, WorkerStep(s) PROVE ElectionInv' BY <1>2, WorkerStepInv, Zenon
<1>3. ASSUME NEW s \in Slot, ServerStep(s) PROVE ElectionInv'
      BY <1>3, FenceLeadersInv, ReclaimInv, ServerUpInv, FenceTimesOutInv, ServerDownInv, Zenon DEF ServerStep
<1>4. ASSUME NEW s \in Slot, Mount(s) \/ Unmount(s) \/ Destroy(s) PROVE ElectionInv'
      BY <1>4, MountInv, UnmountInv, DestroyInv, Zenon
<1>5. ASSUME NEW s \in Slot, Crash(s) \/ WorkerFails(s) \/ ServerFails(s) PROVE ElectionInv'
      BY <1>5, CrashInv, WorkerFailsInv, ServerFailsInv, Zenon
<1>6. ASSUME NEW s \in Slot, NEW r \in Rid, AgentFences(s, r) \/ AgentFails(s, r) PROVE ElectionInv'
      BY <1>6, AgentFencesInv, AgentFailsInv, Zenon
<1>7. QED BY <1>1, <1>2, <1>3, <1>4, <1>5, <1>6, Zenon DEF Next

\* The invariant says what the servers that run have fenced.
LEMMA InvFences == ElectionInv => FencesWhatItReads
<1> SUFFICES ASSUME ElectionInv, NEW s \in Slot, NEW t \in Slot, Serving(s), Serving(t), s # t,
                    seen[t][s]["elect"] = [rid |-> mount[s], term |-> server[s].term],
                    ~ (server[s].term > server[t].term),
                    ~ \E i \in Slot : seen[t][i]["fence"].term > server[s].term
             PROVE  \E r \in Rid : fences[t][r] = "error"
    BY Zenon DEF FencesWhatItReads
<1>i. TypeOK /\ RidsKept /\ StopsKept /\ TermsKept(s) /\ FencesHold(t) BY Zenon DEF ElectionInv
<1>p. mount[s] # 0 /\ server[s].phase = "serve" /\ mount[t] # 0 /\ server[t].phase = "serve" BY Zenon DEF Serving
<1>n. server[s].term \in Nat /\ server[t].term \in Nat /\ block[s]["stop"].term \in Nat
      BY <1>i, WorkerNumbers, Zenon
<1>e. "stop" \in EventName /\ "fence" \in EventName BY DEF EventName
<1>1. block[s]["stop"].term < server[s].term
  <2>1. server[s].status # "down" BY <1>i, <1>p DEF TermsKept
  <2>2. QED BY <1>i, <2>1, Zenon DEF TermsKept
<1>2. seen[t][s]["stop"].term <= block[s]["stop"].term BY <1>i, Zenon DEF StopsKept
<1>3. seen[t][s]["stop"].term \in Nat BY <1>i, <1>e, SeenNumbers, Zenon
<1>4. seen[t][s]["elect"].term = server[s].term /\ seen[t][s]["elect"].rid = mount[s] OBVIOUS
<1>5. seen[t][s]["elect"].term > seen[t][s]["stop"].term BY <1>n, <1>1, <1>2, <1>3, <1>4
<1>6. "elect" \in OldLeaders(seen[t][s]) BY Zenon, <1>5 DEF OldLeaders
<1>7. seen[t][s]["elect"].term # 0 BY <1>n, <1>3, <1>4, <1>5
<1>8. \A j \in Slot : seen[t][j]["fence"].term <= seen[t][s]["elect"].term
  <2>1. ASSUME NEW j \in Slot PROVE seen[t][j]["fence"].term <= server[s].term
    <3>1. seen[t][j]["fence"].term \in Nat BY <1>i, <1>e, SeenNumbers, Zenon
    <3>2. ~ (seen[t][j]["fence"].term > server[s].term) BY Zenon
    <3>3. QED BY <1>n, <3>1, <3>2
  <2>2. QED BY <1>4, <2>1, Zenon
<1>9. seen[t][s]["elect"].term <= server[t].term
  <2>1. server[s].term <= server[t].term BY <1>n
  <2>2. QED BY <1>4, <2>1, Zenon
<1>10. seen[t][s]["elect"].rid # mount[t] BY <1>i, <1>p, <1>4, Zenon DEF RidsKept
<1> DEFINE o == <<s, "elect">>
<1>11. o \in Slot \X {"elect", "fence"} /\ o[1] = s /\ o[2] = "elect" OBVIOUS
<1> HIDE DEF o
<1>12. o \in ToFence(t, seen[t]) BY <1>6, <1>7, <1>8, <1>9, <1>10, <1>11, Zenon DEF ToFence
<1>13. fences[t][mount[s]] \in {"pending", "error"} BY <1>i, <1>p, <1>4, <1>11, <1>12, ZenonT(60) DEF FencesHold
<1>14. mount[s] \in Rid BY <1>i, <1>p DEF TypeOK, Rid
<1>15. all_fenced(t) BY <1>i, <1>p, Zenon DEF FencesHold
<1>16. QED BY <1>13, <1>14, <1>15, Zenon DEF all_fenced

\* Terms and fence requests stay in order for any number of members, terms and mounts, whatever
\* crashes, block writes, servers and agents fail, as long as scoutfs_quorum_setup() reads all
\* of the quorum blocks.
THEOREM ElectionInvariant == ASSUME "read" \notin Fault PROVE Spec => []ElectionInv
<1>1. Init => ElectionInv BY InitInv
<1>2. ElectionInv /\ [Next]_vars => ElectionInv' BY NextInv
<1>3. QED BY <1>1, <1>2, PTL DEF Spec

\* A server never runs beside a leader whose election it read in fence_leaders(), unless it also
\* read that a newer leader had fenced since or its agent failed, as long as
\* scoutfs_quorum_setup() reads all of the quorum blocks.
THEOREM LeadersFenced == ASSUME "read" \notin Fault PROVE Spec => []FencesWhatItReads
<1>1. Init => ElectionInv BY InitInv
<1>2. ElectionInv /\ [Next]_vars => ElectionInv' BY NextInv
<1>3. ElectionInv => FencesWhatItReads BY InvFences
<1>4. QED BY <1>1, <1>2, <1>3, PTL DEF Spec

=============================================================================
