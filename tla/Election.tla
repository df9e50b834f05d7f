------------------------------- MODULE Election -------------------------------
(***************************************************************************)
(* The election of the server and the fencing of earlier servers: the      *)
(* quorum worker of each member mount (quorum.c), the part of the server   *)
(* worker that starts and stops a server (server.c) and the fence requests *)
(* that the server makes of its userspace agent (fence.c).                 *)
(*                                                                         *)
(* A member is the mount on a quorum slot.  Mounts come and go on a slot;  *)
(* each has an rid of its own.  Datagrams are never taken out of net, so a *)
(* datagram may be lost, delayed, duplicated and reordered, and be         *)
(* received by a later mount of the slot it was sent to.                   *)
(*                                                                         *)
(* One iteration of the worker is cut where it writes its quorum block,    *)
(* because a mount can stop or be delayed there.  Time is abstract: a      *)
(* timeout can pass in any iteration that did not just reset it.           *)
(***************************************************************************)
EXTENDS Integers, FiniteSets

CONSTANTS
    Slot,                \* the slots present in the quorum config
    None,                \* the -1 of vote_for
    Standers,            \* the slots whose election timeouts can pass
    Leavers,             \* the slots whose mounts may unmount
    Fault,               \* the kinds of failure that can happen
    MaxTerm,             \* bound on the terms that members stand in
    MaxRid,              \* bound on the number of mounts
    MaxFaults            \* bound on the number of failures and unmounts

ASSUME QuorumAssumption ==
    /\ IsFiniteSet(Slot)
    /\ None \notin Slot
    /\ Standers \subseteq Slot
    /\ Leavers \subseteq Slot
    /\ Fault \subseteq {"crash", "read", "io", "agent", "server"}
    /\ MaxTerm \in Nat /\ MaxRid \in Nat /\ MaxFaults \in Nat

VARIABLES
    net,                 \* the datagrams sent so far
    block,               \* the events in the quorum block of each slot
    mount,               \* the rid of the mount on each slot, 0 if none
    lastRid,             \* the rid of the newest mount
    qst,                 \* the worker's struct quorum_status
    pc,                  \* where the worker is
    msg,                 \* the message of the worker's iteration
    shutdown,            \* qinf->shutdown
    server,              \* the server's status, term and progress
    seen,                \* the quorum blocks read by fence_leaders()
    fences,              \* the server's pending fence requests by rid
    faults               \* the number of failures and unmounts so far

workerVars == <<qst, pc, msg, shutdown>>
serverVars == <<server, seen, fences>>
vars == <<net, block, mount, lastRid, workerVars, serverVars, faults>>

Rid == 1..MaxRid
Term == 0..MaxTerm
EventName == {"begin", "term", "elect", "fence", "stop", "end"}
Event == [rid : 0..MaxRid, term : Term]
Block == [EventName -> Event]
QuorumStatus == [role : {"follower", "candidate", "leader"},
                 term : Term,
                 server_start_term : Term,
                 server_event : {"none", "elect", "fence"},
                 vote_for : Slot \cup {None},
                 vote_bits : SUBSET Slot]
ServerInfo == [status : {"down", "starting", "up", "stopping"},
               phase : {"idle", "read", "wait", "serve", "end"},
               term : Term]
Datagram == [type : {"request_vote", "vote", "heartbeat", "resignation"},
             term : Term, from : Slot, to : Slot]

\* SCOUTFS_QUORUM_MSG_INVALID: no message, or one that is ignored.
NoMsg == [type |-> "invalid", term |-> 0, from |-> None, to |-> None]

NoBlock == [e \in EventName |-> [rid |-> 0, term |-> 0]]

NoFences == [r \in Rid |-> "none"]

\* A quorum block that fence_leaders() has yet to read.
Unread == [e \in EventName |-> [rid |-> -1, term |-> 0]]

NoneSeen == [i \in Slot |-> Unread]

ServerDown == [status |-> "down", phase |-> "idle", term |-> 0]

NoQst == [role |-> "follower", term |-> 0, server_start_term |-> 0,
          server_event |-> "none", vote_for |-> None, vote_bits |-> {}]

TypeOK ==
    /\ net \subseteq Datagram
    /\ block \in [Slot -> Block]
    /\ mount \in [Slot -> 0..MaxRid]
    /\ lastRid \in 0..MaxRid
    /\ qst \in [Slot -> QuorumStatus]
    /\ pc \in [Slot -> {"off", "recv", "term", "elect", "fence", "stop", "stopwait", "gone"}]
    /\ msg \in [Slot -> Datagram \cup {NoMsg}]
    /\ shutdown \in [Slot -> BOOLEAN]
    /\ server \in [Slot -> ServerInfo]
    /\ seen \in [Slot -> [Slot -> Block \cup {Unread}]]
    /\ fences \in [Slot -> [Rid -> {"none", "pending", "fenced", "error"}]]
    /\ faults \in 0..MaxFaults

Init ==
    /\ net = {}
    /\ block = [s \in Slot |-> NoBlock]
    /\ mount = [s \in Slot |-> 0]
    /\ lastRid = 0
    /\ qst = [s \in Slot |-> NoQst]
    /\ pc = [s \in Slot |-> "off"]
    /\ msg = [s \in Slot |-> NoMsg]
    /\ shutdown = [s \in Slot |-> FALSE]
    /\ server = [s \in Slot |-> ServerDown]
    /\ seen = [s \in Slot |-> NoneSeen]
    /\ fences = [s \in Slot |-> NoFences]
    /\ faults = 0

-----------------------------------------------------------------------------
(* Helpers of the worker. *)

\* verify_quorum_slots(): a majority, except with 1 or 2 members.
votes_needed == IF Cardinality(Slot) < 3 THEN 1 ELSE Cardinality(Slot) \div 2 + 1

\* send_msg_others()
send_msg_others(s, type, term) ==
    {[type |-> type, term |-> term, from |-> s, to |-> i] : i \in Slot \ {s}}

\* update_quorum_block(): set one event of the slot's own block.
update_quorum_block(s, event, term) ==
    block' = [block EXCEPT ![s][event] = [rid |-> mount[s], term |-> term]]

\* read_greatest_term(): this is the greatest term of the events that were set in
\* the blocks read.
read_greatest_term(blocks, term) ==
    /\ term \in {0} \cup {block[i][e].term : i \in blocks, e \in EventName}
    /\ \A i \in blocks, e \in EventName : block[i][e].term <= term

\* scoutfs_server_is_running()
is_running(s) == server[s].status \in {"starting", "up"}

\* stop_server()
stop_server(s) ==
    IF is_running(s) THEN [server[s] EXCEPT !.status = "stopping"] ELSE server[s]

\* One of the failures and unmounts that the instance has room for.
Counted ==
    /\ faults < MaxFaults
    /\ faults' = faults + 1

\* A failure of one of the kinds the instance allows.
Fails(kind) == kind \in Fault /\ Counted

\* Nothing of the mounts on these slots runs any more.
Stops(dead) ==
    /\ mount' = [s \in Slot |-> IF s \in dead THEN 0 ELSE mount[s]]
    /\ qst' = [s \in Slot |-> IF s \in dead THEN NoQst ELSE qst[s]]
    /\ pc' = [s \in Slot |-> IF s \in dead THEN "off" ELSE pc[s]]
    /\ msg' = [s \in Slot |-> IF s \in dead THEN NoMsg ELSE msg[s]]
    /\ shutdown' = [s \in Slot |-> IF s \in dead THEN FALSE ELSE shutdown[s]]
    /\ server' = [s \in Slot |-> IF s \in dead THEN ServerDown ELSE server[s]]
    /\ seen' = [s \in Slot |-> IF s \in dead THEN NoneSeen ELSE seen[s]]

-----------------------------------------------------------------------------
(* Mounts. *)

\* scoutfs_quorum_setup() and the start of the worker: begin in the greatest
\* term found in the blocks.  A block that can't be read is skipped.
Mount(s) ==
    /\ mount[s] = 0
    /\ lastRid < MaxRid
    /\ lastRid' = lastRid + 1
    /\ mount' = [mount EXCEPT ![s] = lastRid + 1]
    /\ \E blocks \in SUBSET Slot, term \in Term :
          /\ IF blocks = Slot THEN UNCHANGED faults ELSE Fails("read")
          /\ read_greatest_term(blocks, term)
          /\ qst' = [qst EXCEPT ![s] = [NoQst EXCEPT !.term = term]]
          /\ block' = [block EXCEPT ![s]["begin"] = [rid |-> lastRid + 1, term |-> term]]
    /\ pc' = [pc EXCEPT ![s] = "recv"]
    /\ UNCHANGED <<net, msg, shutdown, serverVars>>

\* The mount or its host stops without warning.
Crash(s) ==
    /\ mount[s] # 0
    /\ Fails("crash")
    /\ Stops({s})
    /\ fences' = [fences EXCEPT ![s] = NoFences]
    /\ UNCHANGED <<net, block, lastRid>>

\* scoutfs_quorum_destroy() asks the worker to leave its loop.
Unmount(s) ==
    /\ s \in Leavers
    /\ mount[s] # 0
    /\ ~ shutdown[s]
    /\ Counted
    /\ shutdown' = [shutdown EXCEPT ![s] = TRUE]
    /\ UNCHANGED <<net, block, mount, lastRid, qst, pc, msg, serverVars>>

\* scoutfs_server_destroy() after the worker is gone: stop the server, wait
\* for it to finish, and the mount is gone.
Destroy(s) ==
    /\ shutdown[s]
    /\ pc[s] = "gone"
    /\ \/ /\ is_running(s)
          /\ server' = [server EXCEPT ![s] = stop_server(s)]
          /\ UNCHANGED <<mount, workerVars, seen>>
       \/ /\ server[s].status = "down"
          /\ Stops({s})
    /\ UNCHANGED <<net, block, lastRid, fences, faults>>

-----------------------------------------------------------------------------
(* The worker, scoutfs_quorum_worker(). *)

\* The worker can run another iteration of its loop.
Loops(s) == pc[s] = "recv" /\ ~ shutdown[s]

\* What recv_msg() can return of the messages that aren't ignored because
\* their term is older.  Heartbeats and resignations of the current term are
\* left out: all they do is set a timeout.
Received(s) ==
    {NoMsg} \cup {m \in net : /\ m.to = s
                              /\ \/ m.term > qst[s].term
                                 \/ /\ m.term = qst[s].term
                                    /\ m.type \in {"vote", "request_vote"}}

\* Candidates count votes in their term.
CountVote(q, m) ==
    IF q.role = "candidate" /\ m.type = "vote"
    THEN [q EXCEPT !.vote_bits = q.vote_bits \cup {m.from}]
    ELSE q

\* A candidate has enough votes.
Wins(q) == q.role = "candidate" /\ Cardinality(q.vote_bits) >= votes_needed

\* The leader's server came up since the last iteration.
FenceDue(s, q) ==
    /\ q.role = "leader"
    /\ q.server_event # "fence"
    /\ server[s].status = "up"

\* Seeded bug: only a leader notices that its server has stopped.
LeaderStopDue(s, q) ==
    q.role = "leader" /\ q.server_start_term > 0 /\ server[s].status = "down"

\* A server that the worker started has stopped.
StopDue(s, q) == q.server_start_term > 0 /\ server[s].status = "down"

\* The status after the worker has seen that its server stopped.
Resigned(q) ==
    IF q.role = "leader"
    THEN [q EXCEPT !.role = "follower", !.vote_for = None, !.vote_bits = {}]
    ELSE q

\* The message to the other members after the server stopped.
Resignation(s, q) ==
    IF q.role = "leader"
    THEN send_msg_others(s, "resignation", q.server_start_term)
    ELSE {}

\* Followers vote once per term.
Votes(q, m) ==
    /\ q.role = "follower"
    /\ m.type = "request_vote"
    /\ q.vote_for = None

\* The end of an iteration: vote, and go back to the top of the loop.  A
\* leader's regular heartbeats repeat the one it sent when it was elected.
EndIteration(s, q, m) ==
    /\ IF Votes(q, m)
       THEN /\ qst' = [qst EXCEPT ![s] = [q EXCEPT !.vote_for = m.from]]
            /\ net' = net \cup {[type |-> "vote", term |-> q.term, from |-> s, to |-> m.from]}
       ELSE /\ qst' = [qst EXCEPT ![s] = q]
            /\ UNCHANGED net
    /\ msg' = [msg EXCEPT ![s] = NoMsg]
    /\ pc' = [pc EXCEPT ![s] = "recv"]

\* Seeded bug: a server is only stopped by a leader in another term.
FollowAsLeader(s, q) ==
    server' = IF q.role # "leader" \/ q.term = q.server_start_term
              THEN server
              ELSE [server EXCEPT ![s] = stop_server(s)]

\* Stop a running server if its mount isn't the leader in its term any more.
FollowServer(s, q) ==
    server' = IF q.role = "leader" /\ q.term = q.server_start_term
              THEN server
              ELSE [server EXCEPT ![s] = stop_server(s)]

\* The rest of an iteration, after the term: count a vote, become leader with
\* enough of them, follow the server, vote.  It runs up to the next write of
\* the block, if one is due.
Continue(s, q0, m) ==
    LET q == CountVote(q0, m) IN
    \/ /\ Wins(q)
       /\ qst' = [qst EXCEPT ![s] = [q EXCEPT !.role = "leader"]]
       /\ net' = net \cup send_msg_others(s, "heartbeat", q.term)
       /\ pc' = [pc EXCEPT ![s] = "elect"]
       /\ msg' = [msg EXCEPT ![s] = NoMsg]
       /\ UNCHANGED server
    \/ /\ ~ Wins(q)
       /\ FenceDue(s, q)
       /\ qst' = [qst EXCEPT ![s] = q]
       /\ pc' = [pc EXCEPT ![s] = "fence"]
       /\ msg' = [msg EXCEPT ![s] = NoMsg]
       /\ UNCHANGED <<net, server>>
    \/ /\ ~ Wins(q)
       /\ StopDue(s, q)
       /\ qst' = [qst EXCEPT ![s] = Resigned(q)]
       /\ net' = net \cup Resignation(s, q)
       /\ pc' = [pc EXCEPT ![s] = "stop"]
       /\ msg' = [msg EXCEPT ![s] = m]
       /\ UNCHANGED server
    \/ /\ ~ Wins(q)
       /\ ~ FenceDue(s, q)
       /\ ~ StopDue(s, q)
       /\ FollowServer(s, q)
       /\ EndIteration(s, q, m)

\* A message of a greater term: become a follower in that term, which is
\* stored next.
RecvNewer(s, m) ==
    /\ Loops(s)
    /\ m.term > qst[s].term
    /\ qst' = [qst EXCEPT ![s] = [qst[s] EXCEPT !.role = "follower",
                                                !.term = m.term,
                                                !.vote_for = None,
                                                !.vote_bits = {}]]
    /\ pc' = [pc EXCEPT ![s] = "term"]
    /\ msg' = [msg EXCEPT ![s] = m]
    /\ UNCHANGED <<net, block, mount, lastRid, shutdown, serverVars, faults>>

\* The timeout has passed and the mount's server is down: stand for election
\* in a new term, which is sent first and then stored.
StandForElection(s, m) ==
    /\ Loops(s)
    /\ m.term <= qst[s].term
    /\ s \in Standers
    /\ qst[s].role # "leader"
    /\ server[s].status = "down"
    /\ qst[s].term < MaxTerm
    /\ qst' = [qst EXCEPT ![s] = [qst[s] EXCEPT !.role = "candidate",
                                                !.term = qst[s].term + 1,
                                                !.vote_for = None,
                                                !.vote_bits = {s}]]
    /\ net' = net \cup send_msg_others(s, "request_vote", qst[s].term + 1)
    /\ pc' = [pc EXCEPT ![s] = "term"]
    /\ msg' = [msg EXCEPT ![s] = m]
    /\ UNCHANGED <<block, mount, lastRid, shutdown, serverVars, faults>>

\* Store the increased term and go on with the iteration.
StoreTerm(s) ==
    /\ pc[s] = "term"
    /\ update_quorum_block(s, "term", qst[s].term)
    /\ Continue(s, qst[s], msg[s])
    /\ UNCHANGED <<mount, lastRid, shutdown, seen, fences, faults>>

\* An iteration that leaves the term as it was.
RecvSame(s, m) ==
    /\ Loops(s)
    /\ m.term <= qst[s].term
    /\ Continue(s, qst[s], m)
    /\ UNCHANGED <<block, mount, lastRid, shutdown, seen, fences, faults>>

\* Record the election, then start the server.  Nothing else of the iteration
\* is left for a leader whose server is starting.
WriteElect(s) ==
    /\ pc[s] = "elect"
    /\ update_quorum_block(s, "elect", qst[s].term)
    /\ qst' = [qst EXCEPT ![s] = [qst[s] EXCEPT !.server_start_term = qst[s].term,
                                                !.server_event = "elect"]]
    /\ server' = IF server[s].status = "down"
                 THEN [server EXCEPT ![s] = [status |-> "starting", phase |-> "read",
                                             term |-> qst[s].term]]
                 ELSE server
    /\ pc' = [pc EXCEPT ![s] = "recv"]
    /\ UNCHANGED <<net, mount, lastRid, msg, shutdown, seen, fences, faults>>

\* Record that the leader's server has fenced the servers before it.
WriteFence(s) ==
    /\ pc[s] = "fence"
    /\ update_quorum_block(s, "fence", qst[s].term)
    /\ qst' = [qst EXCEPT ![s].server_event = "fence"]
    /\ pc' = [pc EXCEPT ![s] = "recv"]
    /\ UNCHANGED <<net, mount, lastRid, msg, shutdown, serverVars, faults>>

\* Record that the server has stopped.
WriteStop(s) ==
    /\ pc[s] = "stop"
    /\ update_quorum_block(s, "stop", qst[s].server_start_term)
    /\ EndIteration(s, [qst[s] EXCEPT !.server_start_term = 0], msg[s])
    /\ UNCHANGED <<mount, lastRid, shutdown, serverVars, faults>>

\* A read or write of the quorum block fails: the worker gives up at once.
WorkerFails(s) ==
    /\ pc[s] \in {"term", "elect", "fence", "stop"}
    /\ Fails("io")
    /\ pc' = [pc EXCEPT ![s] = "gone"]
    /\ msg' = [msg EXCEPT ![s] = NoMsg]
    /\ UNCHANGED <<net, block, mount, lastRid, qst, shutdown, serverVars>>

\* The worker leaves its loop and stops a running server.
LeaveLoop(s) ==
    /\ pc[s] = "recv"
    /\ shutdown[s]
    /\ \/ /\ is_running(s)
          /\ server' = [server EXCEPT ![s] = stop_server(s)]
          /\ pc' = [pc EXCEPT ![s] = "stopwait"]
          /\ UNCHANGED block
       \/ /\ ~ is_running(s)
          /\ update_quorum_block(s, "end", qst[s].term)
          /\ pc' = [pc EXCEPT ![s] = "gone"]
          /\ UNCHANGED server
    /\ UNCHANGED <<net, mount, lastRid, qst, msg, shutdown, seen, fences, faults>>

\* The server that the leaving worker stopped is down.
LeaveStopped(s) ==
    /\ pc[s] = "stopwait"
    /\ server[s].status = "down"
    /\ net' = net \cup send_msg_others(s, "resignation", qst[s].term)
    /\ block' = [block EXCEPT ![s]["stop"] =
                                    IF qst[s].server_start_term > 0
                                    THEN [rid |-> mount[s], term |-> qst[s].server_start_term]
                                    ELSE block[s]["stop"],
                              ![s]["end"] = [rid |-> mount[s], term |-> qst[s].term]]
    /\ pc' = [pc EXCEPT ![s] = "gone"]
    /\ UNCHANGED <<mount, lastRid, qst, msg, shutdown, serverVars, faults>>

-----------------------------------------------------------------------------
(* The server and its fence requests. *)

\* The records of leaders that may still be running in a block that was read.
OldLeaders(blk) ==
    {e \in {"elect", "fence"} :
        /\ blk[e].term > blk["stop"].term
        /\ e = "fence" => blk["fence"].term < blk["elect"].term}

\* Seeded bug: a leader of the same term is taken for a newer one.
ToFenceOlder(s, blocks) ==
    {o \in Slot \X {"elect", "fence"} :
        LET ev == blocks[o[1]][o[2]] IN
        /\ o[2] \in OldLeaders(blocks[o[1]])
        /\ \A j \in Slot : blocks[j]["fence"].term <= ev.term
        /\ ev.term < server[s].term
        /\ ev.rid # mount[s]}

\* The records of old leaders that fence_leaders() fences.
ToFence(s, blocks) ==
    {o \in Slot \X {"elect", "fence"} :
        LET ev == blocks[o[1]][o[2]] IN
        /\ o[2] \in OldLeaders(blocks[o[1]])
        /\ ev.term # 0
        /\ \A j \in Slot : blocks[j]["fence"].term <= ev.term
        /\ ev.term <= server[s].term
        /\ ev.rid # mount[s]}

\* fence_leaders(): read the next block; after the last one start a fence
\* request for each old leader.  A second request for an rid fails, because
\* its sysfs directory is there, and the server gives up.
fence_leaders(s, i) ==
    /\ server[s].phase = "read"
    /\ seen[s][i] = Unread
    /\ LET blocks == [seen[s] EXCEPT ![i] = block[i]]
           old == ToFence(s, blocks)
           rids == {blocks[o[1]][o[2]].rid : o \in old}
       IN /\ seen' = [seen EXCEPT ![s] = blocks]
          /\ IF \E j \in Slot : blocks[j] = Unread
             THEN UNCHANGED <<server, fences>>
             ELSE
               /\ fences' = [fences EXCEPT ![s] =
                                [r \in Rid |-> IF r \in rids THEN "pending" ELSE "none"]]
               /\ server' = [server EXCEPT ![s].phase =
                                IF Cardinality(rids) = Cardinality(old) THEN "wait" ELSE "end"]
    /\ UNCHANGED <<net, block, mount, lastRid, workerVars, faults>>

\* The agent makes sure that the mount can't write any more, then says so.
AgentFences(s, r) ==
    /\ fences[s][r] = "pending"
    /\ LET dead == {i \in Slot : mount[i] = r} IN
       /\ Stops(dead)
       /\ fences' = [i \in Slot |-> IF i \in dead THEN NoFences
                                    ELSE IF i = s THEN [fences[s] EXCEPT ![r] = "fenced"]
                                    ELSE fences[i]]
    /\ UNCHANGED <<net, block, lastRid, faults>>

\* error_store() and fence_timeout(): the mount could not be fenced.
AgentFails(s, r) ==
    /\ fences[s][r] = "pending"
    /\ "agent" \in Fault
    /\ fences' = [fences EXCEPT ![s][r] = "error"]
    /\ UNCHANGED <<net, block, mount, lastRid, workerVars, server, seen, faults>>

\* all_fenced().  Any order of the list is possible, so an error may be seen
\* before a request that is still pending.
all_fenced(s) ==
    \/ \A r \in Rid : fences[s][r] # "pending"
    \/ \E r \in Rid : fences[s][r] = "error"

\* What scoutfs_fence_wait_fenced() returns once all_fenced() holds: the
\* remaining time of the wait is positive and becomes 0, error or not.
wait_fenced(s) == 0

\* The server is done waiting for its fence requests and comes up.
server_up(s) ==
    /\ server[s].phase = "wait"
    /\ all_fenced(s)
    /\ server' = IF wait_fenced(s) = 0
                 THEN [server EXCEPT ![s] =
                          [server[s] EXCEPT !.phase = "serve",
                                            !.status = IF server[s].status = "starting"
                                                       THEN "up" ELSE server[s].status]]
                 ELSE [server EXCEPT ![s].phase = "end"]
    /\ UNCHANGED <<net, block, mount, lastRid, workerVars, seen, fences, faults>>

\* The wait for the fence requests times out and the server gives up.
FenceTimesOut(s) ==
    /\ server[s].phase = "wait"
    /\ ~ all_fenced(s)
    /\ server' = [server EXCEPT ![s].phase = "end"]
    /\ UNCHANGED <<net, block, mount, lastRid, workerVars, seen, fences, faults>>

\* The server meets an error and shuts itself down.
ServerFails(s) ==
    /\ server[s].phase = "serve"
    /\ is_running(s)
    /\ Fails("server")
    /\ server' = [server EXCEPT ![s] = stop_server(s)]
    /\ UNCHANGED <<net, block, mount, lastRid, workerVars, seen, fences>>

\* reclaim_worker(): reclaim and forget a fenced mount, or shut down because
\* one could not be fenced.
reclaim_worker(s, r) ==
    /\ server[s].status = "up"
    /\ \/ /\ fences[s][r] = "fenced"
          /\ fences' = [fences EXCEPT ![s][r] = "none"]
          /\ UNCHANGED server
       \/ /\ fences[s][r] = "error"
          /\ server' = [server EXCEPT ![s] = stop_server(s)]
          /\ UNCHANGED fences
    /\ UNCHANGED <<net, block, mount, lastRid, workerVars, seen, faults>>

\* The end of the server worker: scoutfs_fence_stop() and server_down().
server_down(s) ==
    /\ \/ server[s].phase = "serve" /\ server[s].status = "stopping"
       \/ server[s].phase = "end"
    /\ server' = [server EXCEPT ![s] = ServerDown]
    /\ fences' = [fences EXCEPT ![s] = NoFences]
    /\ seen' = [seen EXCEPT ![s] = NoneSeen]
    /\ UNCHANGED <<net, block, mount, lastRid, workerVars, faults>>

-----------------------------------------------------------------------------
WorkerStep(s) ==
    \/ \E m \in Received(s) : RecvNewer(s, m) \/ RecvSame(s, m) \/ StandForElection(s, m)
    \/ StoreTerm(s) \/ WriteElect(s) \/ WriteFence(s) \/ WriteStop(s)
    \/ LeaveLoop(s) \/ LeaveStopped(s)

ServerStep(s) ==
    \/ \E i \in Slot : fence_leaders(s, i)
    \/ \E r \in Rid : reclaim_worker(s, r)
    \/ server_up(s) \/ FenceTimesOut(s) \/ server_down(s)

Next ==
    \E s \in Slot :
        \/ WorkerStep(s) \/ ServerStep(s)
        \/ Mount(s) \/ Unmount(s) \/ Destroy(s)
        \/ Crash(s) \/ WorkerFails(s) \/ ServerFails(s)
        \/ \E r \in Rid : AgentFences(s, r) \/ AgentFails(s, r)

Spec == Init /\ [][Next]_vars

\* The workers of a mount are scheduled for as long as the mount runs.
FairSpec ==
    /\ Spec
    /\ \A s \in Slot : WF_vars(WorkerStep(s)) /\ WF_vars(ServerStep(s))

-----------------------------------------------------------------------------
(* Properties. *)

\* The server of the mount on this slot has done its fencing and reads and
\* writes the metadata device.
Serving(s) == mount[s] # 0 /\ server[s].phase = "serve"

\* Only one server is ever running among the mounts: two elected leaders
\* never both get past fence_leaders() while both can still write.
OneServer == \A s, t \in Slot : Serving(s) /\ Serving(t) => s = t

\* A server never runs beside a leader whose election it read in its quorum
\* block, unless it also read that a newer leader had fenced since or its agent
\* failed.  What escapes it is only an election recorded after it read.
FencesWhatItReads ==
    \A s, t \in Slot : Serving(s) /\ Serving(t) /\ s # t =>
        \/ seen[t][s]["elect"] # [rid |-> mount[s], term |-> server[s].term]
        \/ server[s].term > server[t].term
        \/ \E i \in Slot : seen[t][i]["fence"].term > server[s].term
        \/ \E r \in Rid : fences[t][r] = "error"

\* Rids are never used again, and what is recorded and read are rids of mounts so far.
RidsKept ==
    /\ \A s, t \in Slot : mount[s] <= lastRid /\ (mount[s] = mount[t] /\ mount[s] # 0 => s = t)
    /\ \A s \in Slot, e \in EventName : block[s][e].rid <= lastRid
    /\ \A t, s \in Slot, e \in EventName : seen[t][s][e].rid <= lastRid

\* The mount on a slot only stands for election, and only starts servers, in terms
\* after the stop that its block records, and a server's stop is recorded once it is down.
TermsKept(s) ==
    /\ mount[s] = 0 => pc[s] = "off" /\ server[s].status = "down"
    /\ mount[s] # 0 => block[s]["stop"].term <= qst[s].term
    /\ qst[s].server_start_term <= qst[s].term
    /\ qst[s].server_start_term > 0 /\ pc[s] # "gone" =>
          block[s]["stop"].term < qst[s].server_start_term
    /\ qst[s].role = "candidate" \/ pc[s] = "elect" =>
          block[s]["stop"].term < qst[s].term /\ qst[s].server_start_term < qst[s].term
    /\ pc[s] = "elect" => qst[s].role = "leader"
    /\ pc[s] = "stop" => server[s].status = "down" /\ qst[s].server_start_term > 0
    /\ server[s].status # "down" => block[s]["stop"].term < server[s].term
    /\ server[s].status = "down" => server[s].phase = "idle"

\* The stop that a block records only gets newer.
StopsKept == \A t, s \in Slot : seen[t][s]["stop"].term <= block[s]["stop"].term

\* The old leaders that a server read of have stopped, or its agent hasn't fenced them.
FencesHold(t) ==
    /\ server[t].phase \in {"wait", "serve"} =>
          \A o \in ToFence(t, seen[t]), s \in Slot :
              mount[s] # 0 /\ mount[s] = seen[t][o[1]][o[2]].rid =>
                  fences[t][mount[s]] \in {"pending", "error"}
    /\ server[t].phase = "serve" => all_fenced(t)

\* What FencesWhatItReads rests on, inductively, when mounts read all quorum blocks.
ElectionInv ==
    /\ TypeOK /\ RidsKept /\ StopsKept
    /\ \A s \in Slot : TermsKept(s) /\ FencesHold(s)

\* A server whose quorum worker has learned of a newer term, and is still
\* there to act on it, eventually stops.
OldServerStops ==
    \A s \in Slot :
        (Serving(s) /\ qst[s].term > server[s].term) ~> (~ Serving(s) \/ pc[s] = "gone")

\* A server that stopped is eventually recorded as stopped, so that later
\* leaders don't fence its mount, unless the worker or the mount is gone or
\* the mount is elected again.
StopIsRecorded ==
    \A s \in Slot :
        (StopDue(s, qst[s]) /\ pc[s] # "gone")
            ~> (\/ mount[s] = 0 \/ pc[s] = "gone" \/ shutdown[s]
                \/ block[s]["stop"].term >= block[s]["elect"].term
                \/ server[s].status # "down")

=============================================================================
