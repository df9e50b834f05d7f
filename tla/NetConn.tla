------------------------------ MODULE NetConn ------------------------------
(***************************************************************************)
(* The messages of one client's connection to servers (net.c).  Requests   *)
(* and responses are queued, sent, kept until they are answered or         *)
(* acknowledged, and sent again on the next socket when a socket breaks.   *)
(* Server connections are identified by the client's greeting id, which    *)
(* counts its sockets.                                                     *)
(***************************************************************************)
EXTENDS Naturals, Sequences, SequencesExt

CONSTANTS
    MaxRequests,         \* bound on the client's requests
    MaxSocks,            \* bound on the client's sockets
    MaxFailovers         \* bound on servers that fail

VARIABLES
    cl,                  \* the client's connection
    acc,                 \* the server's accepted connections
    toS,                 \* the bytes on the way to the server, per socket
    toC,                 \* ... and to the client
    term,                \* the server's term
    received,            \* the requests that this server has received
    handled,             \* how many times this server has processed a request
    done                 \* the requests whose response was processed

netVars == <<cl, acc, toS, toC, term, received, handled, done>>

Sock == 1..MaxSocks
ReqId == 1..MaxRequests

\* A request's id is the client's sequence number; the greetings' sequence numbers
\* don't matter.
Msg == [id : ReqId, seq : Nat, ack : Nat]

\* A greeting and its response, with the server term that the sender knows.
Greet(t) == [greet |-> t]
IsGreet(msg) == "greet" \in DOMAIN msg

NoConn == [st |-> "none", sendq |-> << >>, resendq |-> << >>, nextSeq |-> 1, recvSeq |-> 0, procs |-> {}]

TypeOK ==
    /\ cl.st \in {"idle", "greeting", "up", "closing"}
    /\ cl.sendq \in Seq(Msg) /\ cl.resendq \in Seq(Msg)
    /\ cl.nextSeq \in 1..(MaxRequests + 1) /\ cl.recvSeq \in Nat /\ cl.procs \subseteq ReqId
    /\ cl.sock \in 0..MaxSocks /\ cl.seen \in 0..term
    /\ \A i \in Sock :
         /\ acc[i].st \in {"none", "open", "up", "closing", "wait", "gone"}
         /\ acc[i].sendq \in Seq(Msg) /\ acc[i].resendq \in Seq(Msg)
         /\ acc[i].nextSeq \in Nat /\ acc[i].recvSeq \in 0..MaxRequests /\ acc[i].procs \subseteq ReqId
    /\ term \in 1..(MaxFailovers + 1)
    /\ received \subseteq ReqId /\ done \subseteq ReqId
    /\ handled \in [ReqId -> 0..2]

Init ==
    /\ cl = [st |-> "idle", sendq |-> << >>, resendq |-> << >>, nextSeq |-> 1, recvSeq |-> 0,
             procs |-> {}, sock |-> 0, seen |-> 0]
    /\ acc = [i \in Sock |-> NoConn]
    /\ toS = [i \in Sock |-> << >>]
    /\ toC = [i \in Sock |-> << >>]
    /\ term = 1
    /\ received = {} /\ done = {}
    /\ handled = [i \in ReqId |-> 0]

-----------------------------------------------------------------------------
(* Both ends of a connection. *)

\* Seeded bug: a message is put before those that wait already.
submit_send_first(conn, msg) ==
    IF conn.st = "up"
    THEN [conn EXCEPT !.sendq = Append(@, msg), !.nextSeq = @ + 1]
    ELSE [conn EXCEPT !.resendq = <<msg>> \o @, !.nextSeq = @ + 1]

\* submit_send(): a message is sent once the connection is established and has
\* passed the greeting; at all other times it waits to be sent again.
submit_send(conn, msg) ==
    IF conn.st = "up"
    THEN [conn EXCEPT !.sendq = Append(@, msg), !.nextSeq = @ + 1]
    ELSE [conn EXCEPT !.resendq = Append(@, msg), !.nextSeq = @ + 1]

\* scoutfs_net_send_worker() keeps the message it sends.
send_worker(conn) ==
    [conn EXCEPT !.sendq = Tail(@), !.resendq = Append(@, Head(conn.sendq))]

\* The message as it is sent, with what the sender has received.
Sent(conn) == [Head(conn.sendq) EXCEPT !.ack = conn.recvSeq]

\* scoutfs_net_recv_worker() drops what was received on an earlier socket.
duplicate(conn, msg) == msg.seq <= conn.recvSeq

\* complete_send(): the request that was answered isn't sent again.
complete_send(conn, id) ==
    LET Other(msg) == msg.id # id IN
    [conn EXCEPT !.sendq = SelectSeq(@, Other), !.resendq = SelectSeq(@, Other)]

\* free_acked_responses(): a server's messages are all responses.
free_acked_responses(conn, ack) ==
    LET Live(msg) == msg.seq > ack IN
    [conn EXCEPT !.sendq = SelectSeq(@, Live), !.resendq = SelectSeq(@, Live)]

\* set_valid_greeting(): messages can be sent, and those that wait are.
set_valid_greeting(conn) ==
    [conn EXCEPT !.st = "up", !.sendq = @ \o conn.resendq, !.resendq = << >>]

\* scoutfs_net_shutdown_worker(): what wasn't sent is sent on the next socket.
shutdown_queues(conn) == [conn EXCEPT !.resendq = @ \o conn.sendq, !.sendq = << >>]

-----------------------------------------------------------------------------
(* The client. *)

\* scoutfs_net_submit_request()
scoutfs_net_submit_request ==
    /\ cl.nextSeq <= MaxRequests
    /\ cl' = submit_send(cl, [id |-> cl.nextSeq, seq |-> cl.nextSeq, ack |-> 0])
    /\ UNCHANGED <<acc, toS, toC, term, received, handled, done>>

\* scoutfs_net_connect_worker() and the listening server's scoutfs_net_listen_worker().
\* The client sends its greeting.
Connect ==
    /\ cl.st = "idle" /\ cl.sock < MaxSocks
    /\ cl' = [cl EXCEPT !.st = "greeting", !.sock = @ + 1]
    /\ acc' = [acc EXCEPT ![cl.sock + 1] = [NoConn EXCEPT !.st = "open"]]
    /\ toS' = [toS EXCEPT ![cl.sock + 1] = <<Greet(cl.seen)>>]
    /\ UNCHANGED <<toC, term, received, handled, done>>

ClientSend ==
    /\ cl.st \in {"up", "closing"} /\ cl.sendq # << >>
    /\ toS' = [toS EXCEPT ![cl.sock] = Append(@, Sent(cl))]
    /\ cl' = send_worker(cl)
    /\ UNCHANGED <<acc, toC, term, received, handled, done>>

\* scoutfs_net_client_greeting(): the client starts over with a new server.
scoutfs_net_client_greeting(t) ==
    LET fresh == IF t # cl.seen THEN [cl EXCEPT !.recvSeq = 0] ELSE cl IN
    [set_valid_greeting(fresh) EXCEPT !.seen = t]

\* The client's scoutfs_net_recv_worker().
ClientRecv ==
    /\ cl.st \in {"greeting", "up"} /\ toC[cl.sock] # << >>
    /\ LET msg == Head(toC[cl.sock]) IN
       cl' = IF IsGreet(msg) THEN scoutfs_net_client_greeting(msg.greet)
             ELSE IF duplicate(cl, msg) THEN cl
             ELSE [cl EXCEPT !.recvSeq = msg.seq, !.procs = @ \cup {msg.id}]
    /\ toC' = [toC EXCEPT ![cl.sock] = Tail(@)]
    /\ UNCHANGED <<acc, toS, term, received, handled, done>>

\* process_response() in a work of its own.
ClientProc ==
    \E id \in cl.procs :
       /\ cl' = complete_send([cl EXCEPT !.procs = @ \ {id}], id)
       /\ done' = done \cup {id}
       /\ UNCHANGED <<acc, toS, toC, term, received, handled>>

\* shutdown_conn() on an error of the socket.
ClientClose ==
    /\ cl.st \in {"greeting", "up"} /\ cl.sock < MaxSocks
    /\ cl' = [cl EXCEPT !.st = "closing"]
    /\ UNCHANGED <<acc, toS, toC, term, received, handled, done>>

\* scoutfs_net_shutdown_worker() once the connection's work is done.
ClientShutdown ==
    /\ cl.st = "closing" /\ cl.procs = {}
    /\ cl' = [shutdown_queues(cl) EXCEPT !.st = "idle"]
    /\ toC' = [toC EXCEPT ![cl.sock] = << >>]
    /\ UNCHANGED <<acc, toS, term, received, handled, done>>

-----------------------------------------------------------------------------
(* The server. *)

\* The connections with the client's rid that came before socket i.
Older(i) == {j \in 1..(i - 1) : acc[j].st \in {"up", "closing", "wait"}}

\* scoutfs_net_server_greeting() shuts down a connection that is still in use.
ShutdownOlder(i) ==
    /\ acc[i].st = "open" /\ toS[i] # << >>
    /\ Head(toS[i]).greet # 0
    /\ \E j \in Older(i) :
          /\ acc[j].st = "up"
          /\ acc' = [acc EXCEPT ![j].st = "closing"]
    /\ UNCHANGED <<cl, toS, toC, term, received, handled, done>>

\* The state that the new connection takes over from the old one.
migrate(old) ==
    [NoConn EXCEPT !.resendq = old.resendq, !.nextSeq = old.nextSeq, !.recvSeq = old.recvSeq]

\* scoutfs_net_server_greeting(): a client that connects again gets the state of
\* its old connection once that is shut down.
scoutfs_net_server_greeting(i) ==
    /\ acc[i].st = "open" /\ toS[i] # << >>
    /\ LET seen == Head(toS[i]).greet IN
       /\ seen # 0 => \A j \in Older(i) : acc[j].st = "wait"
       /\ IF seen = 0 \/ (seen # term /\ Older(i) = {})
          THEN acc' = [acc EXCEPT ![i] = set_valid_greeting(NoConn)]
          ELSE IF Older(i) = {}
          THEN acc' = [acc EXCEPT ![i].st = "gone"]
          ELSE LET j == Min(Older(i)) IN     \* the first on the list of accepted connections
                  acc' = [acc EXCEPT ![i] = set_valid_greeting(migrate(acc[j])), ![j] = [NoConn EXCEPT !.st = "gone"]]
       /\ toC' = IF acc'[i].st = "up" THEN [toC EXCEPT ![i] = <<Greet(term)>>] ELSE toC
    /\ toS' = [toS EXCEPT ![i] = Tail(@)]
    /\ UNCHANGED <<cl, term, received, handled, done>>

\* The server's scoutfs_net_recv_worker().
ServerRecv(i) ==
    /\ acc[i].st = "up" /\ toS[i] # << >>
    /\ LET msg == Head(toS[i])
           got == free_acked_responses([acc[i] EXCEPT !.recvSeq = msg.seq, !.procs = @ \cup {msg.id}], msg.ack)
       IN IF duplicate(acc[i], msg)
          THEN UNCHANGED <<acc, received>>
          ELSE /\ acc' = [acc EXCEPT ![i] = got]
               /\ received' = received \cup {msg.id}
    /\ toS' = [toS EXCEPT ![i] = Tail(@)]
    /\ UNCHANGED <<cl, toC, term, handled, done>>

\* process_request() in a work of its own, and scoutfs_net_response().
ServerProc(i) ==
    \E id \in acc[i].procs :
       /\ handled' = [handled EXCEPT ![id] = @ + 1]
       /\ acc' = [acc EXCEPT ![i] = submit_send([@ EXCEPT !.procs = @ \ {id}],
                                                [id |-> id, seq |-> acc[i].nextSeq, ack |-> 0])]
       /\ UNCHANGED <<cl, toS, toC, term, received, done>>

ServerSend(i) ==
    /\ acc[i].st \in {"up", "closing"} /\ acc[i].sendq # << >>
    /\ toC' = IF cl.sock = i /\ cl.st # "idle" THEN [toC EXCEPT ![i] = Append(@, Sent(acc[i]))] ELSE toC
    /\ acc' = [acc EXCEPT ![i] = send_worker(@)]
    /\ UNCHANGED <<cl, toS, term, received, handled, done>>

\* shutdown_conn() when the client's end of the socket is closed.  What the client
\* sent before may or may not have arrived.  A connection that had no greeting yet
\* can't be found again.
ServerClose(i) ==
    /\ acc[i].st \in {"open", "up"}
    /\ cl.sock # i \/ cl.st \in {"closing", "idle"}
    /\ acc' = [acc EXCEPT ![i].st = IF @ = "open" THEN "gone" ELSE "closing"]
    /\ UNCHANGED <<cl, toS, toC, term, received, handled, done>>

\* scoutfs_net_shutdown_worker(): an accepted connection waits for the client to
\* connect again.
ServerShutdown(i) ==
    /\ acc[i].st = "closing" /\ acc[i].procs = {}
    /\ acc' = [acc EXCEPT ![i] = [shutdown_queues(@) EXCEPT !.st = "wait"]]
    /\ toS' = [toS EXCEPT ![i] = << >>]
    /\ UNCHANGED <<cl, toC, term, received, handled, done>>

\* The server fails, and the next one has none of its connections.
ServerFail ==
    /\ term <= MaxFailovers /\ cl.sock < MaxSocks
    /\ term' = term + 1
    /\ acc' = [i \in Sock |-> IF acc[i].st = "none" THEN acc[i] ELSE [NoConn EXCEPT !.st = "gone"]]
    /\ toS' = [i \in Sock |-> << >>]
    /\ toC' = [i \in Sock |-> << >>]
    /\ received' = {}
    /\ handled' = [i \in ReqId |-> 0]
    /\ UNCHANGED <<cl, done>>

\* The client notices that the server closed its end of the socket.
ClientLost ==
    /\ cl.st \in {"greeting", "up"} /\ toC[cl.sock] = << >>
    /\ acc[cl.sock].st \in {"wait", "gone"}
    /\ cl' = [cl EXCEPT !.st = "closing"]
    /\ UNCHANGED <<acc, toS, toC, term, received, handled, done>>

-----------------------------------------------------------------------------
Steps(i) ==
    \/ ShutdownOlder(i) \/ scoutfs_net_server_greeting(i) \/ ServerRecv(i) \/ ServerProc(i)
    \/ ServerSend(i) \/ ServerClose(i) \/ ServerShutdown(i)

\* All requests are answered.
Finished == done = ReqId /\ UNCHANGED netVars

Next ==
    \/ scoutfs_net_submit_request \/ Connect \/ ClientSend \/ ClientRecv \/ ClientProc
    \/ ClientClose \/ ClientLost \/ ClientShutdown
    \/ \E i \in Sock : Steps(i)
    \/ ServerFail \/ Finished

Spec == Init /\ [][Next]_netVars

-----------------------------------------------------------------------------
(* Properties. *)

\* A server processes a request once, however many times it is sent
\* (scoutfs_net_recv_worker() drops duplicates).
HandledOnce == \A id \in ReqId : handled[id] <= 1

\* "Sends submitted when the connection isn't established will be resent in order
\* the next time it's established" (scoutfs_net_submit_request()): what is dropped
\* as a duplicate was received, and no request is skipped.
NoneSkipped ==
    \A i \in Sock : acc[i].st \in {"up", "closing", "wait"} =>
        \A id \in ReqId : id <= acc[i].recvSeq => id \in received \cup done

\* The response to a request that was processed is kept until the client has
\* received it.
ResponseKept ==
    \A id \in ReqId : handled[id] > 0 =>
        \/ id \in done \cup cl.procs
        \/ \E i \in Sock : \E msg \in Range(acc[i].sendq \o acc[i].resendq) :
              msg.id = id /\ (cl.seen = term => msg.seq > cl.recvSeq)

\* The first greeting of the client isn't lost after the server has processed it:
\* it would leave a connection behind that the client's next one doesn't replace.
FirstGreetingArrives ==
    /\ cl.st = "greeting" /\ cl.seen = 0 /\ cl'.st = "closing" => acc[cl.sock].st # "up"
    /\ \A i \in Sock :
         acc[i].st = "open" /\ acc'[i].st = "up" /\ Head(toS[i]).greet = 0 => cl.sock = i /\ cl.st = "greeting"

\* Nothing is submitted while a connection shuts down that has messages it hasn't
\* sent yet: net.c would send them in another order than they were submitted in.
SubmitsInOrder ==
    /\ cl.st = "closing" /\ cl'.nextSeq > cl.nextSeq => cl.sendq = << >>
    /\ \A i \in Sock :
         acc[i].st = "closing" /\ acc'[i].nextSeq > acc[i].nextSeq => acc[i].sendq = << >>

=============================================================================
