------------------------------ MODULE LockNet ------------------------------
(***************************************************************************)
(* The lock messages of one cluster lock, as the lock code sees the        *)
(* network.  net.c delivers reliably and in order between a client and one *)
(* server; the lock client handles incoming lock messages synchronously in *)
(* the receive path, so the server-to-client direction is a FIFO queue.    *)
(* The server runs every received message in its own work, so in the other *)
(* direction messages of one client are handled in any order.              *)
(***************************************************************************)
EXTENDS LockModes, Sequences

CONSTANT Client          \* the rids of the mounts that share the lock

VARIABLES
    toClient,            \* per client, grant responses and invalidation requests
    toServer,            \* lock requests and invalidation responses in flight
    link                 \* "up"; "down" until the client greets a new server;
                         \* "lost" once the server dropped the connection

netVars == <<toClient, toServer, link>>

\* struct scoutfs_net_lock as a grant response or as an invalidation request.
\* live: the request was sent by the server that is running now, so that the
\* net id of its response is the id of a request this server waits for.
GrantMsg(old, new) == [cmd |-> "grant", old |-> old, new |-> new, live |-> TRUE]

InvalMsg(old, new) == [cmd |-> "inval", old |-> old, new |-> new, live |-> TRUE]

ClientMsg == [cmd : {"grant", "inval"}, old : Mode, new : Mode, live : BOOLEAN]

\* A lock request and an invalidation response.
RequestMsg(c, m) == [cmd |-> "request", rid |-> c, mode |-> m, live |-> TRUE]

ResponseMsg(c, m, l) == [cmd |-> "response", rid |-> c, mode |-> m, live |-> l]

ServerMsg == [cmd : {"request", "response"}, rid : Client, mode : Mode, live : BOOLEAN]

\* scoutfs_net_submit_send() queues messages without a connection too.  Requests
\* are sent once the client is connected to a new server.  Responses are freed by
\* the greeting of a new server.  A lost client is fenced before it can reconnect.
Sent(c, msg) ==
    IF link[c] = "up" \/ (link[c] = "down" /\ msg.cmd = "request") THEN {msg} ELSE {}

NetTypeOK ==
    /\ toClient \in [Client -> Seq(ClientMsg)]
    /\ toServer \subseteq ServerMsg
    /\ link \in [Client -> {"up", "down", "lost"}]

=============================================================================
