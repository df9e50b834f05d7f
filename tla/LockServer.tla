----------------------------- MODULE LockServer -----------------------------
(***************************************************************************)
(* The lock server's state for one lock (struct server_lock_node) and its  *)
(* message handlers, from lock_server.c.                                   *)
(*                                                                         *)
(* A handler runs with the node's mutex held.  It changes the lists and    *)
(* then walks the waiting requests in process_waiting_requests(), which    *)
(* sends messages as it goes.  The walk is one step per request so that    *)
(* clients can act on what was sent before the walk ends; busy is the held *)
(* mutex, and while it is held no other handler of the lock can start.     *)
(***************************************************************************)
EXTENDS LockNet

VARIABLES
    granted,             \* the mode of each client's entry on snode->granted
    requested,           \* snode->requested, in the order received
    invalidated,         \* the mode of each client's entry on snode->invalidated
    busy,                \* "no", or the kind of handler that holds snode->mutex
    recovering,          \* the clients whose SCOUTFS_RECOV_LOCKS is pending
    serving              \* the server is running

serverVars == <<granted, requested, invalidated, busy, recovering, serving>>

Waiting == [rid : Client, mode : Mode]

ServerTypeOK ==
    /\ granted \in [Client -> Entry]
    /\ requested \in Seq(Waiting)
    /\ invalidated \in [Client -> Entry]
    /\ busy \in {"no", "message", "farewell"}
    /\ recovering \subseteq Client
    /\ serving \in BOOLEAN

ServerInit ==
    /\ granted = [c \in Client |-> NoEntry]
    /\ requested = <<>>
    /\ invalidated = [c \in Client |-> NoEntry]
    /\ busy = "no"
    /\ recovering = {}
    /\ serving = TRUE

\* A handler can take the node's mutex.
CanHandle == serving /\ busy = "no"

\* scoutfs_lock_server_request(): queue a client's request, then process.
ServerRequest(c) ==
    /\ CanHandle
    /\ link[c] = "up"
    /\ \E msg \in toServer :
          /\ msg.cmd = "request"
          /\ msg.rid = c
          /\ toServer' = toServer \ {msg}
          /\ requested' = Append(requested, [rid |-> c, mode |-> msg.mode])
    /\ busy' = "message"
    /\ UNCHANGED <<granted, invalidated, recovering, serving, toClient, link>>

\* The response is to a request of this server and the client's entry is
\* still on the invalidated list; net.c drops it or the handler refuses it
\* with -EINVAL otherwise.
ResponseAccepted(msg) == msg.live /\ invalidated[msg.rid] # NoEntry

\* Seeded bug: the waiting requests are not processed after a response.
ServerResponseIdle(c) ==
    /\ CanHandle
    /\ link[c] = "up"
    /\ \E msg \in toServer :
          /\ msg.cmd = "response"
          /\ msg.rid = c
          /\ toServer' = toServer \ {msg}
          /\ IF ResponseAccepted(msg)
             THEN /\ invalidated' = [invalidated EXCEPT ![c] = NoEntry]
                  /\ granted' = IF msg.mode = "null" THEN granted
                                ELSE [granted EXCEPT ![c] = msg.mode]
             ELSE UNCHANGED <<granted, invalidated>>
    /\ UNCHANGED <<requested, busy, recovering, serving, toClient, link>>

\* scoutfs_lock_server_response(): the client's entry is freed or, brought
\* down to the new mode, granted again.
ServerResponse(c) ==
    /\ CanHandle
    /\ link[c] = "up"
    /\ \E msg \in toServer :
          /\ msg.cmd = "response"
          /\ msg.rid = c
          /\ toServer' = toServer \ {msg}
          /\ IF ResponseAccepted(msg)
             THEN /\ invalidated' = [invalidated EXCEPT ![c] = NoEntry]
                  /\ granted' = IF msg.mode = "null" THEN granted
                                ELSE [granted EXCEPT ![c] = msg.mode]
                  /\ busy' = "message"
             ELSE UNCHANGED <<granted, invalidated, busy>>
    /\ UNCHANGED <<requested, recovering, serving, toClient, link>>

-----------------------------------------------------------------------------
(* process_waiting_requests()                                              *)

\* The clients whose grants have to go before the request is granted.
Incompatible(req) ==
    {c \in Client : /\ granted[c] # NoEntry
                    /\ ~ client_entries_compatible(c, granted[c], req.rid, req.mode)}

\* Seeded bug: requests do not wait for the recovery of other clients.
WalkingEarly ==
    /\ serving
    /\ busy # "no"
    /\ requested # <<>>
    /\ \A c \in Client : invalidated[c] = NoEntry

\* The walk may look at the next request.
Walking ==
    /\ serving
    /\ busy # "no"
    /\ requested # <<>>
    /\ \A c \in Client : invalidated[c] = NoEntry
    /\ recovering = {}

\* The walk has seen every request, or waits for responses or recovery.
ProcessEnd ==
    /\ serving
    /\ busy # "no"
    /\ ~ Walking
    /\ busy' = "no"
    /\ UNCHANGED <<granted, requested, invalidated, recovering, serving, netVars>>

\* A send failed with -ENOTCONN.  scoutfs_lock_server_farewell() stops the
\* server on errors, the message handlers return it.
ProcessFailed ==
    /\ busy' = "no"
    /\ serving' = (busy # "farewell")

\* Send invalidations to a set of incompatible grants.
SendInvalidations(req, sent) ==
    /\ toClient' = [c \in Client |->
          IF c \in sent
          THEN Append(toClient[c], InvalMsg(granted[c], invalidation_mode(granted[c], req.mode)))
          ELSE toClient[c]]
    /\ invalidated' = [c \in Client |-> IF c \in sent THEN granted[c] ELSE invalidated[c]]
    /\ granted' = [c \in Client |-> IF c \in sent THEN NoEntry ELSE granted[c]]

\* Every incompatible grant is invalidated and the walk stops to wait, or the
\* walk stops at the first grant whose client has no connection.
ProcessInvalidate ==
    /\ Walking
    /\ LET req  == Head(requested)
           lost == {c \in Incompatible(req) : link[c] = "lost"}
       IN  /\ Incompatible(req) # {}
           /\ \E sent \in SUBSET (Incompatible(req) \ lost) :
                 /\ lost = {} => sent = Incompatible(req)
                 /\ SendInvalidations(req, sent)
           /\ IF lost = {}
              THEN busy' = "no" /\ UNCHANGED serving
              ELSE ProcessFailed
    /\ UNCHANGED <<requested, recovering, toServer, link>>

\* The next request is granted, in place of an existing grant of its client.
\* A null request is answered and not tracked.  The existing grant is freed
\* before a failed send leaves the request at the head of the queue.
ProcessGrant ==
    /\ Walking
    /\ LET req == Head(requested)
           c   == req.rid
           old == IF granted[c] = NoEntry THEN "null" ELSE granted[c]
       IN  /\ Incompatible(req) = {}
           /\ IF link[c] = "up"
              THEN /\ toClient' = [toClient EXCEPT ![c] = Append(@, GrantMsg(old, req.mode))]
                   /\ granted' = [granted EXCEPT
                         ![c] = IF req.mode = "null" THEN NoEntry ELSE req.mode]
                   /\ requested' = Tail(requested)
                   /\ UNCHANGED <<busy, serving>>
              ELSE /\ granted' = [granted EXCEPT ![c] = NoEntry]
                   /\ ProcessFailed
                   /\ UNCHANGED <<requested, toClient>>
    /\ UNCHANGED <<invalidated, recovering, toServer, link>>

-----------------------------------------------------------------------------

\* The client has an entry on one of the lists.
HasEntry(c) ==
    \/ granted[c] # NoEntry
    \/ invalidated[c] # NoEntry
    \/ \E i \in 1..Len(requested) : requested[i].rid = c

\* The waiting requests without the request of a client.  A client waits for the
\* response of a request before it sends the next, so there is at most one.
WithoutClient(s, c) ==
    LET mine == {i \in 1..Len(s) : s[i].rid = c}
        i    == CHOOSE i \in mine : TRUE
    IN  IF mine = {} THEN s
        ELSE [j \in 1..(Len(s) - 1) |-> IF j < i THEN s[j] ELSE s[j + 1]]

\* scoutfs_lock_server_farewell(): free all the entries of a client that left
\* or was fenced and, if there were any, process.
ServerFarewell(c) ==
    /\ CanHandle
    /\ granted' = [granted EXCEPT ![c] = NoEntry]
    /\ requested' = WithoutClient(requested, c)
    /\ invalidated' = [invalidated EXCEPT ![c] = NoEntry]
    /\ busy' = IF HasEntry(c) THEN "farewell" ELSE "no"
    /\ UNCHANGED <<recovering, serving, netVars>>

ServerStep ==
    \/ \E c \in Client : ServerRequest(c) \/ ServerResponse(c)
    \/ ProcessEnd
    \/ ProcessInvalidate
    \/ ProcessGrant

=============================================================================
