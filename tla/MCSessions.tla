----------------------------- MODULE MCSessions -----------------------------
(***************************************************************************)
(* The instance of Sessions for TLC: a quorum member and another mount,    *)
(* with at most MaxFaults faults.                                          *)
(***************************************************************************)
EXTENDS Sessions

CONSTANT MaxFaults       \* bound on broken connections, crashes and failed servers

\* The faults that a behaviour has had.
Faults == breaks + failovers + Cardinality({m \in Crashers : client[m] = "dead"})

\* A limit on faults, so that each is met in every state of the others.
FewFaults == Faults' <= MaxFaults

\* Timeouts of 20 and 30 seconds don't expire while the server is about to do what
\* they wait for: a mount that is connected recovers its locks, and the farewell
\* worker is done with the requests it took.
Patience ==
    /\ \A m \in Mount :
         fence[m] = "none" /\ fence'[m] = "asked" /\ pending[m] # {} => link[m] # "up"
    /\ \A m \in Range(work.reqs \o work.send) : "wait" \in conn[m] => conn'[m] # {}

Timing == FewFaults /\ Patience

=============================================================================
