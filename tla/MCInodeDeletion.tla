-------------------------- MODULE MCInodeDeletion --------------------------
(***************************************************************************)
(* Instances of InodeDeletion for TLC.                                     *)
(***************************************************************************)
EXTENDS InodeDeletion

\* The server fails while it collects maps for an eviction, the case with most
\* state to lose.
FailsCollecting ==
    failovers' # failovers => \E m \in Mount : req[m]["evict"].st = "collect"

=============================================================================
