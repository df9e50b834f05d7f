------------------------------ MODULE MCElection ------------------------------
(* Instances of Election for TLC.                                            *)
EXTENDS Election, TLC

\* Slots that are alike.
Symmetry == Permutations(Standers \cap Slot)

=============================================================================
