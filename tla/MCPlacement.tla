---------------------------- MODULE MCPlacement ----------------------------
(* An instance of Placement: two requests place two Workspaces on two      *)
(* Workers whose capacities change between one and two, so that a request  *)
(* may take the other's slot and a Workspace could end up on either.       *)
EXTENDS Placement, TLC

OneOrTwo == {1, 2}
Symmetry == Permutations(Workspaces) \cup Permutations(Workers) \cup Permutations(Requests)
=============================================================================
