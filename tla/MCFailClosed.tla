---------------------------- MODULE MCFailClosed ----------------------------
(* An instance of FailClosed. *)
EXTENDS FailClosed

\* Two new Workspaces; or the container of an earlier release, from before egress
\* rules or under outdated resource limits.
Some == CHOOSE w \in Workspaces : TRUE
NewOrEarlier ==
  {[w \in Workspaces |-> [network |-> "none", fits |-> TRUE]],
   Some :> [network |-> "legacy", fits |-> TRUE],
   Some :> [network |-> "current", fits |-> FALSE]}
=============================================================================
