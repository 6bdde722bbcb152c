---------------------------- MODULE MCModelRelay ----------------------------
(* An instance of ModelRelay: a connection from each of two Workspaces, or    *)
(* two connections from one of them, with or without the other beside it.   *)
EXTENDS ModelRelay, TLC

CONSTANTS w1, w2, n1, n2, c1, c2

Both == w1 :> n1 @@ w2 :> n2
OnlyFirst == w1 :> n1 @@ w2 :> NoNetwork
Instance == {
  [network |-> Both, from |-> c1 :> w1 @@ c2 :> w2],
  [network |-> OnlyFirst, from |-> c1 :> w1 @@ c2 :> w2],
  [network |-> OnlyFirst, from |-> c1 :> w1 @@ c2 :> w1],
  [network |-> Both, from |-> c1 :> w1 @@ c2 :> w1]
}
=============================================================================
