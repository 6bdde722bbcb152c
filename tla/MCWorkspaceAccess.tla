------------------------- MODULE MCWorkspaceAccess -------------------------
(* An instance of WorkspaceAccess: two administrators and a third user to be, *)
(* and workloads that make one thing or the other happen.                   *)
EXTENDS WorkspaceAccess, TLC

CONSTANTS u1, u2, u3, u4, s1, s2, s3, i1, i2, w1, w2

ThrottlePolicy == [scope \in Scopes |-> [threshold |-> 2, window |-> 2, lock |-> 2]]

\* Two Local Admins; a user without a password, who comes in by either of its
\* identities; and one more user there may be.
UsersAtFirst == u1 :> [role |-> "admin", status |-> "active", local |-> TRUE]
             @@ u2 :> [role |-> "admin", status |-> "active", local |-> TRUE]
             @@ u3 :> [role |-> "user", status |-> "active", local |-> FALSE]
BoundAtFirst == i1 :> u3 @@ i2 :> u3
OpenAtFirst == s1 :> u1 @@ s2 :> u2
OwnerOf == w1 :> u1 @@ w2 :> u1

Work(some) == [k \in AccessKinds |-> IF k \in DOMAIN some THEN some[k] ELSE 0]
ManyWorkloads == {
  Work([login |-> 5, tick |-> 1]),
  Work([login |-> 4, tick |-> 2]),
  Work([login |-> 2, reset |-> 1, clear |-> 1]),
  Work([login |-> 1, patch |-> 1]),
  Work([patch |-> 2]),
  Work([sso |-> 2, callback |-> 2, tick |-> 1]),
  Work([sso |-> 1, callback |-> 1, create |-> 1, unbind |-> 1]),
  Work([sso |-> 1, callback |-> 1, patch |-> 1]),
  Work([patch |-> 1, unbind |-> 2]),
  Work([patch |-> 1, unbind |-> 1, bind |-> 1]),
  Work([ws |-> 1, patch |-> 1]),
  Work([http |-> 1, ws |-> 1, logout |-> 1, tick |-> 1]),
  Work([http |-> 1, revoke |-> 1]),
  Work([http |-> 1, ws |-> 1, start |-> 1, disable |-> 1]),
  Work([http |-> 2, fault |-> 1, tick |-> 3]),
  Work([open |-> 2, exchange |-> 3, tick |-> 1, start |-> 1]),
  Work([open |-> 2, exchange |-> 1, patch |-> 1]),
  Work([open |-> 1, exchange |-> 1, restart |-> 1]),
  Work([http |-> 1, tick |-> 4, sample |-> 2, sweep |-> 1, restart |-> 1]),
  Work([tick |-> 5, sample |-> 4, work |-> 1, sweep |-> 1]),
  Work([tick |-> 3, sample |-> 2, work |-> 2, sweep |-> 1, start |-> 2]),
  Work([tick |-> 4, sample |-> 2, sweep |-> 1, start |-> 1, drop |-> 1]),
  Work([tick |-> 4, sample |-> 2, sweep |-> 1, start |-> 2])
}

Symmetry == Permutations(Requests) \cup Permutations(Flushes) \cup Permutations(Connections)
=============================================================================
