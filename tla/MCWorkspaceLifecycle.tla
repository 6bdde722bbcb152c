------------------------ MODULE MCWorkspaceLifecycle ------------------------
(* Instances of WorkspaceLifecycle, one per .cfg.  The Workspaces, images, *)
(* requests and recoveries are model values and interchangeable; symmetry  *)
(* is used for safety only.                                                *)
EXTENDS WorkspaceLifecycle, TLC

Symmetry == Permutations(Requests) \cup Permutations(Recoveries) \cup Permutations(Images)

\* A bound: one Runtime change, and any retry or rollback while it is incomplete.
OneChange ==
  \A h \in Requests, w \in Workspaces :
    req'[h] # req[h] /\ req'[h].pc = "begin" /\ req'[h].cmd = "runtime.set" /\ req'[h].ws = w
      => row[w].prev = NoImage \/ RuntimeChangeIncomplete(row[w])

\* The liveness run starts with the Worker still to connect and, images being
\* interchangeable, with one image on every row.
LiveSpec ==
  /\ Init /\ [][Next /\ OneChange]_vars /\ Fairness
  /\ link = "down"
  /\ \A w \in Workspaces : row[w].image = CHOOSE i \in Images : TRUE
=============================================================================
