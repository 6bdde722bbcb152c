-------------------------- MODULE MCLifecycleRaces --------------------------
(* Three scenarios of WorkspaceLifecycle in one run: requests alone, with  *)
(* whatever goes wrong up to MaxUpsets; the same without Runtime changes;  *)
(* and, again without them, requests with the recovery that follows a      *)
(* hello, with one upset.                                                  *)
EXTENDS MCWorkspaceLifecycle

VARIABLE scenario

RequestsAlone == rec' = rec /\ ~ControlPlaneRestart
NoChanges == \A h \in Requests : req'[h].cmd # "runtime.set"
OneUpset == upsets' <= 1 /\ ~Drop /\ ~WorkerCrash /\ ~Revoke

RacesNext ==
  /\ Next /\ UNCHANGED scenario
  /\ IF scenario = "recovery" THEN OneUpset ELSE RequestsAlone
  /\ scenario # "requests" => NoChanges

RacesSpec ==
  /\ Init /\ scenario \in {"requests", "unchanged", "recovery"}
  /\ [][RacesNext]_<<vars, scenario>>

\* What requests guarantee among themselves, whatever times out, fails or is lost:
\* a deleted Workspace leaves nothing, RUNNING is true, and STOPPED is true where no
\* Runtime is changed; a change may revert a row to a STOPPED it read long before
\* (RevertedImageIsInstalled).  A recovery that decides on what the Worker reported
\* while a request goes on may break any of it (see DeletionIsClean and
\* RecoveryTellsTruth).
RequestsLeaveNothing == scenario # "recovery" => DeletionIsClean
RequestsTellTruth ==
  /\ scenario # "recovery" => RunningTellsTruth
  /\ scenario = "unchanged" => StoppedTellsTruth
=============================================================================
