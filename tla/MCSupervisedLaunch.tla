------------------------- MODULE MCSupervisedLaunch -------------------------
(***************************************************************************)
(* An SSH launch and one whose program forks: the worker starts one while  *)
(* helper, consumer and descendant of the other may still be there.        *)
(***************************************************************************)
EXTENDS SupervisedLaunch

CONSTANTS l1, l2
=============================================================================
