--------------------------- MODULE MCTaskLifecycle --------------------------
(***************************************************************************)
(* One task, since tasks meet only in cancelAllRunningTasks; an executor   *)
(* reports half or more than all (which is clamped).                       *)
(***************************************************************************)
EXTENDS TaskLifecycle

MCReports == {50, 120}
=============================================================================
