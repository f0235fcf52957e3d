---------------------------- MODULE MCCheckQueue ----------------------------
(* CheckQueue with two workers and three checks.  The run checks liveness, so
   no symmetry is used.                                                      *)
EXTENDS CheckQueue
=============================================================================
