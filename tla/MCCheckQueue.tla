---------------------------- MODULE MCCheckQueue ----------------------------
(***************************************************************************)
(* Workers are interchangeable; symmetry is not used because the run       *)
(* checks a liveness property.                                             *)
(***************************************************************************)
EXTENDS CheckQueue
=============================================================================
