---------------------------- MODULE MCGdeltSchedule ----------------------------
(***************************************************************************)
(* Instances of GdeltSchedule: the constants are given in the .cfg files,  *)
(* in units of 30 seconds.                                                 *)
(***************************************************************************)
EXTENDS GdeltSchedule
================================================================================
