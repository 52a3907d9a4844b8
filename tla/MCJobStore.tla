------------------------------- MODULE MCJobStore -------------------------------
(***************************************************************************)
(* Instances of JobStore: two jobs of one second.                          *)
(***************************************************************************)
EXTENDS JobStore, TLC

CONSTANTS j1, j2, s1

SameSecond == j1 :> s1 @@ j2 :> s1
================================================================================
