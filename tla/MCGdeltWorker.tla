------------------------------ MODULE MCGdeltWorker ------------------------------
(***************************************************************************)
(* Instances of GdeltWorker: two events that cite one article, one that    *)
(* recurs in the next export, and one of no impact.                        *)
(***************************************************************************)
EXTENDS GdeltWorker, TLC

CONSTANTS e1, e2, e3, e4, u1, u2, u3

AllEvents == {e1, e2, e3, e4}
UrlOf == (e1 :> u1 @@ e2 :> u1 @@ e3 :> u2 @@ e4 :> u3)
ImpactOf == (e1 :> "High" @@ e2 :> "High" @@ e3 :> "Medium" @@ e4 :> "Normal")
TwoUpdates == <<<<e1, e2, e3>>, <<e2, e3, e4>>>>
================================================================================
