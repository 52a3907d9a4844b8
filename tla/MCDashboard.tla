------------------------------- MODULE MCDashboard -------------------------------
(***************************************************************************)
(* Instances of Dashboard: a country on the watchlist with two signals of  *)
(* two categories, one pushed and one stored before, and a country that is *)
(* not on the watchlist.                                                   *)
(***************************************************************************)
EXTENDS Dashboard, TLC

CONSTANTS a, b, k, x, p, q

MCNewestFirst(S) == SelectSeq(<<a, b>>, LAMBDA s : s \in S)
MCCountry == a :> k @@ b :> k
MCCategory == a :> p @@ b :> q
================================================================================
