----------------------------- MODULE SlidingWindow -----------------------------
(***************************************************************************)
(* What a sliding-window limiter promises, told by all it ever let through, *)
(* without the lists it keeps and prunes: a request is let through if and   *)
(* only if fewer than the limit were in the window that ends now, and who   *)
(* is refused is told when to come back, early by less than a second and,   *)
(* but for the one second it says at least, never too late.                 *)
(***************************************************************************)
EXTENDS Naturals, Sequences, FiniteSets

CONSTANTS Keys, LimitOf, Window, Second
VARIABLES now, granted, told

windowVars == <<now, granted, told>>

(* The requests of the window that ends now, out of the whole history.      *)
Recent(k) == {n \in DOMAIN granted[k] : granted[k][n] + Window > now}

Init ==
  /\ now = 1
  /\ granted = [k \in Keys |-> <<>>] /\ told = [k \in Keys |-> 0]

Grant(k) ==
  /\ Cardinality(Recent(k)) < LimitOf[k]
  /\ granted' = [granted EXCEPT ![k] = Append(@, now)]
  /\ told' = [told EXCEPT ![k] = 0]
  /\ UNCHANGED now

(* Some request leaves the window less than a second after the time told;   *)
(* none has left it before, unless that time is a second away.              *)
FairlyTold(k, time) ==
  /\ time >= now + Second
  /\ \E n \in Recent(k) : granted[k][n] + Window < time + Second
  /\ \A n \in Recent(k) : time > now + Second => granted[k][n] + Window >= time

Refuse(k) ==
  /\ Cardinality(Recent(k)) >= LimitOf[k]
  /\ told' = [told EXCEPT ![k] = told'[k]] /\ FairlyTold(k, told'[k])
  /\ UNCHANGED <<now, granted>>

Tick == now' = now + 1 /\ UNCHANGED <<granted, told>>

Next == (\E k \in Keys : Grant(k) \/ Refuse(k)) \/ Tick

Spec == Init /\ [][Next]_windowVars
================================================================================
