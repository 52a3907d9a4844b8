--------------------------- MODULE MCProviderBreaker ---------------------------
(***************************************************************************)
(* Instances of ProviderBreaker.  Ticks are coarse: a backoff takes 1, the *)
(* server cooldown 2, the authentication cooldown 3.                       *)
(***************************************************************************)
EXTENDS ProviderBreaker

CONSTANTS c1, c2
================================================================================
