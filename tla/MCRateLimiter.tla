----------------------------- MODULE MCRateLimiter -----------------------------
(***************************************************************************)
(* An instance of RateLimiter: two routes with one limit and one parent,   *)
(* which therefore share a list.                                           *)
(***************************************************************************)
EXTENDS RateLimiter

SharedRoutes == {"/api/news/all", "/api/news/country"}
SharedLimit == [r \in SharedRoutes |-> 2]
SharedParent == [r \in SharedRoutes |-> "/api/news"]
================================================================================
