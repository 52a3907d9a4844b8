--------------------------- MODULE MCArticlePipeline ---------------------------
(***************************************************************************)
(* The instance of ArticlePipeline for TLC.  Two articles of one country   *)
(* are about different events, so that two coroutines with the same article*)
(* in hand elect among its two copies, and no lead changes; elections that *)
(* change it are checked through MCDemoSeeding.                            *)
(***************************************************************************)
EXTENDS ArticlePipeline

CONSTANTS w1, w2, u1, u2, t1, t2, c1, c2, v1, v2, r1, r2, r3

MCRowIds == {r1, r2, r3}

Art(u, t, cc, rep, v) ==
  [url |-> u, title |-> t, cc |-> cc, rep |-> rep, vec |-> v, recent |-> TRUE]

FlatA == Art(u1, t1, c1, 1, v1)
FlatB == Art(u2, t2, c1, 3, v2)
FlatA2 == Art(u1, t1, c2, 1, v1)   \* the same article, fetched for another country
FlatArticles == {FlatA, FlatB, FlatA2}

(* The last batch repeats a URL: the table refuses it until the first one  *)
(* is stored.                                                              *)
FlatBatches == {<<FlatA>>, <<FlatB, FlatA>>, <<FlatA, FlatA2>>}
================================================================================
