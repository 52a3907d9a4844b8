----------------------------- MODULE MCDemoSeeding -----------------------------
(***************************************************************************)
(* Instances of DemoSeeding: two batches of one demo article each, and     *)
(* three ingested articles, two of them reports of one event, the second   *)
(* from a better source and also scraped.                                  *)
(***************************************************************************)
EXTENDS DemoSeeding, TLC

CONSTANTS w1, s1, s2, u1, u2, u3, t1, t2, t3, t4, t5, c1, v1, v2,
          r1, r2, r3, r4, r5

Art(u, t, r, v) ==
  [url |-> u, title |-> t, cc |-> c1, rep |-> r, vec |-> v, recent |-> TRUE]

reportA == Art(u1, t1, 1, v1)
reportB == Art(u2, t2, 3, v1)
other   == Art(u3, t3, 3, v2)

EventArticles == {reportA, reportB, other}
ChainBatches  == {<<reportA>>, <<reportB>>, <<other, reportA>>}
OnlyB == {reportB}

MCSeedBatches == <<{Art(s1, t4, 1, v2)}, {Art(s2, t5, 1, NoVec)}>>
MCUrls == {s1, s2, u1, u2, u3}
MCTitles == {t1, t2, t3, t4, t5}
MCVectors == {v1, v2}
MCRowIds == {r1, r2, r3, r4, r5}
================================================================================
