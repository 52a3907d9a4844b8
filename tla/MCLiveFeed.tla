------------------------------- MODULE MCLiveFeed -------------------------------
(***************************************************************************)
(* Instances of LiveFeed.                                                  *)
(***************************************************************************)
EXTENDS LiveFeed, TLC

CONSTANTS a, b, g, h, c1, c2

TwoArticles == {a, b}
Mixed == {a, g, h}
KindOf == (a :> "article" @@ b :> "article" @@ g :> "gdelt" @@ h :> "webhook")
TwoArticlesKinds == [e \in TwoArticles |-> KindOf[e]]
MixedKinds == [e \in Mixed |-> KindOf[e]]
================================================================================
