------------------------------ MODULE ArticleStore ------------------------------
(***************************************************************************)
(* What the ingestion pipeline promises about one article, told without    *)
(* batches, sessions or workers: it is announced on the live stream, then  *)
(* stored, and only a stored article may be marked as seen.  A mark may be *)
(* lost; announcing and storing are never taken back.                      *)
(***************************************************************************)
CONSTANT Urls
VARIABLES announced, stored, seen

storeVars == <<announced, stored, seen>>

Init == announced = {} /\ stored = {} /\ seen = {}

Announce(u) ==
  /\ announced' = announced \cup {u}
  /\ UNCHANGED <<stored, seen>>

(* A transaction stores a set of announced articles, all or none.          *)
Persist(S) ==
  /\ S \subseteq announced
  /\ stored' = stored \cup S
  /\ UNCHANGED <<announced, seen>>

MarkSeen(u) ==
  /\ u \in stored
  /\ seen' = seen \cup {u}
  /\ UNCHANGED <<announced, stored>>

Forget(u) ==
  /\ seen' = seen \ {u}
  /\ UNCHANGED <<announced, stored>>

Next ==
  \/ \E u \in Urls : Announce(u) \/ MarkSeen(u) \/ Forget(u)
  \/ \E S \in SUBSET Urls : Persist(S)

Spec == Init /\ [][Next]_storeVars
================================================================================
