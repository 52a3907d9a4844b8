------------------------------ MODULE MCSharedNotes ------------------------------
(***************************************************************************)
(* Instances of SharedNotes: one page and one note; one edit changes the   *)
(* text only, one the author only.                                         *)
(***************************************************************************)
EXTENDS SharedNotes, TLC

CONSTANTS n1, c0, c1, a0, a1

MCDraft == n1 :> [content |-> c0, author |-> a0]
MCEdits == {[content |-> c1, author |-> a0], [content |-> c0, author |-> a1]}
================================================================================
