----------------------------- MODULE MCRunLog -----------------------------
(* Two chats of one profile; they are alike. *)
EXTENDS RunLog, TLC
Symmetry == Permutations(Session)
=============================================================================
