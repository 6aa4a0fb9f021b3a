------------------------------ MODULE SingleHost ------------------------------
(***************************************************************************)
(* What a host lease promises (web/src/host-lease.ts): exactly one tab may *)
(* run turns against a workspace.  A tab becomes the host only when there  *)
(* is none, and the host may cease to be it.                               *)
(***************************************************************************)
CONSTANT Tab

VARIABLE host     \* the tabs that may run turns

Init == host = {}

Take == host = {} /\ \E t \in Tab : host' = {t}

Leave == host # {} /\ host' = {}

Spec == Init /\ [][Take \/ Leave]_host
===============================================================================
