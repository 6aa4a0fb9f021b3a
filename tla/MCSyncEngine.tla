----------------------------- MODULE MCSyncEngine -----------------------------
(* Instances of SyncEngine for TLC.                                        *)
EXTENDS SyncEngine

Pair == {{1, 2}}
Line == {{1, 3}, {2, 3}}
=============================================================================
