------------------------------- MODULE Reconcile -------------------------------
(***************************************************************************)
(* The decision of one reconcile round (SyncEngine.myMap, conflictWinner   *)
(* and applyDifference in web/src/sync/engine.ts): what a replica          *)
(* advertises, and which paths it pulls when a peer's map arrives.         *)
(*                                                                         *)
(* A map is a record of functions of the path: the content hash (NoFile    *)
(* when absent), its mtime (0 when the adapter reports none), the journal  *)
(* stamp and the tombstone stamp.                                          *)
(***************************************************************************)
EXTENDS Journal

myMap(files, mtimes, j) ==
  [hash |-> files,
   mtime |-> mtimes,
   lamport |-> [p \in Path |-> IF files[p] = NoFile THEN 0 ELSE lamportFor(j, p)],
   deletes |-> [p \in Path |-> deletion(j, p)]]

(* "theirs" when the peer's version of a path that differs on both sides   *)
(* wins: by stamp, then by mtime when neither side has journaled the path  *)
(* and both report one, then the smaller replica id.                       *)
theirsWins(myLamport, myMtime, myId, theirLamport, theirMtime, theirId) ==
  LET unjournaled == myLamport = 0 /\ theirLamport = 0
      dated == unjournaled /\ myMtime > 0 /\ theirMtime > 0
  IN  \/ dated /\ theirMtime > myMtime
      \/ ~dated /\ theirLamport > myLamport
      \/ /\ IF dated THEN theirMtime = myMtime ELSE theirLamport = myLamport
         /\ theirId < myId

(* Mutant: the age of my own write is not compared.                        *)
tombstonePull_Always(j, mine, theirs, p) ==
  theirs.deletes[p] # NoTomb /\ mine.hash[p] # NoFile

(* Their tombstone is pulled unless my own last op is a newer write.       *)
tombstonePull(j, mine, theirs, p) ==
  /\ theirs.deletes[p] # NoTomb
  /\ mine.hash[p] # NoFile
  /\ ~(j.last[p].op = "write" /\ lamportFor(j, p) > theirs.deletes[p])

(* Mutant: only a newer stamp is pulled, and an unjournaled file has none. *)
missingPull_Newer(j, mine, theirs, p) ==
  mine.hash[p] = NoFile /\ theirs.hash[p] # NoFile /\ theirs.lamport[p] > lamportFor(j, p)

(* A path only they have is pulled unless my last op deleted it.           *)
missingPull(j, mine, theirs, p) ==
  /\ mine.hash[p] = NoFile
  /\ theirs.hash[p] # NoFile
  /\ j.last[p].op # "delete"

conflict(mine, theirs, p) ==
  /\ mine.hash[p] # NoFile
  /\ theirs.hash[p] # NoFile
  /\ mine.hash[p] # theirs.hash[p]

conflictPull(j, mine, theirs, p, myId, theirId) ==
  /\ conflict(mine, theirs, p)
  /\ theirsWins(lamportFor(j, p), mine.mtime[p], myId,
                theirs.lamport[p], theirs.mtime[p], theirId)

pullSet(j, mine, theirs, myId, theirId) ==
  {p \in Path : \/ tombstonePull(j, mine, theirs, p)
                \/ missingPull(j, mine, theirs, p)
                \/ conflictPull(j, mine, theirs, p, myId, theirId)}

conflictSet(mine, theirs) == {p \in Path : conflict(mine, theirs, p)}
================================================================================
