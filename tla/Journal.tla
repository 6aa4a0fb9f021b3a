-------------------------------- MODULE Journal --------------------------------
(***************************************************************************)
(* The sync ops journal of one replica (web/src/sync/journal.ts).          *)
(*                                                                         *)
(* The source keeps the whole list of ops; every reader looks at the last  *)
(* op of a path, at its stamp and at the clock, so a journal is the record *)
(*    last   path -> the last op recorded for it (op = "none": never seen) *)
(*    clock  the logical clock of this replica                             *)
(*    top    the highest stamp of any op in the list, copies included      *)
(* A content is a number, NoFile is the absence of a file.                 *)
(***************************************************************************)
EXTENDS Integers

CONSTANT Path

ASSUME PathAssumption == Path # {}

NoFile == 0

NoOp == [op |-> "none", hash |-> NoFile, lamport |-> 0]
WriteOp(c, l) == [op |-> "write", hash |-> c, lamport |-> l]
DeleteOp(l) == [op |-> "delete", hash |-> NoFile, lamport |-> l]

SyncOp == [op : {"none", "write", "delete"}, hash : Nat, lamport : Nat]
JournalState == [last : [Path -> SyncOp], clock : Nat, top : Nat]

EmptyJournal == [last |-> [p \in Path |-> NoOp], clock |-> 0, top |-> 0]

Later(a, b) == IF a < b THEN b ELSE a

lamportFor(j, p) == j.last[p].lamport

(* The tombstone stamp a map advertises for a path; -1 when it has none.   *)
NoTomb == -1

deletion(j, p) == IF j.last[p].op = "delete" THEN j.last[p].lamport ELSE NoTomb

Append1(j, p, entry, clock) ==
  [last  |-> [j.last EXCEPT ![p] = entry],
   clock |-> clock,
   top   |-> Later(j.top, entry.lamport)]

(* A local mutation of p to content c (NoFile: a delete): the same op as   *)
(* the last one is not recorded again; any other is stamped above all that *)
(* this replica knows.                                                     *)
recordOp(j, p, c) ==
  LET base == Later(j.clock, lamportFor(j, p)) + 1
      entry == IF c = NoFile THEN DeleteOp(base) ELSE WriteOp(c, base)
  IN  IF j.last[p].op = entry.op /\ j.last[p].hash = c
      THEN j
      ELSE Append1(j, p, entry, base)

(* An applied remote op keeps its origin's stamp; an older one than what   *)
(* is held is not recorded.                                                *)
recordRemoteOp(j, p, c, l) ==
  LET entry == IF c = NoFile THEN DeleteOp(l) ELSE WriteOp(c, l)
      clock == Later(j.clock, l)
  IN  IF l < lamportFor(j, p) \/ j.last[p] = entry
      THEN [j EXCEPT !.clock = clock]
      ELSE Append1(j, p, entry, clock)

(* A conflict copy is a file of its own, outside the synced surface: of    *)
(* its journal op only the stamp it takes from the clock is kept.          *)
recordCopy(j) ==
  [j EXCEPT !.clock = @ + 1, !.top = Later(@, j.clock + 1)]

(* A restart reads the persisted list: the clock is its highest stamp.     *)
load(saved) == [saved EXCEPT !.clock = saved.top]
================================================================================
