--------------------------- MODULE SyncEngineProofs ---------------------------
(***************************************************************************)
(* Theorems about the sync engine, for every set of replicas, links, paths *)
(* and every bound:                                                        *)
(*   TypeCorrect      the type invariant                                   *)
(*   StampsGrow       what a journal says of a path never becomes older    *)
(*   NoEditIsLost     without deletes every edit survives crashes, lost    *)
(*                    links and running rounds, but for one that a pull    *)
(*                    overwrites without having read it                    *)
(*   JournalTellsDisk, TombstonesYield                                     *)
(*                    without edits under a running round and without      *)
(*                    crashes, the journal describes the disk, and no      *)
(*                    tombstone removes a file that was written later      *)
(*   OneSideYields    of two replicas that read each other's maps, exactly *)
(*                    one pulls a path they disagree on                    *)
(*   QuietIsAgreed    without deletes, edits under a running round and     *)
(*                    timeouts, pairs of replicas that owe each other      *)
(*                    nothing have the same files, through every lost      *)
(*                    connection; with crashes when no file has a time     *)
(***************************************************************************)
EXTENDS SyncEngine, SequenceTheorems, FiniteSetTheorems, TLAPS

-----------------------------------------------------------------------------
(* What the operators of a journal return, and that none makes the stamp   *)
(* of a path older.                                                        *)

(* Journal.recordOp keeps a journal a journal and never lowers a stamp.    *)
LEMMA recordOpType ==
  ASSUME NEW j \in JournalState, NEW p \in Path, NEW c \in Nat
  PROVE  /\ recordOp(j, p, c) \in JournalState
         /\ \A q \in Path : lamportFor(recordOp(j, p, c), q) >= lamportFor(j, q)
<1>1. j.last[p] \in SyncOp /\ j.clock \in Nat /\ j.top \in Nat
  BY DEF JournalState
<1>. DEFINE base == Later(j.clock, lamportFor(j, p)) + 1
            entry == IF c = NoFile THEN DeleteOp(base) ELSE WriteOp(c, base)
<1>2. base \in Nat /\ base > lamportFor(j, p)
  BY <1>1 DEF Later, lamportFor, SyncOp
<1>3. entry \in SyncOp /\ entry.lamport = base
  BY <1>2 DEF SyncOp, DeleteOp, WriteOp, NoFile
<1>. HIDE DEF base, entry
<1>4. recordOp(j, p, c) \in {j, Append1(j, p, entry, base)}
  BY DEF recordOp, base, entry
<1>5. /\ Append1(j, p, entry, base) \in JournalState
      /\ \A q \in Path : lamportFor(Append1(j, p, entry, base), q) >= lamportFor(j, q)
  BY <1>1, <1>2, <1>3 DEF Append1, Later, lamportFor, JournalState, SyncOp
<1>6. \A q \in Path : lamportFor(j, q) >= lamportFor(j, q)
  BY DEF lamportFor, JournalState, SyncOp
<1>. QED BY <1>4, <1>5, <1>6

(* Journal.recordRemoteOp likewise: an older op is not recorded.           *)
LEMMA recordRemoteOpType ==
  ASSUME NEW j \in JournalState, NEW p \in Path, NEW c \in Nat, NEW l \in Nat
  PROVE  /\ recordRemoteOp(j, p, c, l) \in JournalState
         /\ \A q \in Path : lamportFor(recordRemoteOp(j, p, c, l), q) >= lamportFor(j, q)
<1>1. j.last[p] \in SyncOp /\ j.clock \in Nat /\ j.top \in Nat
  BY DEF JournalState
<1>. DEFINE entry == IF c = NoFile THEN DeleteOp(l) ELSE WriteOp(c, l)
            clock == Later(j.clock, l)
<1>2. entry \in SyncOp /\ entry.lamport = l /\ clock \in Nat
  BY <1>1 DEF SyncOp, DeleteOp, WriteOp, NoFile, Later
<1>. HIDE DEF clock, entry
<1>3. \/ recordRemoteOp(j, p, c, l) = [j EXCEPT !.clock = clock]
      \/ /\ recordRemoteOp(j, p, c, l) = Append1(j, p, entry, clock)
         /\ l >= lamportFor(j, p)
  BY <1>1 DEF recordRemoteOp, clock, entry, lamportFor, SyncOp
<1>4. CASE recordRemoteOp(j, p, c, l) = [j EXCEPT !.clock = clock]
  BY <1>1, <1>2, <1>4 DEF JournalState, lamportFor, SyncOp
<1>5. CASE /\ recordRemoteOp(j, p, c, l) = Append1(j, p, entry, clock)
           /\ l >= lamportFor(j, p)
  BY <1>1, <1>2, <1>5 DEF Append1, Later, lamportFor, JournalState, SyncOp
<1>. QED BY <1>3, <1>4, <1>5

(* The op of a conflict copy takes a stamp and touches no synced path.     *)
LEMMA recordCopyType ==
  ASSUME NEW j \in JournalState
  PROVE  recordCopy(j) \in JournalState /\ recordCopy(j).last = j.last
<1>1. j.clock + 1 \in Nat /\ Later(j.top, j.clock + 1) \in Nat
  BY DEF JournalState, Later
<1>. QED BY <1>1 DEF JournalState, recordCopy

(* A restarted journal has the ops that were saved.                        *)
LEMMA loadType ==
  ASSUME NEW j \in JournalState
  PROVE  load(j) \in JournalState /\ load(j).last = j.last
  BY DEF JournalState, load

-----------------------------------------------------------------------------
(* The type invariant.                                                     *)

(* The map a replica sends is a map.                                       *)
LEMMA MyMapType ==
  ASSUME TypeOK, NEW r \in Replica
  PROVE  MyMap(r) \in Map
<1>1. /\ disk[r] \in [Path -> File] /\ mtime[r] \in [Path -> Nat]
      /\ journal[r] \in JournalState
  BY DEF TypeOK
<1>2. \A p \in Path : journal[r].last[p] \in SyncOp
  BY <1>1 DEF JournalState
<1>3. [p \in Path |-> IF disk[r][p] = NoFile THEN 0 ELSE lamportFor(journal[r], p)]
        \in [Path -> Stamps]
  BY <1>2 DEF lamportFor, SyncOp, Stamps
<1>4. [p \in Path |-> deletion(journal[r], p)] \in [Path -> Stamps \cup {NoTomb}]
  BY <1>2 DEF deletion, SyncOp, Stamps
<1>. QED BY <1>1, <1>3, <1>4 DEF MyMap, myMap, Map

LEMMA IdleType == Idle \in Job
<1>3. NoFile \in File /\ (CHOOSE r \in Replica : TRUE) \in Replica
  BY DataAssumption, ReplicaAssumption DEF File, NoFile
<1>1. NoMap \in Map
  BY <1>3 DEF NoMap, Map, Stamps
<1>2. (CHOOSE p \in Path : TRUE) \in Path
  BY PathAssumption
<1>. QED BY <1>1, <1>2, <1>3 DEF Idle, Job, Phase, Stamps

(* Updating the fields of a job leaves a job.                              *)
LEMMA JobType ==
  ASSUME NEW b \in Job
  PROVE  /\ \A ph \in Phase : [b EXCEPT !.phase = ph] \in Job
         /\ \A ph \in Phase, p \in Path, T \in SUBSET Path :
              [b EXCEPT !.phase = ph, !.path = p, !.todo = T] \in Job
         /\ \A ph \in Phase, d \in File, l \in Stamps :
              [b EXCEPT !.phase = ph, !.data = d, !.lamport = l] \in Job
         /\ \A ph \in Phase, c \in File : [b EXCEPT !.phase = ph, !.local = c] \in Job
         /\ \A ph \in Phase, d, c \in File, l \in Stamps :
              [b EXCEPT !.phase = ph, !.data = d, !.lamport = l, !.local = c] \in Job
         /\ \A ok \in BOOLEAN : [b EXCEPT !.live = ok] \in Job
<1>. USE DEF Job
<1>1. \A ph \in Phase : [b EXCEPT !.phase = ph] \in Job
  OBVIOUS
<1>2. \A ph \in Phase, p \in Path, T \in SUBSET Path :
        [b EXCEPT !.phase = ph, !.path = p, !.todo = T] \in Job
  OBVIOUS
<1>3. \A ph \in Phase, d \in File, l \in Stamps :
        [b EXCEPT !.phase = ph, !.data = d, !.lamport = l] \in Job
  OBVIOUS
<1>4. \A ph \in Phase, c \in File : [b EXCEPT !.phase = ph, !.local = c] \in Job
  OBVIOUS
<1>5. \A ph \in Phase, d, c \in File, l \in Stamps :
        [b EXCEPT !.phase = ph, !.data = d, !.lamport = l, !.local = c] \in Job
  OBVIOUS
<1>6. \A ok \in BOOLEAN : [b EXCEPT !.live = ok] \in Job
  OBVIOUS
<1>. QED BY <1>1, <1>2, <1>3, <1>4, <1>5, <1>6

(* A replica's queue with a map of r added.                                *)
LEMMA SendType ==
  ASSUME TypeOK, NEW r \in Replica, NEW s \in Replica, NEW b \in BOOLEAN, Send(r, s, b)
  PROVE  inbox' \in [Replica -> [Replica -> Seq(Letter)]]
<1>1. [live |-> TRUE, map |-> MyMap(r), reply |-> b] \in Letter
  BY MyMapType DEF Letter
<1>. QED BY <1>1 DEF Send, TypeOK

(* Closed keeps some first letters of a queue.                             *)
LEMMA ClosedType ==
  ASSUME NEW q \in Seq(Letter), NEW n \in Nat
  PROVE  Closed(q, n) \in Seq(Letter)
<1>. DEFINE kept == IF n < Len(q) THEN n ELSE Len(q)
            e(i) == [q[i] EXCEPT !.live = FALSE]
<1>1. kept \in Nat /\ \A i \in 1 .. kept : i \in 1 .. Len(q)
  BY LenProperties
<1>2. \A i \in 1 .. kept : e(i) \in Letter
  <2>. TAKE i \in 1 .. kept
  <2>1. q[i] \in Letter
    BY <1>1, ElementOfSeq
  <2>. QED BY <2>1 DEF Letter
<1>3. [i \in 1 .. kept |-> e(i)] \in Seq(Letter)
  <2>. HIDE DEF kept, e
  <2>. QED BY <1>1, <1>2, IsASeq
<1>. QED BY <1>3 DEF Closed

LEMMA InitType == Init => TypeOK
<1>. SUFFICES ASSUME Init PROVE TypeOK
  OBVIOUS
<1>1. 0 .. Seed \subseteq File /\ Seed \in File /\ MTime \subseteq Nat
  BY DataAssumption DEF File
<1>2. EmptyJournal \in JournalState
  BY DEF EmptyJournal, JournalState, SyncOp, NoOp, NoFile
<1>3. \A r \in Replica : disk[r] \in [Path -> File] /\ mtime[r] \in [Path -> Nat]
  <2>1. {0} \cup MTime \subseteq Nat
    BY <1>1
  <2>. QED BY <1>1, <2>1 DEF Init
<1>4. disk \in [Replica -> [Path -> File]] /\ mtime \in [Replica -> [Path -> Nat]]
  BY <1>3 DEF Init
<1>5. NoFaults \in [drop : Nat, crash : Nat, timeout : Nat]
  BY DEF NoFaults
<1>. QED BY <1>1, <1>2, <1>4, <1>5, IdleType DEF Init, TypeOK

(* Every step keeps the types: one step of the proof per action.           *)
LEMMA NextType == TypeOK /\ [Next]_vars => TypeOK'
<1>. SUFFICES ASSUME TypeOK, [Next]_vars PROVE TypeOK'
  OBVIOUS
<1>. USE DEF vars, storage, channel, ghosts
<1>1. ASSUME NEW r \in Replica, NEW p \in Path, UserWrite(r, p) PROVE TypeOK'
  <2>1. made' \in File /\ MTime \subseteq Nat
    BY <1>1, DataAssumption DEF UserWrite, TypeOK, File
  <2>2. disk[r][p] \in File
    BY DEF TypeOK
  <2>3. disk' \in [Replica -> [Path -> File]]
    BY <1>1, <2>1 DEF UserWrite, TypeOK
  <2>4. mtime' \in [Replica -> [Path -> Nat]]
    BY <1>1, <2>1 DEF UserWrite, TypeOK
  <2>5. dirty' \in [Replica -> SUBSET Path] /\ retired' \subseteq File /\ unread' \subseteq File
    BY <1>1, <2>2 DEF UserWrite, TypeOK
  <2>. QED BY <1>1, <2>1, <2>3, <2>4, <2>5 DEF UserWrite, TypeOK
<1>2. ASSUME NEW r \in Replica, NEW p \in Path, UserDelete(r, p) PROVE TypeOK'
  <2>1. NoFile \in File /\ disk[r][p] \in File
    BY DataAssumption DEF TypeOK, File, NoFile
  <2>. QED BY <1>2, <2>1 DEF UserDelete, TypeOK
<1>3. ASSUME NEW r \in Replica, NEW p \in Path, NoteMutation(r, p) PROVE TypeOK'
  <2>1. disk[r][p] \in Nat /\ journal[r] \in JournalState
    BY DataAssumption DEF TypeOK, File
  <2>2. recordOp(journal[r], p, disk[r][p]) \in JournalState
    BY <2>1, recordOpType
  <2>. QED BY <1>3, <2>2 DEF NoteMutation, ArmTimer, TypeOK
<1>4. ASSUME NEW r \in Replica, FireTimer(r) PROVE TypeOK'
  BY <1>4 DEF FireTimer, TypeOK
<1>5. ASSUME NEW r \in Replica, NEW s \in Replica, SendMap(r, s) PROVE TypeOK'
  BY <1>5, SendType DEF SendMap, TypeOK
<1>6. ASSUME NEW r \in Replica, NEW s \in Replica, StartEnvelope(r, s) PROVE TypeOK'
  <2>. DEFINE letter == Head(inbox[r][s])
  <2>1. inbox[r][s] \in Seq(Letter) /\ inbox[r][s] # <<>>
    BY <1>6 DEF StartEnvelope, TypeOK
  <2>2. letter \in Letter /\ Tail(inbox[r][s]) \in Seq(Letter)
    BY <2>1, HeadTailProperties
  <2>. HIDE DEF letter
  <2>3. stampsOf(journal[r], letter.map) \subseteq Nat
    BY <2>2 DEF stampsOf, Letter, Map, Stamps, TypeOK, JournalState
  <2>4. journal' \in [Replica -> JournalState]
    <3>1. PICK high \in Nat : journal' = [journal EXCEPT ![r] = [@ EXCEPT !.clock = high]]
      BY <1>6, <2>3 DEF StartEnvelope, letter
    <3>2. journal[r] \in JournalState
      BY DEF TypeOK
    <3>3. [journal[r] EXCEPT !.clock = high] \in JournalState
      BY <3>2 DEF JournalState
    <3>. QED BY <3>1, <3>3 DEF TypeOK
  <2>5. job' \in [Replica -> Job]
    <3>1. pullSet(journal[r], MyMap(r), letter.map, r, s) \subseteq Path
      BY DEF pullSet
    <3>2. s \in Nat
      BY ReplicaAssumption
    <3>3. ASSUME NEW T \in SUBSET Path, NEW b \in BOOLEAN
          PROVE [Idle EXCEPT !.phase = "pulling", !.peer = s, !.live = letter.live,
                   !.map = letter.map, !.reply = letter.reply, !.todo = T,
                   !.conflicted = b] \in Job
      BY <2>2, <3>2, IdleType DEF Job, Letter, Phase
    <3>. QED BY <1>6, <3>1, <3>3 DEF StartEnvelope, letter, TypeOK
  <2>6. inbox' \in [Replica -> [Replica -> Seq(Letter)]]
    BY <1>6, <2>2 DEF StartEnvelope, TypeOK
  <2>. QED BY <1>6, <2>4, <2>5, <2>6 DEF StartEnvelope, TypeOK
<1>7. ASSUME NEW r \in Replica, RequestPull(r) PROVE TypeOK'
  <2>1. job' \in [Replica -> Job]
    <3>1. job[r] \in Job /\ job[r].todo \in SUBSET Path
      BY DEF TypeOK, Job
    <3>2. PICK p \in job[r].todo :
            job' = [job EXCEPT ![r] =
                     [@ EXCEPT !.phase = IF job[r].live THEN "asked" ELSE "pulling",
                               !.path = p, !.todo = job[r].todo \ {p}]]
      BY <1>7 DEF RequestPull
    <3>3. (IF job[r].live THEN "asked" ELSE "pulling") \in Phase
      BY DEF Phase
    <3>4. p \in Path /\ job[r].todo \ {p} \in SUBSET Path
      BY <3>1
    <3>5. [job[r] EXCEPT !.phase = IF job[r].live THEN "asked" ELSE "pulling",
                         !.path = p, !.todo = job[r].todo \ {p}] \in Job
      BY <3>1, <3>3, <3>4, JobType
    <3>. QED BY <3>2, <3>5 DEF TypeOK
  <2>. QED BY <1>7, <2>1 DEF RequestPull, TypeOK
<1>8. ASSUME NEW r \in Replica, NEW s \in Replica, answerFile(s, r) PROVE TypeOK'
  <2>1. job[r].path \in Path /\ NoFile \in File
    BY DataAssumption DEF TypeOK, Job, File, NoFile
  <2>2. journal[s].last[job[r].path] \in SyncOp /\ job[r] \in Job
    BY <2>1 DEF TypeOK, JournalState
  <2>3. disk[s][job[r].path] \in File /\ lamportFor(journal[s], job[r].path) \in Stamps
    BY <2>1, <2>2 DEF TypeOK, SyncOp, lamportFor, Stamps
  <2>4. job' \in [Replica -> Job]
    <3>1. PICK d \in File : job' = [job EXCEPT ![r] =
            [@ EXCEPT !.phase = "told", !.data = d,
                      !.lamport = lamportFor(journal[s], job[r].path)]]
      BY <1>8, <2>1, <2>3 DEF answerFile
    <3>2. "told" \in Phase
      BY DEF Phase
    <3>3. [job[r] EXCEPT !.phase = "told", !.data = d,
                         !.lamport = lamportFor(journal[s], job[r].path)] \in Job
      BY <2>2, <2>3, <3>2, JobType
    <3>. QED BY <3>1, <3>3 DEF TypeOK
  <2>. QED BY <1>8, <2>4 DEF answerFile, TypeOK
<1>9. ASSUME NEW r \in Replica PROVE Settled(job[r]) \in Job
  <2>1. "pulling" \in Phase /\ NoFile \in File /\ 0 \in Stamps /\ job[r] \in Job
    BY DataAssumption DEF Phase, File, NoFile, Stamps, TypeOK
  <2>. QED BY <2>1, JobType DEF Settled
<1>10. ASSUME NEW r \in Replica, PullTimeout(r) PROVE TypeOK'
  <2>1. faults' \in [drop : Nat, crash : Nat, timeout : Nat]
    <3>1. faults \in [drop : Nat, crash : Nat, timeout : Nat]
      BY DEF TypeOK
    <3>2. [faults EXCEPT !.timeout = @ + 1] \in [drop : Nat, crash : Nat, timeout : Nat]
      BY <3>1
    <3>. QED BY <1>10, <3>1, <3>2 DEF PullTimeout
  <2>. QED BY <1>9, <1>10, <2>1 DEF PullTimeout, TypeOK
<1>11. ASSUME NEW r \in Replica, applyRemoteDelete(r) PROVE TypeOK'
  <2>1. /\ job[r].path \in Path /\ NoFile \in File /\ NoFile \in Nat
        /\ job[r].lamport \in Nat /\ journal[r] \in JournalState
    BY DataAssumption DEF TypeOK, Job, File, NoFile, Stamps
  <2>2. recordRemoteOp(journal[r], job[r].path, NoFile, job[r].lamport) \in JournalState
    BY <2>1, recordRemoteOpType
  <2>. QED BY <1>9, <1>11, <2>1, <2>2 DEF applyRemoteDelete, TypeOK
<1>12. ASSUME NEW r \in Replica, DiscardAnswer(r) PROVE TypeOK'
  BY <1>9, <1>12 DEF DiscardAnswer, TypeOK
<1>13. ASSUME NEW r \in Replica, PullRead(r) PROVE TypeOK'
  <2>1. disk[r][job[r].path] \in File
    BY DEF TypeOK, Job
  <2>2. job' \in [Replica -> Job]
    <3>1. "write" \in Phase /\ job[r] \in Job
      BY DEF Phase, TypeOK
    <3>2. [job[r] EXCEPT !.phase = "write", !.local = disk[r][job[r].path]] \in Job
      BY <2>1, <3>1, JobType
    <3>. QED BY <1>13, <3>2 DEF PullRead, TypeOK
  <2>. QED BY <1>13, <2>2 DEF PullRead, TypeOK
<1>14. ASSUME NEW r \in Replica, PullWrite(r) PROVE TypeOK'
  <2>1. /\ job[r].path \in Path /\ job[r].data \in File /\ job[r].local \in File
        /\ MTime \subseteq Nat
    BY DataAssumption DEF TypeOK, Job
  <2>2. copies' \in [Replica -> [Path -> SUBSET Content]] /\ journal' \in [Replica -> JournalState]
    <3>1. CASE UNCHANGED <<copies, journal>>
      BY <3>1 DEF TypeOK
    <3>2. CASE job[r].local # NoFile /\ KeepCopy(r, job[r].path, job[r].local)
      <4>1. recordCopy(journal[r]) \in JournalState
        BY recordCopyType DEF TypeOK
      <4>2. job[r].local \in Content
        BY <2>1, <3>2 DEF Content
      <4>. QED BY <2>1, <3>2, <4>1, <4>2 DEF KeepCopy, TypeOK
    <3>. QED BY <1>14, <3>1, <3>2 DEF PullWrite
  <2>3. job' \in [Replica -> Job]
    <3>1. "note" \in Phase /\ job[r] \in Job
      BY DEF Phase, TypeOK
    <3>2. [job[r] EXCEPT !.phase = "note"] \in Job
      BY <3>1, JobType
    <3>. QED BY <1>14, <3>2 DEF PullWrite, TypeOK
  <2>. QED BY <1>14, <2>1, <2>2, <2>3 DEF PullWrite, TypeOK
<1>15. ASSUME NEW r \in Replica, PullNote(r) PROVE TypeOK'
  <2>1. /\ job[r].path \in Path /\ job[r].data \in Nat
        /\ job[r].lamport \in Nat /\ journal[r] \in JournalState
    BY DataAssumption DEF TypeOK, Job, File, Stamps
  <2>2. recordRemoteOp(journal[r], job[r].path, job[r].data, job[r].lamport) \in JournalState
    BY <2>1, recordRemoteOpType
  <2>. QED BY <1>9, <1>15, <2>2 DEF PullNote, TypeOK
<1>16. ASSUME NEW r \in Replica, Finish(r) PROVE TypeOK'
  <2>1. timer' \in [Replica -> SUBSET SUBSET Replica]
    <3>1. job[r].peer \in Replica
      BY DEF TypeOK, Job
    <3>2. ASSUME NEW told \in SUBSET Replica, ArmTimer(r, told)
          PROVE timer' \in [Replica -> SUBSET SUBSET Replica]
      BY <3>2 DEF ArmTimer, TypeOK
    <3>3. UNCHANGED timer \/ ArmTimer(r, {}) \/ ArmTimer(r, {job[r].peer})
      BY <1>16 DEF Finish
    <3>. QED BY <3>1, <3>2, <3>3 DEF TypeOK
  <2>2. saved' \in [Replica -> JournalState]
    BY <1>16 DEF Finish, TypeOK
  <2>3. job' \in [Replica -> Job]
    BY <1>16, IdleType DEF Finish, TypeOK
  <2>4. inbox' \in [Replica -> [Replica -> Seq(Letter)]]
    <3>1. job[r].peer \in Replica
      BY DEF TypeOK, Job
    <3>2. UNCHANGED inbox \/ Send(r, job[r].peer, TRUE)
      BY <1>16 DEF Finish
    <3>. QED BY <3>1, <3>2, SendType DEF TypeOK
  <2>. QED BY <1>16, <2>1, <2>2, <2>3, <2>4 DEF Finish, TypeOK
<1>17. ASSUME NEW r \in Replica, Persist(r) PROVE TypeOK'
  BY <1>17 DEF Persist, TypeOK
<1>18. ASSUME NEW r \in Replica, NEW s \in Replica, Attach(r, s) PROVE TypeOK'
  <2>1. due' \in [Replica -> SUBSET Replica] /\ up' \subseteq Link
    <3>1. due' = [[due EXCEPT ![r] = @ \cup {s}] EXCEPT ![s] = @ \cup {r}]
      BY <1>18 DEF Attach
    <3>2. [due EXCEPT ![r] = @ \cup {s}] \in [Replica -> SUBSET Replica]
      BY DEF TypeOK
    <3>3. due' \in [Replica -> SUBSET Replica]
      BY <3>1, <3>2
    <3>4. up' \subseteq Link
      BY <1>18 DEF Attach, TypeOK
    <3>. QED BY <3>3, <3>4
  <2>. QED BY <1>18, <2>1 DEF Attach, TypeOK
<1>19. ASSUME NEW links \in SUBSET up, NEW down \in SUBSET Replica, Sever(links, down)
       PROVE /\ up' \subseteq Link
             /\ due' \in [Replica -> SUBSET Replica]
             /\ inbox' \in [Replica -> [Replica -> Seq(Letter)]]
             /\ job' \in [Replica -> Job]
             /\ timer' \in [Replica -> SUBSET SUBSET Replica]
  <2>1. up' \subseteq Link /\ due' \in [Replica -> SUBSET Replica]
    BY <1>19 DEF Sever, TypeOK
  <2>2. inbox' \in [Replica -> [Replica -> Seq(Letter)]]
    <3>1. PICK heard \in [Replica -> 0 .. WireCap] :
            inbox' = [r \in Replica |-> [s \in Replica |->
                   CASE r \in down -> <<>>
                     [] r \notin down /\ {r, s} \in links -> Closed(inbox[r][s], heard[r])
                     [] OTHER -> inbox[r][s]]]
      BY <1>19 DEF Sever
    <3>2. \A r, s \in Replica : Closed(inbox[r][s], heard[r]) \in Seq(Letter)
      BY ClosedType DEF TypeOK
    <3>. QED BY <3>1, <3>2 DEF TypeOK
  <2>3. job' \in [Replica -> Job]
    <3>1. \A r \in Replica, ps \in SUBSET Replica : CloseJob(job[r], ps) \in Job
      <4>. TAKE r \in Replica, ps \in SUBSET Replica
      <4>1. job[r] \in Job /\ (job[r].live /\ job[r].peer \notin ps) \in BOOLEAN
        BY DEF TypeOK
      <4>. QED BY <4>1, JobType DEF CloseJob
    <3>. QED BY <1>19, <3>1, IdleType DEF Sever, gone
  <2>4. timer' \in [Replica -> SUBSET SUBSET Replica]
    <3>1. \A r \in Replica, ps \in SUBSET Replica : CloseTimer(timer[r], ps) \in SUBSET SUBSET Replica
      BY DEF CloseTimer, TypeOK
    <3>. QED BY <1>19, <3>1 DEF Sever, gone
  <2>. QED BY <2>1, <2>2, <2>3, <2>4
<1>20. ASSUME NEW r \in Replica, NEW s \in Replica, Drop(r, s) PROVE TypeOK'
  <2>1. {{r, s}} \in SUBSET up /\ {} \in SUBSET Replica /\ Sever({{r, s}}, {})
    BY <1>20 DEF Drop, connected
  <2>2. faults' \in [drop : Nat, crash : Nat, timeout : Nat]
    <3>1. faults \in [drop : Nat, crash : Nat, timeout : Nat]
      BY DEF TypeOK
    <3>2. [faults EXCEPT !.drop = @ + 1] \in [drop : Nat, crash : Nat, timeout : Nat]
      BY <3>1
    <3>. QED BY <1>20, <3>2 DEF Drop
  <2>. QED BY <1>19, <1>20, <2>1, <2>2 DEF Drop, TypeOK
<1>21. ASSUME NEW r \in Replica, Crash(r) PROVE TypeOK'
  <2>1. {l \in up : r \in l} \in SUBSET up /\ {r} \in SUBSET Replica
    OBVIOUS
  <2>2. faults' \in [drop : Nat, crash : Nat, timeout : Nat]
    <3>1. faults \in [drop : Nat, crash : Nat, timeout : Nat]
      BY DEF TypeOK
    <3>2. [faults EXCEPT !.crash = @ + 1] \in [drop : Nat, crash : Nat, timeout : Nat]
      BY <3>1
    <3>. QED BY <1>21, <3>2 DEF Crash
  <2>3. journal' \in [Replica -> JournalState]
    BY <1>21, loadType DEF Crash, TypeOK
  <2>. QED BY <1>19, <1>21, <2>1, <2>2, <2>3 DEF Crash, TypeOK
<1>22. CASE UNCHANGED vars
  BY <1>22 DEF TypeOK
<1>. QED BY <1>1, <1>2, <1>3, <1>4, <1>5, <1>6, <1>7, <1>8, <1>10, <1>11, <1>12, <1>13, <1>14,
            <1>15, <1>16, <1>17, <1>18, <1>20, <1>21, <1>22
         DEF Next, UserStep, EngineStep, PullStep, FaultStep

(* The state keeps its shape whatever users, peers and faults do.          *)
THEOREM TypeCorrect == Spec => []TypeOK
<1>. QED BY InitType, NextType, PTL DEF Spec

-----------------------------------------------------------------------------
(* Journals never go back.                                                 *)

(* Every step but a crash leaves each stamp as new as it was.              *)
LEMMA StampStep ==
  ASSUME TypeOK, [Next]_vars, NEW r \in Replica, NEW p \in Path
  PROVE  Crash(r) \/ lamportFor(journal'[r], p) >= lamportFor(journal[r], p)
<1>. DEFINE Grows == lamportFor(journal'[r], p) >= lamportFor(journal[r], p)
<1>. USE DEF vars, storage, channel, ghosts
<1>1. journal[r] \in JournalState /\ lamportFor(journal[r], p) \in Nat
  BY DEF TypeOK, JournalState, SyncOp, lamportFor
<1>2. ASSUME journal'[r].last = journal[r].last PROVE Grows
  BY <1>1, <1>2 DEF lamportFor
<1>3. ASSUME NEW s \in Replica, NEW q \in Path, NoteMutation(s, q) PROVE Grows
  <2>1. disk[s][q] \in Nat /\ journal[s] \in JournalState
    BY DataAssumption DEF TypeOK, File
  <2>2. journal' = [journal EXCEPT ![s] = recordOp(@, q, disk[s][q])]
    BY <1>3 DEF NoteMutation
  <2>. QED BY <1>2, <2>1, <2>2, recordOpType DEF TypeOK
<1>4. ASSUME NEW s \in Replica, NEW t \in Replica, StartEnvelope(s, t) PROVE Grows
  <2>1. PICK high : journal' = [journal EXCEPT ![s] = [@ EXCEPT !.clock = high]]
    BY <1>4 DEF StartEnvelope
  <2>2. [journal[r] EXCEPT !.clock = high].last = journal[r].last
    BY <1>1 DEF JournalState
  <2>. QED BY <1>2, <2>1, <2>2 DEF TypeOK
<1>5. ASSUME NEW s \in Replica, NEW c \in Nat,
             journal' = [journal EXCEPT ![s] = recordRemoteOp(@, job[s].path, c, job[s].lamport)]
      PROVE Grows
  <2>1. job[s].path \in Path /\ job[s].lamport \in Nat /\ journal[s] \in JournalState
    BY DEF TypeOK, Job, Stamps
  <2>. QED BY <1>2, <1>5, <2>1, recordRemoteOpType DEF TypeOK
<1>6. ASSUME NEW s \in Replica, applyRemoteDelete(s) PROVE Grows
  <2>1. NoFile \in Nat
    BY DEF NoFile
  <2>2. journal' = [journal EXCEPT ![s] = recordRemoteOp(@, job[s].path, NoFile, job[s].lamport)]
    BY <1>6 DEF applyRemoteDelete
  <2>. QED BY <1>5, <2>1, <2>2
<1>7. ASSUME NEW s \in Replica, PullNote(s) PROVE Grows
  <2>1. job[s].data \in Nat
    BY DataAssumption DEF TypeOK, Job, File
  <2>. QED BY <1>5, <1>7, <2>1 DEF PullNote
<1>8. ASSUME NEW s \in Replica, PullWrite(s) PROVE Grows
  <2>1. CASE UNCHANGED journal
    BY <1>2, <2>1
  <2>2. CASE journal' = [journal EXCEPT ![s] = recordCopy(@)]
    <3>1. recordCopy(journal[s]).last = journal[s].last
      BY recordCopyType DEF TypeOK
    <3>. QED BY <1>2, <2>2, <3>1 DEF TypeOK
  <2>. QED BY <1>8, <2>1, <2>2 DEF PullWrite, KeepCopy
<1>9. ASSUME NEW s \in Replica, Crash(s) PROVE Crash(r) \/ Grows
  BY <1>2, <1>9 DEF Crash, TypeOK
<1>10. CASE UNCHANGED journal
  BY <1>2, <1>10
<1>. QED
  BY <1>3, <1>4, <1>6, <1>7, <1>8, <1>9, <1>10
  DEF Next, UserStep, UserWrite, UserDelete, EngineStep, PullStep, FaultStep, FireTimer, SendMap,
      RequestPull, answerFile, PullTimeout, DiscardAnswer, PullRead, Finish, Persist, Attach, Drop

(* Whatever is pulled, edited and absorbed, the stamp a journal holds for  *)
(* a path only grows (Journal.recordOp and recordRemoteOp); only a crash   *)
(* may take a replica back to what it saved.                               *)
THEOREM StampsGrow == Spec => StampsNeverDecrease
<1>1. TypeOK /\ [Next]_vars =>
        [\A r \in Replica : Crash(r) \/ \A p \in Path :
           lamportFor(journal'[r], p) >= lamportFor(journal[r], p)]_vars
  BY StampStep
<1>. QED BY <1>1, TypeCorrect, PTL DEF Spec, StampsNeverDecrease

-----------------------------------------------------------------------------
(* No edit is lost.  Users edit at any time but delete nothing, no file is *)
(* empty and conflict copies have names of their own.                      *)

Undeleted == ~CanDelete /\ ~SameSecond /\ Empty = {}

Have(r, p) == disk[r][p] # NoFile

NoTombstone(j) == \A p \in Path : j.last[p].op # "delete"

(* Nobody has a tombstone, and what is still to be noted is a file.        *)
NothingDeleted ==
  \A r \in Replica :
    NoTombstone(journal[r]) /\ NoTombstone(saved[r]) /\ \A p \in dirty[r] : Have(r, p)

(* A map on its way lists files its sender has, and no tombstone.          *)
Truthful(files, m) ==
  \A p \in Path : m.deletes[p] = NoTomb /\ (m.hash[p] # NoFile => files[p] # NoFile)
AllTruthful(files, letters) == \A i \in 1 .. Len(letters) : Truthful(files, letters[i].map)
MapsTruthful == \A r, s \in Replica : AllTruthful(disk[s], inbox[r][s])

(* Only files the peer has are pulled, so an answer has bytes.             *)
PullSound(theirs, b) ==
  /\ b.phase # "idle" => \A p \in b.todo : theirs[p] # NoFile
  /\ b.phase = "asked" => theirs[b.path] # NoFile
  /\ b.phase \in {"told", "write", "note"} => b.data # NoFile
PullsSound == \A r \in Replica : PullSound(disk[job[r].peer], job[r])

(* The inductive invariant.                                                *)
EditInv == TypeOK /\ NothingDeleted /\ MapsTruthful /\ PullsSound /\ NoLostEdit

LEMMA EditInvInit == Init => EditInv
<1>. SUFFICES ASSUME Init PROVE EditInv
  OBVIOUS
<1>1. NothingDeleted
  BY DEF Init, NothingDeleted, NoTombstone, EmptyJournal, NoOp
<1>2. MapsTruthful
  <2>1. \A r, s \in Replica : inbox[r][s] = <<>>
    BY DEF Init
  <2>2. Len(<<>>) = 0
    OBVIOUS
  <2>. QED BY <2>1, <2>2 DEF MapsTruthful, AllTruthful
<1>3. PullsSound
  BY DEF Init, PullsSound, PullSound, Idle
<1>4. NoLostEdit
  BY DataAssumption DEF Init, NoLostEdit, Created, Content, File
<1>. QED BY <1>1, <1>2, <1>3, <1>4, InitType DEF EditInv

(* A pull never deletes: the answers in flight have bytes.                 *)
LEMMA NoRemoteDelete ==
  ASSUME EditInv, NEW r \in Replica
  PROVE  ~applyRemoteDelete(r)
  BY DEF EditInv, PullsSound, PullSound, applyRemoteDelete, answered

(* Which actions write a workspace, a saved journal, the paths to note.    *)
LEMMA Writers ==
  ASSUME [Next]_vars
  PROVE  /\ \/ UNCHANGED disk
            \/ \E s \in Replica, q \in Path : UserWrite(s, q) \/ UserDelete(s, q)
            \/ \E s \in Replica : applyRemoteDelete(s) \/ PullWrite(s)
         /\ UNCHANGED saved \/ \E s \in Replica : Finish(s) \/ Persist(s)
         /\ \/ UNCHANGED dirty
            \/ \E s \in Replica, q \in Path :
                 UserWrite(s, q) \/ UserDelete(s, q) \/ NoteMutation(s, q)
            \/ \E s \in Replica : Crash(s)
<1>. USE DEF vars, storage, channel, ghosts
<1>1. ASSUME NEW s \in Replica, NEW q \in Path, UserWrite(s, q) PROVE UNCHANGED <<saved>>
  BY <1>1 DEF UserWrite
<1>2. ASSUME NEW s \in Replica, NEW q \in Path, UserDelete(s, q) PROVE UNCHANGED <<saved>>
  BY <1>2 DEF UserDelete
<1>3. ASSUME NEW s \in Replica, NEW q \in Path, NoteMutation(s, q) PROVE UNCHANGED <<disk, saved>>
  BY <1>3 DEF NoteMutation
<1>4. ASSUME NEW s \in Replica, NEW t \in Replica, SendMap(s, t) PROVE UNCHANGED <<disk, saved, dirty>>
  BY <1>4 DEF SendMap
<1>5. ASSUME NEW s \in Replica, NEW t \in Replica, StartEnvelope(s, t) PROVE UNCHANGED <<disk, saved, dirty>>
  BY <1>5 DEF StartEnvelope
<1>6. ASSUME NEW s \in Replica, NEW t \in Replica, answerFile(s, t) PROVE UNCHANGED <<disk, saved, dirty>>
  BY <1>6 DEF answerFile
<1>7. ASSUME NEW s \in Replica, NEW t \in Replica, Attach(s, t) PROVE UNCHANGED <<disk, saved, dirty>>
  BY <1>7 DEF Attach
<1>8. ASSUME NEW s \in Replica, NEW t \in Replica, Drop(s, t) PROVE UNCHANGED <<disk, saved, dirty>>
  BY <1>8 DEF Drop
<1>9. ASSUME NEW s \in Replica, FireTimer(s) PROVE UNCHANGED <<disk, saved, dirty>>
  BY <1>9 DEF FireTimer
<1>10. ASSUME NEW s \in Replica, RequestPull(s) PROVE UNCHANGED <<disk, saved, dirty>>
  BY <1>10 DEF RequestPull
<1>11. ASSUME NEW s \in Replica, PullTimeout(s) PROVE UNCHANGED <<disk, saved, dirty>>
  BY <1>11 DEF PullTimeout
<1>12. ASSUME NEW s \in Replica, applyRemoteDelete(s) PROVE UNCHANGED <<saved, dirty>>
  BY <1>12 DEF applyRemoteDelete
<1>13. ASSUME NEW s \in Replica, DiscardAnswer(s) PROVE UNCHANGED <<disk, saved, dirty>>
  BY <1>13 DEF DiscardAnswer
<1>14. ASSUME NEW s \in Replica, PullRead(s) PROVE UNCHANGED <<disk, saved, dirty>>
  BY <1>14 DEF PullRead
<1>15. ASSUME NEW s \in Replica, PullWrite(s) PROVE UNCHANGED <<saved, dirty>>
  BY <1>15 DEF PullWrite
<1>16. ASSUME NEW s \in Replica, PullNote(s) PROVE UNCHANGED <<disk, saved, dirty>>
  BY <1>16 DEF PullNote
<1>17. ASSUME NEW s \in Replica, Finish(s) PROVE UNCHANGED <<disk, dirty>>
  BY <1>17 DEF Finish
<1>18. ASSUME NEW s \in Replica, Persist(s) PROVE UNCHANGED <<disk, dirty>>
  BY <1>18 DEF Persist
<1>19. ASSUME NEW s \in Replica, Crash(s) PROVE UNCHANGED <<disk, saved>>
  BY <1>19 DEF Crash
<1>20. CASE UNCHANGED vars
  BY <1>20
<1>. QED
  BY <1>1, <1>2, <1>3, <1>4, <1>5, <1>6, <1>7, <1>8, <1>9, <1>10,
     <1>11, <1>12, <1>13, <1>14, <1>15, <1>16, <1>17, <1>18, <1>19, <1>20
  DEF Next, UserStep, EngineStep, PullStep, FaultStep

(* Files stay: no step takes a path away from a replica.                   *)
LEMMA FilesStay ==
  ASSUME Undeleted, EditInv, [Next]_vars, NEW r \in Replica, NEW p \in Path, Have(r, p)
  PROVE  Have(r, p)'
<1>. USE DEF vars, storage, channel, ghosts, Have
<1>1. ASSUME NEW s \in Replica, NEW q \in Path, UserWrite(s, q) PROVE Have(r, p)'
  <2>1. made' # NoFile
    BY <1>1, DataAssumption DEF UserWrite, EditInv, TypeOK, File, NoFile
  <2>. QED BY <1>1, <2>1 DEF UserWrite, EditInv, TypeOK
<1>2. ASSUME NEW s \in Replica, NEW q \in Path, UserDelete(s, q) PROVE Have(r, p)'
  BY <1>2 DEF UserDelete, Undeleted
<1>3. ASSUME NEW s \in Replica, applyRemoteDelete(s) PROVE Have(r, p)'
  BY <1>3, NoRemoteDelete
<1>4. ASSUME NEW s \in Replica, PullWrite(s) PROVE Have(r, p)'
  <2>1. job[s].data # NoFile
    BY <1>4 DEF EditInv, PullsSound, PullSound, PullWrite
  <2>. QED BY <1>4, <2>1 DEF PullWrite, EditInv, TypeOK
<1>5. CASE UNCHANGED disk
  BY <1>5
<1>. QED BY <1>1, <1>2, <1>3, <1>4, <1>5, Writers

(* Journals learn of no tombstone: nothing that is noted or pulled is one. *)
LEMMA NothingDeletedStep ==
  ASSUME Undeleted, EditInv, [Next]_vars
  PROVE  NothingDeleted'
<1>. USE DEF vars, storage, channel, ghosts
<1>1. \A r \in Replica : NoTombstone(journal[r]) /\ NoTombstone(saved[r])
  BY DEF EditInv, NothingDeleted
<1>2. ASSUME NEW j \in JournalState, NoTombstone(j), NEW p \in Path, NEW c \in Nat, c # NoFile
      PROVE  NoTombstone(recordOp(j, p, c))
  BY <1>2 DEF NoTombstone, recordOp, Append1, WriteOp, JournalState
<1>3. ASSUME NEW j \in JournalState, NoTombstone(j), NEW p \in Path, NEW c \in Nat, c # NoFile,
             NEW l \in Nat
      PROVE  NoTombstone(recordRemoteOp(j, p, c, l))
  BY <1>3 DEF NoTombstone, recordRemoteOp, Append1, WriteOp, JournalState
<1>4. \A r \in Replica : NoTombstone(journal'[r])
  <2>1. ASSUME NEW s \in Replica, NEW q \in Path, NoteMutation(s, q)
        PROVE  \A r \in Replica : NoTombstone(journal'[r])
    <3>1. disk[s][q] \in Nat /\ disk[s][q] # NoFile /\ journal[s] \in JournalState
      BY <2>1, DataAssumption DEF NoteMutation, EditInv, NothingDeleted, Have, TypeOK, File
    <3>2. NoTombstone(recordOp(journal[s], q, disk[s][q]))
      BY <1>1, <1>2, <3>1
    <3>. QED BY <1>1, <2>1, <3>2 DEF NoteMutation, EditInv, TypeOK
  <2>2. ASSUME NEW s \in Replica, NEW t \in Replica, StartEnvelope(s, t)
        PROVE  \A r \in Replica : NoTombstone(journal'[r])
    <3>1. PICK high : journal' = [journal EXCEPT ![s] = [@ EXCEPT !.clock = high]]
      BY <2>2 DEF StartEnvelope
    <3>2. [journal[s] EXCEPT !.clock = high].last = journal[s].last
      BY DEF EditInv, TypeOK, JournalState
    <3>. QED BY <1>1, <3>1, <3>2 DEF NoTombstone, EditInv, TypeOK
  <2>3. ASSUME NEW s \in Replica, PullNote(s)
        PROVE  \A r \in Replica : NoTombstone(journal'[r])
    <3>1. /\ job[s].data \in Nat /\ job[s].lamport \in Nat /\ job[s].path \in Path
          /\ journal[s] \in JournalState
      BY DataAssumption DEF EditInv, TypeOK, Job, File, Stamps
    <3>2. job[s].data # NoFile
      BY <2>3 DEF EditInv, PullsSound, PullSound, PullNote
    <3>3. NoTombstone(recordRemoteOp(journal[s], job[s].path, job[s].data, job[s].lamport))
      BY <1>1, <1>3, <3>1, <3>2
    <3>. QED BY <1>1, <2>3, <3>3 DEF PullNote, EditInv, TypeOK
  <2>4. ASSUME NEW s \in Replica, PullWrite(s)
        PROVE  \A r \in Replica : NoTombstone(journal'[r])
    <3>1. recordCopy(journal[s]).last = journal[s].last
      BY recordCopyType DEF EditInv, TypeOK
    <3>2. UNCHANGED journal \/ journal' = [journal EXCEPT ![s] = recordCopy(@)]
      BY <2>4 DEF PullWrite, KeepCopy
    <3>. QED BY <1>1, <3>1, <3>2 DEF NoTombstone, EditInv, TypeOK
  <2>5. ASSUME NEW s \in Replica, Crash(s)
        PROVE  \A r \in Replica : NoTombstone(journal'[r])
    <3>1. load(saved[s]).last = saved[s].last
      BY loadType DEF EditInv, TypeOK
    <3>. QED BY <1>1, <2>5, <3>1 DEF Crash, NoTombstone, EditInv, TypeOK
  <2>6. ASSUME NEW s \in Replica, applyRemoteDelete(s) PROVE FALSE
    BY <2>6, NoRemoteDelete
  <2>7. CASE UNCHANGED journal
    BY <1>1, <2>7
  <2>. QED
    BY <2>1, <2>2, <2>3, <2>4, <2>5, <2>6, <2>7
    DEF Next, UserStep, UserWrite, UserDelete, EngineStep, PullStep, FaultStep, FireTimer,
        SendMap, RequestPull, answerFile, PullTimeout, DiscardAnswer, PullRead, Finish, Persist,
        Attach, Drop
<1>5. \A r \in Replica : NoTombstone(saved'[r])
  <2>1. ASSUME NEW s \in Replica, saved' = [saved EXCEPT ![s] = journal[s]]
        PROVE  \A r \in Replica : NoTombstone(saved'[r])
    BY <1>1, <2>1 DEF EditInv, TypeOK
  <2>2. CASE UNCHANGED saved
    BY <1>1, <2>2
  <2>. QED BY <2>1, <2>2, Writers DEF Finish, Persist
<1>6. \A r \in Replica : \A p \in dirty'[r] : Have(r, p)'
  <2>1. \A r \in Replica : \A p \in dirty[r] : p \in Path /\ Have(r, p)'
    BY FilesStay DEF EditInv, NothingDeleted, TypeOK
  <2>2. ASSUME NEW s \in Replica, NEW q \in Path, UserWrite(s, q)
        PROVE  \A r \in Replica : \A p \in dirty'[r] : Have(r, p)'
    <3>1. Have(s, q)'
      BY <2>2, DataAssumption DEF UserWrite, EditInv, TypeOK, Have, NoFile, File
    <3>. QED BY <2>1, <2>2, <3>1 DEF UserWrite, EditInv, TypeOK
  <2>3. CASE \A r \in Replica : dirty'[r] \subseteq dirty[r]
    BY <2>1, <2>3
  <2>4. ASSUME NEW s \in Replica, NEW q \in Path, UserDelete(s, q) PROVE FALSE
    BY <2>4 DEF UserDelete, Undeleted
  <2>5. ASSUME NEW s \in Replica, NEW q \in Path, NoteMutation(s, q)
        PROVE  \A r \in Replica : dirty'[r] \subseteq dirty[r]
    BY <2>5 DEF NoteMutation, EditInv, TypeOK
  <2>6. ASSUME NEW s \in Replica, Crash(s)
        PROVE  \A r \in Replica : dirty'[r] \subseteq dirty[r]
    BY <2>6 DEF Crash, EditInv, TypeOK
  <2>7. CASE UNCHANGED dirty
    BY <2>1, <2>7
  <2>. QED BY <2>2, <2>3, <2>4, <2>5, <2>6, <2>7, Writers
<1>. QED BY <1>4, <1>5, <1>6 DEF NothingDeleted, NoTombstone

(* What keeps letters truthful: more files, the head gone, a truthful one  *)
(* added, a connection closed.                                             *)
LEMMA TruthfulLetters ==
  ASSUME NEW f \in [Path -> File], NEW q \in Seq(Letter), AllTruthful(f, q)
  PROVE  /\ \A g \in [Path -> File] :
              (\A p \in Path : f[p] # NoFile => g[p] # NoFile) => AllTruthful(g, q)
         /\ q # <<>> => Truthful(f, Head(q).map) /\ AllTruthful(f, Tail(q))
         /\ \A l \in Letter : Truthful(f, l.map) => AllTruthful(f, Append(q, l))
         /\ \A n \in Nat : AllTruthful(f, Closed(q, n))
<1>1. Len(q) \in Nat /\ \A i \in 1 .. Len(q) : q[i] \in Letter
  BY LenProperties, ElementOfSeq
<1>2. ASSUME NEW g \in [Path -> File], \A p \in Path : f[p] # NoFile => g[p] # NoFile
      PROVE  AllTruthful(g, q)
  BY <1>2 DEF AllTruthful, Truthful
<1>3. ASSUME q # <<>> PROVE Truthful(f, Head(q).map) /\ AllTruthful(f, Tail(q))
  <2>1. /\ Head(q) = q[1] /\ Len(q) >= 1
        /\ Len(Tail(q)) = Len(q) - 1 /\ \A i \in 1 .. Len(Tail(q)) : Tail(q)[i] = q[i + 1]
    BY <1>3
  <2>. QED BY <1>1, <2>1 DEF AllTruthful
<1>4. ASSUME NEW l \in Letter, Truthful(f, l.map) PROVE AllTruthful(f, Append(q, l))
  BY <1>1, <1>4 DEF AllTruthful
<1>5. ASSUME NEW n \in Nat PROVE AllTruthful(f, Closed(q, n))
  <2>. DEFINE kept == IF n < Len(q) THEN n ELSE Len(q)
  <2>1. kept \in Nat /\ \A i \in 1 .. kept : i \in 1 .. Len(q)
    BY <1>1
  <2>. HIDE DEF kept
  <2>2. Closed(q, n) = [i \in 1 .. kept |-> [q[i] EXCEPT !.live = FALSE]]
    BY DEF Closed, kept
  <2>3. Len(Closed(q, n)) = kept
    BY <2>1, <2>2
  <2>4. \A i \in 1 .. kept : Closed(q, n)[i].map = q[i].map
    BY <1>1, <2>1, <2>2 DEF Letter
  <2>. QED BY <2>1, <2>3, <2>4 DEF AllTruthful
<1>. QED BY <1>2, <1>3, <1>4, <1>5

(* The maps that travel stay truthful.                                     *)
LEMMA MapsTruthfulStep ==
  ASSUME Undeleted, EditInv, [Next]_vars
  PROVE  MapsTruthful'
<1>. USE DEF vars, storage, channel, ghosts
<1>. SUFFICES ASSUME NEW r \in Replica, NEW s \in Replica
              PROVE  AllTruthful(disk'[s], inbox'[r][s])
  BY DEF MapsTruthful
<1>1. /\ disk[s] \in [Path -> File] /\ disk'[s] \in [Path -> File]
      /\ inbox[r][s] \in Seq(Letter) /\ inbox'[r][s] \in Seq(Letter)
  <2>1. TypeOK /\ TypeOK'
    BY NextType DEF EditInv
  <2>2. disk' \in [Replica -> [Path -> File]] /\ inbox' \in [Replica -> [Replica -> Seq(Letter)]]
    BY <2>1 DEF TypeOK
  <2>3. disk \in [Replica -> [Path -> File]] /\ inbox \in [Replica -> [Replica -> Seq(Letter)]]
    BY <2>1 DEF TypeOK
  <2>. QED BY <2>2, <2>3
<1>2. \A p \in Path : disk[s][p] # NoFile => disk'[s][p] # NoFile
  BY FilesStay DEF Have
<1>3. AllTruthful(disk[s], inbox[r][s])
  BY DEF EditInv, MapsTruthful
<1>4. ASSUME AllTruthful(disk[s], inbox'[r][s]) PROVE AllTruthful(disk'[s], inbox'[r][s])
  BY <1>1, <1>2, <1>4, TruthfulLetters
<1>5. ASSUME NEW a \in Replica, NEW b \in Replica, NEW c \in BOOLEAN, Send(a, b, c)
      PROVE  AllTruthful(disk[s], inbox'[r][s])
  <2>. DEFINE l == [live |-> TRUE, map |-> MyMap(a), reply |-> c]
  <2>1. l \in Letter
    BY MyMapType DEF EditInv, Letter
  <2>2. Truthful(disk[a], l.map)
    <3>1. \A p \in Path : deletion(journal[a], p) = NoTomb
      BY DEF EditInv, NothingDeleted, NoTombstone, deletion
    <3>. QED BY <3>1 DEF MyMap, myMap, Truthful
  <2>. HIDE DEF l
  <2>3. inbox'[r][s] = IF r = b /\ s = a THEN Append(inbox[r][s], l) ELSE inbox[r][s]
    BY <1>5 DEF Send, EditInv, TypeOK, l
  <2>. QED BY <1>1, <1>3, <2>1, <2>2, <2>3, TruthfulLetters
<1>6. ASSUME NEW a \in Replica, NEW b \in Replica, StartEnvelope(a, b)
      PROVE  AllTruthful(disk[s], inbox'[r][s])
  <2>1. inbox'[r][s] = IF r = a /\ s = b THEN Tail(inbox[r][s]) ELSE inbox[r][s]
    BY <1>6 DEF StartEnvelope, EditInv, TypeOK
  <2>2. r = a /\ s = b => inbox[r][s] # <<>>
    BY <1>6 DEF StartEnvelope
  <2>. QED BY <1>1, <1>3, <2>1, <2>2, TruthfulLetters
<1>7. ASSUME NEW links, NEW down, Sever(links, down) PROVE AllTruthful(disk[s], inbox'[r][s])
  <2>1. PICK n \in Nat : \/ inbox'[r][s] = <<>>
                         \/ inbox'[r][s] = Closed(inbox[r][s], n)
                         \/ inbox'[r][s] = inbox[r][s]
    BY <1>7 DEF Sever
  <2>2. AllTruthful(disk[s], <<>>)
    <3>1. Len(<<>>) = 0
      OBVIOUS
    <3>. QED BY <3>1 DEF AllTruthful
  <2>. QED BY <1>1, <1>3, <2>1, <2>2, TruthfulLetters
<1>8. ASSUME NEW a \in Replica, NEW b \in Replica, SendMap(a, b)
      PROVE  AllTruthful(disk[s], inbox'[r][s])
  BY <1>5, <1>8 DEF SendMap
<1>9. ASSUME NEW a \in Replica, Finish(a) PROVE AllTruthful(disk[s], inbox'[r][s])
  <2>1. job[a].peer \in Replica
    BY DEF EditInv, TypeOK, Job
  <2>2. UNCHANGED inbox \/ Send(a, job[a].peer, TRUE)
    BY <1>9 DEF Finish
  <2>. QED BY <1>3, <1>5, <2>1, <2>2
<1>10. ASSUME NEW a \in Replica, NEW b \in Replica, Drop(a, b)
       PROVE  AllTruthful(disk[s], inbox'[r][s])
  BY <1>7, <1>10 DEF Drop
<1>11. ASSUME NEW a \in Replica, Crash(a) PROVE AllTruthful(disk[s], inbox'[r][s])
  BY <1>7, <1>11 DEF Crash
<1>12. CASE UNCHANGED inbox
  BY <1>3, <1>4, <1>12
<1>. QED
  BY <1>4, <1>6, <1>8, <1>9, <1>10, <1>11, <1>12
  DEF Next, UserStep, UserWrite, UserDelete, EngineStep, PullStep, FaultStep, NoteMutation, FireTimer,
      RequestPull, answerFile, PullTimeout, applyRemoteDelete, DiscardAnswer, PullRead, PullWrite,
      PullNote, Persist, Attach

(* The pull being made stays sound.  First when a step leaves it alone but *)
(* for closing its connection, ...                                         *)
LEMMA PullUntouched ==
  ASSUME Undeleted, EditInv, [Next]_vars, NEW r \in Replica,
         NEW peers \in SUBSET Replica, job'[r] \in {job[r], CloseJob(job[r], peers)}
  PROVE  PullSound(disk'[job'[r].peer], job'[r])
<1>. DEFINE b == job[r]
<1>1. /\ b \in Job /\ b.peer \in Replica /\ b.path \in Path /\ b.todo \subseteq Path
      /\ PullSound(disk[b.peer], b)
  BY DEF EditInv, TypeOK, Job, PullsSound
<1>2. /\ job'[r].phase = b.phase /\ job'[r].peer = b.peer /\ job'[r].todo = b.todo
      /\ job'[r].path = b.path /\ job'[r].data = b.data /\ job'[r].local = b.local
  BY <1>1 DEF CloseJob, Job
<1>3. \A p \in Path : disk[b.peer][p] # NoFile => disk'[b.peer][p] # NoFile
  BY <1>1, FilesStay DEF Have
<1>. QED BY <1>1, <1>2, <1>3 DEF PullSound

(* ... then when the step is one of the pull itself.                       *)
LEMMA PullsSoundStep ==
  ASSUME Undeleted, EditInv, [Next]_vars
  PROVE  PullsSound'
<1>. USE DEF vars, storage, channel, ghosts
<1>. SUFFICES ASSUME NEW r \in Replica
              PROVE  PullSound(disk'[job'[r].peer], job'[r])
  BY DEF PullsSound
<1>. DEFINE b == job[r]
            Sound == PullSound(disk'[job'[r].peer], job'[r])
<1>1. /\ b \in Job /\ b.peer \in Replica /\ b.path \in Path /\ b.todo \subseteq Path
      /\ PullSound(disk[b.peer], b)
  BY DEF EditInv, TypeOK, Job, PullsSound
<1>2. job'[r] = job[r] => Sound
  BY PullUntouched
<1>3. PullSound(disk'[job'[r].peer], Idle)
  BY DEF PullSound, Idle
<1>4. ASSUME NEW s \in Replica, StartEnvelope(r, s) PROVE Sound
  <2>. DEFINE letter == Head(inbox[r][s])
  <2>1. inbox[r][s] \in Seq(Letter) /\ inbox[r][s] # <<>>
    BY <1>4 DEF StartEnvelope, EditInv, TypeOK
  <2>2. disk[s] \in [Path -> File] /\ AllTruthful(disk[s], inbox[r][s])
    BY DEF EditInv, TypeOK, MapsTruthful
  <2>3. Truthful(disk[s], letter.map)
    BY <2>1, <2>2, TruthfulLetters
  <2>. HIDE DEF letter
  <2>4. \A p \in pullSet(journal[r], MyMap(r), letter.map, r, s) : disk'[s][p] # NoFile
    BY <2>3, FilesStay
    DEF pullSet, tombstonePull, missingPull, conflictPull, conflict, Truthful, Have
  <2>5. /\ job'[r].phase = "pulling" /\ job'[r].peer = s
        /\ job'[r].todo = pullSet(journal[r], MyMap(r), letter.map, r, s)
    <3>. DEFINE T == pullSet(journal[r], MyMap(r), letter.map, r, s)
                c == conflictSet(MyMap(r), letter.map) # {}
    <3>1. job' = [job EXCEPT ![r] =
            [Idle EXCEPT !.phase = "pulling", !.peer = s, !.live = letter.live,
                   !.map = letter.map, !.reply = letter.reply, !.todo = T, !.conflicted = c]]
      BY <1>4, Zenon DEF StartEnvelope, letter
    <3>. HIDE DEF T, c
    <3>2. job'[r].phase = "pulling" /\ job'[r].peer = s /\ job'[r].todo = T
      BY <3>1, IdleType DEF EditInv, TypeOK, Job
    <3>. QED BY <3>2 DEF T
  <2>. QED BY <2>4, <2>5 DEF PullSound
<1>5. ASSUME RequestPull(r) PROVE Sound
  <2>1. PICK p \in job[r].todo :
          job' = [job EXCEPT ![r] =
                   [@ EXCEPT !.phase = IF job[r].live THEN "asked" ELSE "pulling",
                             !.path = p, !.todo = job[r].todo \ {p}]]
    BY <1>5, Zenon DEF RequestPull
  <2>2. b.phase = "pulling" /\ UNCHANGED disk
    BY <1>5 DEF RequestPull
  <2>3. /\ job'[r].phase \in {"asked", "pulling"} /\ job'[r].peer = b.peer
        /\ job'[r].path = p /\ job'[r].todo = b.todo \ {p}
    BY <1>1, <2>1 DEF Job, EditInv, TypeOK
  <2>. QED BY <1>1, <2>2, <2>3 DEF PullSound
<1>6. ASSUME NEW s \in Replica, answerFile(s, r) PROVE Sound
  <2>1. /\ b.phase = "asked" /\ b.peer = s /\ UNCHANGED disk
        /\ job'[r] = [b EXCEPT !.phase = "told", !.data = disk[s][b.path],
                               !.lamport = lamportFor(journal[s], b.path)]
    BY <1>6 DEF answerFile, Undeleted, EditInv, TypeOK
  <2>2. /\ job'[r].phase = "told" /\ job'[r].peer = s /\ job'[r].todo = b.todo
        /\ job'[r].data = disk[s][b.path]
    BY <1>1, <2>1 DEF Job
  <2>. QED BY <1>1, <2>1, <2>2 DEF PullSound
<1>7. ASSUME job' = [job EXCEPT ![r] = Settled(@)], UNCHANGED disk, b.phase # "idle" PROVE Sound
  <2>1. /\ job'[r].phase = "pulling" /\ job'[r].peer = b.peer /\ job'[r].todo = b.todo
    BY <1>1, <1>7 DEF Settled, EditInv, TypeOK, Job
  <2>. QED BY <1>1, <1>7, <2>1 DEF PullSound
<1>8. ASSUME PullTimeout(r) \/ DiscardAnswer(r) \/ PullNote(r) PROVE Sound
  BY <1>7, <1>8 DEF PullTimeout, DiscardAnswer, PullNote, answered
<1>9. ASSUME PullRead(r) PROVE Sound
  <2>1. /\ b.phase = "told" /\ b.data # NoFile /\ UNCHANGED disk
        /\ job'[r] = [b EXCEPT !.phase = "write", !.local = disk[r][b.path]]
    BY <1>9 DEF PullRead, answered, EditInv, TypeOK
  <2>2. /\ job'[r].phase = "write" /\ job'[r].peer = b.peer /\ job'[r].todo = b.todo
        /\ job'[r].path = b.path /\ job'[r].data = b.data /\ job'[r].local = disk[r][b.path]
    BY <1>1, <2>1 DEF Job
  <2>. QED BY <1>1, <2>1, <2>2 DEF PullSound
<1>10. ASSUME PullWrite(r) PROVE Sound
  <2>1. b.phase = "write" /\ job'[r] = [b EXCEPT !.phase = "note"]
    BY <1>10 DEF PullWrite, EditInv, TypeOK
  <2>2. /\ job'[r].phase = "note" /\ job'[r].peer = b.peer /\ job'[r].todo = b.todo
        /\ job'[r].data = b.data
    BY <1>1, <2>1 DEF Job
  <2>3. \A p \in Path : disk[b.peer][p] # NoFile => disk'[b.peer][p] # NoFile
    BY <1>1, FilesStay DEF Have
  <2>. QED BY <1>1, <2>1, <2>2, <2>3 DEF PullSound
<1>11. ASSUME Finish(r) PROVE Sound
  BY <1>3, <1>11 DEF Finish, EditInv, TypeOK
<1>12. ASSUME NEW links, NEW down, Sever(links, down) PROVE Sound
  <2>1. job'[r] = Idle \/ job'[r] = CloseJob(job[r], gone(links, r))
    BY <1>12 DEF Sever
  <2>. QED BY <1>3, <2>1, PullUntouched DEF gone
<1>13. ASSUME NEW s \in Replica, s # r, NEW n, job' = [job EXCEPT ![s] = n] PROVE Sound
  BY <1>2, <1>13 DEF EditInv, TypeOK
<1>14. ASSUME NEW s \in Replica, PullStep(s) PROVE Sound
  <2>1. CASE s = r
    BY <1>5, <1>8, <1>9, <1>10, <1>14, <2>1, NoRemoteDelete DEF PullStep
  <2>2. CASE s # r
    <3>1. ~applyRemoteDelete(s)
      BY NoRemoteDelete
    <3>2. RequestPull(s) => \E n : job' = [job EXCEPT ![s] = n]
      BY Zenon DEF RequestPull
    <3>3. PullTimeout(s) \/ DiscardAnswer(s) \/ PullNote(s) => \E n : job' = [job EXCEPT ![s] = n]
      BY DEF PullTimeout, DiscardAnswer, PullNote
    <3>4. PullRead(s) \/ PullWrite(s) => \E n : job' = [job EXCEPT ![s] = n]
      BY Zenon DEF PullRead, PullWrite
    <3>. QED BY <1>13, <1>14, <2>2, <3>1, <3>2, <3>3, <3>4 DEF PullStep
  <2>. QED BY <2>1, <2>2
<1>15. ASSUME NEW s \in Replica, NEW t \in Replica, StartEnvelope(s, t) PROVE Sound
  <2>1. \E n : job' = [job EXCEPT ![s] = n]
    BY <1>15, Zenon DEF StartEnvelope
  <2>. QED BY <1>4, <1>13, <1>15, <2>1
<1>16. ASSUME NEW s \in Replica, NEW t \in Replica, answerFile(t, s) PROVE Sound
  <2>1. \E n : job' = [job EXCEPT ![s] = n]
    BY <1>16, Zenon DEF answerFile
  <2>. QED BY <1>6, <1>13, <1>16, <2>1
<1>17. ASSUME NEW s \in Replica, Finish(s) PROVE Sound
  <2>1. job' = [job EXCEPT ![s] = Idle]
    BY <1>17 DEF Finish
  <2>. QED BY <1>11, <1>13, <1>17, <2>1
<1>18. ASSUME NEW s \in Replica, NEW t \in Replica, Drop(s, t) PROVE Sound
  BY <1>12, <1>18 DEF Drop
<1>19. ASSUME NEW s \in Replica, Crash(s) PROVE Sound
  BY <1>12, <1>19 DEF Crash
<1>20. CASE UNCHANGED job
  BY <1>2, <1>20
<1>. QED
  BY <1>14, <1>15, <1>16, <1>17, <1>18, <1>19, <1>20
  DEF Next, UserStep, UserWrite, UserDelete, EngineStep, FaultStep, NoteMutation, FireTimer, SendMap,
      Persist, Attach

(* Every content a user made stays a file or a conflict copy: an edit      *)
(* retires what it overwrites, a pull keeps a copy of it.                  *)
LEMMA NoLostEditStep ==
  ASSUME Undeleted, EditInv, [Next]_vars
  PROVE  NoLostEdit'
<1>. USE DEF vars, storage, channel, ghosts
<1>. SUFFICES ASSUME NEW c \in Content, Created(c)', c \notin retired' \cup unread'
              PROVE  Kept(c)'
  BY DEF NoLostEdit
<1>1. Created(c) /\ c \notin retired \cup unread => Kept(c)
  BY DEF EditInv, NoLostEdit
<1>2. ASSUME NEW s \in Replica, NEW q \in Path, UserWrite(s, q) PROVE Kept(c)'
  <2>1. made \in Nat /\ Seed \in Nat /\ c \in Nat
    BY DataAssumption DEF EditInv, TypeOK, File, Content
  <2>2. CASE c = made'
    BY <1>2, <2>2 DEF UserWrite, Kept, EditInv, TypeOK
  <2>3. CASE c # made'
    <3>1. Created(c) /\ c \notin retired \cup unread /\ disk[s][q] # c
      BY <1>2, <2>1, <2>3 DEF UserWrite, Created
    <3>2. PICK r \in Replica, p \in Path : disk[r][p] = c \/ c \in copies[r][p]
      BY <1>1, <3>1 DEF Kept
    <3>3. disk'[r][p] = c \/ c \in copies'[r][p]
      BY <1>2, <3>1, <3>2 DEF UserWrite, EditInv, TypeOK
    <3>. QED BY <3>3 DEF Kept
  <2>. QED BY <2>2, <2>3
<1>3. ASSUME NEW s \in Replica, PullWrite(s) PROVE Kept(c)'
  <2>. DEFINE q == job[s].path
  <2>1. Kept(c)
    BY <1>1, <1>3 DEF PullWrite, KeepCopy, Created
  <2>2. PICK r \in Replica, p \in Path : disk[r][p] = c \/ c \in copies[r][p]
    BY <2>1 DEF Kept
  <2>3. q \in Path /\ c # NoFile /\ (disk[s][q] = c => job[s].local = c)
    BY <1>3 DEF PullWrite, EditInv, TypeOK, Job, Content
  <2>4. /\ \A x \in Replica, y \in Path : copies[x][y] \subseteq copies'[x][y]
        /\ job[s].local \in {NoFile, job[s].data} \/ job[s].local \in copies'[s][q]
    <3>1. CASE UNCHANGED copies /\ ~(job[s].local # NoFile /\ job[s].local # job[s].data)
      BY <2>3, <3>1
    <3>2. CASE KeepCopy(s, q, job[s].local)
      <4>1. copies' = [copies EXCEPT ![s][q] = (@ \ {}) \cup {job[s].local}]
        BY <3>2 DEF KeepCopy, Undeleted
      <4>. QED BY <2>3, <4>1 DEF EditInv, TypeOK
    <3>. QED BY <1>3, <3>1, <3>2 DEF PullWrite
  <2>5. disk'[s][q] = job[s].data /\ \A x \in Replica, y \in Path : x # s \/ y # q => disk'[x][y] = disk[x][y]
    BY <1>3, <2>3 DEF PullWrite, EditInv, TypeOK
  <2>6. disk'[r][p] = c \/ c \in copies'[r][p]
    BY <2>2, <2>3, <2>4, <2>5
  <2>. QED BY <2>6 DEF Kept
<1>4. ASSUME NEW s \in Replica, NEW q \in Path, UserDelete(s, q) PROVE FALSE
  BY <1>4 DEF UserDelete, Undeleted
<1>5. ASSUME NEW s \in Replica, applyRemoteDelete(s) PROVE FALSE
  BY <1>5, NoRemoteDelete
<1>6. CASE UNCHANGED <<disk, copies, made, retired, unread>>
  BY <1>1, <1>6 DEF Created, Kept
<1>7. ASSUME NEW s \in Replica, PullStep(s)
      PROVE  UNCHANGED <<disk, copies, made, retired, unread>> \/ PullWrite(s)
  <2>1. RequestPull(s) \/ PullTimeout(s) \/ DiscardAnswer(s) => UNCHANGED <<disk, copies, made, retired, unread>>
    BY Zenon DEF RequestPull, PullTimeout, DiscardAnswer
  <2>2. PullRead(s) \/ PullNote(s) => UNCHANGED <<disk, copies, made, retired, unread>>
    BY DEF PullRead, PullNote
  <2>. QED BY <1>5, <1>7, <2>1, <2>2 DEF PullStep
<1>8. ASSUME NEW s \in Replica, NEW t \in Replica,
             \/ SendMap(s, t) \/ StartEnvelope(s, t) \/ answerFile(t, s) \/ Attach(s, t) \/ Drop(s, t)
      PROVE  UNCHANGED <<disk, copies, made, retired, unread>>
  BY <1>8 DEF SendMap, StartEnvelope, answerFile, Attach, Drop
<1>9. ASSUME NEW s \in Replica, NEW q \in Path, NoteMutation(s, q)
      PROVE  UNCHANGED <<disk, copies, made, retired, unread>>
  BY <1>9 DEF NoteMutation
<1>10. ASSUME NEW s \in Replica, FireTimer(s) \/ Finish(s) \/ Persist(s) \/ Crash(s)
       PROVE  UNCHANGED <<disk, copies, made, retired, unread>>
  BY <1>10 DEF FireTimer, Finish, Persist, Crash
<1>11. CASE UNCHANGED vars
  BY <1>6, <1>11
<1>. QED
  BY <1>2, <1>3, <1>4, <1>6, <1>7, <1>8, <1>9, <1>10, <1>11 DEF Next, UserStep, EngineStep, FaultStep

(* Every edit survives but one a pull overwrites without having read it:   *)
(* whatever is edited, offline or while rounds run, in whatever order the  *)
(* replicas meet, lose their links, time out and crash, no round drops     *)
(* other bytes that no user overwrote (README: never silently dropped).    *)
THEOREM NoEditIsLost == Undeleted => (Spec => []NoLostEdit)
<1>1. ASSUME Undeleted, EditInv, [Next]_vars PROVE EditInv'
  BY <1>1, NextType, NothingDeletedStep, MapsTruthfulStep, PullsSoundStep, NoLostEditStep DEF EditInv
<1>2. EditInv => NoLostEdit
  BY DEF EditInv
<1>. SUFFICES ASSUME Undeleted PROVE Spec => []NoLostEdit
  OBVIOUS
<1>3. EditInv /\ [Next]_vars => EditInv'
  BY <1>1
<1>. QED BY <1>2, <1>3, EditInvInit, PTL DEF Spec

-----------------------------------------------------------------------------
(* The journal and the tombstones.  Users edit while no round runs, and    *)
(* nobody crashes: a crash takes the journal back and leaves the disk.     *)

Steady == ~EditOnline /\ MaxCrashes = 0

At(r, p) == lamportFor(journal[r], p)

(* A path that was asked for, until its pull is over.                      *)
Taking == {"asked", "told", "write", "note"}
Holding == {"told", "write", "note"}

(* An op without a stamp is none, a write has a content and a delete none. *)
OpSound(e) ==
  /\ e.op = "none" => e.lamport = 0
  /\ e.op = "write" => e.hash # NoFile
  /\ e.op = "delete" => e.hash = NoFile
OpsSound == \A r \in Replica, p \in Path : OpSound(journal[r].last[p])

(* While a replica is connected, or a pull is under way, all is noted.     *)
Noted == \A r \in Replica :
  dirty[r] # {} => job[r].phase \notin Taking /\ \A s \in Replica : ~connected(r, s)

(* What is marked as alive is: its connection is up.                       *)
LiveOnly == \A r, s \in Replica :
  /\ job[r].live => connected(r, job[r].peer)
  /\ \A i \in 1 .. Len(inbox[r][s]) : inbox[r][s][i].live => connected(r, s)

(* A map tells no later stamp than the journal it was made from holds now. *)
Older(j, m) == \A p \in Path : m.lamport[p] <= lamportFor(j, p) /\ m.deletes[p] <= lamportFor(j, p)
AllOlder(j, letters) == \A i \in 1 .. Len(letters) : Older(j, letters[i].map)
MapsOlder == \A r, s \in Replica : AllOlder(journal[s], inbox[r][s])

(* What is pulled is at least as new as what its path holds.               *)
PullNewer(r, b) ==
  /\ b.live => \A p \in b.todo : At(r, p) <= At(b.peer, p)
  /\ b.live /\ b.phase = "asked" => At(r, b.path) <= At(b.peer, b.path)
  /\ b.phase \in Holding => At(r, b.path) <= b.lamport
  /\ b.phase \in Taking => b.path \notin b.todo
  /\ b.phase \in {"write", "note"} => b.data # NoFile
  /\ b.phase = "note" => disk[r][b.path] = b.data
PullsNewer == \A r \in Replica : PullNewer(r, job[r])

(* The inductive invariant.                                                *)
RoundInv == /\ TypeOK /\ OpsSound /\ Noted /\ LiveOnly /\ MapsOlder /\ PullsNewer
            /\ JournalDescribesDisk

LEMMA RoundInvInit == Init => RoundInv
<1>. SUFFICES ASSUME Init PROVE RoundInv
  OBVIOUS
<1>1. \A r \in Replica, p \in Path : journal[r].last[p] = NoOp
  BY DEF Init, EmptyJournal
<1>2. \A r, s \in Replica : inbox[r][s] = <<>> /\ Len(inbox[r][s]) = 0
  BY DEF Init
<1>3. \A r \in Replica : job[r].phase = "idle" /\ ~job[r].live /\ dirty[r] = {}
  BY DEF Init, Idle
<1>4. OpsSound
  BY <1>1 DEF OpsSound, OpSound, NoOp
<1>5. Noted /\ LiveOnly /\ MapsOlder
  BY <1>2, <1>3 DEF Noted, LiveOnly, MapsOlder, AllOlder
<1>6. PullsNewer
  BY <1>3 DEF PullsNewer, PullNewer, Taking, Holding
<1>7. JournalDescribesDisk
  BY <1>1 DEF JournalDescribesDisk, NoOp
<1>. QED BY <1>4, <1>5, <1>6, <1>7, InitType DEF RoundInv

(* Nobody crashes.                                                         *)
LEMMA NoCrash ==
  ASSUME Steady, TypeOK, NEW r \in Replica
  PROVE  ~Crash(r)
BY DEF Steady, TypeOK, Crash

(* What is noted is what the last op says, and nothing else changes.       *)
LEMMA recordOpNotes ==
  ASSUME NEW j \in JournalState, NEW p \in Path, NEW c \in Nat, OpSound(j.last[p])
  PROVE  LET n == recordOp(j, p, c)
         IN  /\ n.last[p].hash = c /\ OpSound(n.last[p])
             /\ \A q \in Path : q # p => n.last[q] = j.last[q]
<1>1. j.last[p] \in SyncOp /\ j.clock \in Nat /\ j.top \in Nat /\ j.last \in [Path -> SyncOp]
  BY DEF JournalState
<1>. DEFINE base == Later(j.clock, lamportFor(j, p)) + 1
            entry == IF c = NoFile THEN DeleteOp(base) ELSE WriteOp(c, base)
            n == recordOp(j, p, c)
<1>2. entry.hash = c /\ OpSound(entry)
  BY DEF DeleteOp, WriteOp, OpSound
<1>. HIDE DEF base, entry
<1>3. \/ n = j /\ j.last[p].hash = c
      \/ n = Append1(j, p, entry, base)
  BY DEF recordOp, base, entry
<1>4. CASE n = j /\ j.last[p].hash = c
  BY <1>4
<1>5. CASE n = Append1(j, p, entry, base)
  BY <1>1, <1>2, <1>5 DEF Append1
<1>. QED BY <1>3, <1>4, <1>5

(* A remote op that is not older than what is held is noted likewise.      *)
LEMMA recordRemoteOpNotes ==
  ASSUME NEW j \in JournalState, NEW p \in Path, NEW c \in Nat, NEW l \in Nat, OpSound(j.last[p]),
         lamportFor(j, p) <= l
  PROVE  LET n == recordRemoteOp(j, p, c, l)
         IN  /\ n.last[p].hash = c /\ OpSound(n.last[p])
             /\ \A q \in Path : q # p => n.last[q] = j.last[q]
<1>1. /\ j.last[p] \in SyncOp /\ j.clock \in Nat /\ j.top \in Nat /\ j.last \in [Path -> SyncOp]
      /\ lamportFor(j, p) \in Nat
  BY DEF JournalState, lamportFor, SyncOp
<1>. DEFINE entry == IF c = NoFile THEN DeleteOp(l) ELSE WriteOp(c, l)
            clock == Later(j.clock, l)
            n == recordRemoteOp(j, p, c, l)
<1>2. entry.hash = c /\ OpSound(entry)
  BY DEF DeleteOp, WriteOp, OpSound
<1>. HIDE DEF clock, entry
<1>3. \/ n = [j EXCEPT !.clock = clock] /\ j.last[p] = entry
      \/ n = Append1(j, p, entry, clock)
  BY <1>1 DEF recordRemoteOp, clock, entry
<1>4. CASE n = [j EXCEPT !.clock = clock] /\ j.last[p] = entry
  <2>1. n.last = j.last
    BY <1>4 DEF JournalState
  <2>. QED BY <1>2, <1>4, <2>1
<1>5. CASE n = Append1(j, p, entry, clock)
  BY <1>1, <1>2, <1>5 DEF Append1
<1>. QED BY <1>3, <1>4, <1>5

(* The actions that write the last op of a path: it tells what is on disk  *)
(* then, and the ops of the other paths and replicas are left alone.       *)
Took(r, p) == job[r].path = p /\ (applyRemoteDelete(r) \/ PullNote(r))
Notes(r, p) == NoteMutation(r, p) \/ Took(r, p)

LEMMA NotesTaken ==
  ASSUME RoundInv, NEW r \in Replica, NEW p \in Path, Notes(r, p)
  PROVE  /\ journal'[r].last[p].hash = disk'[r][p]
         /\ OpSound(journal'[r].last[p])
         /\ \A s \in Replica, q \in Path :
              s # r \/ q # p => journal'[s].last[q] = journal[s].last[q]
<1>. DEFINE Result == /\ journal'[r].last[p].hash = disk'[r][p]
                      /\ OpSound(journal'[r].last[p])
                      /\ \A s \in Replica, q \in Path :
                           s # r \/ q # p => journal'[s].last[q] = journal[s].last[q]
<1>1. /\ journal[r] \in JournalState /\ journal \in [Replica -> JournalState]
      /\ OpSound(journal[r].last[p])
  BY DEF RoundInv, TypeOK, OpsSound
<1>2. ASSUME NEW n, journal' = [journal EXCEPT ![r] = n], n.last[p].hash = disk'[r][p], OpSound(n.last[p]),
             \A q \in Path : q # p => n.last[q] = journal[r].last[q]
      PROVE  Result
  BY <1>1, <1>2
<1>3. ASSUME NoteMutation(r, p) PROVE Result
  <2>1. journal' = [journal EXCEPT ![r] = recordOp(journal[r], p, disk[r][p])] /\ disk' = disk
    BY <1>3 DEF NoteMutation, storage, channel, ghosts
  <2>2. disk[r][p] \in Nat
    BY DataAssumption DEF RoundInv, TypeOK, File
  <2>. QED BY <1>1, <1>2, <2>1, <2>2, recordOpNotes
<1>4. ASSUME NEW c \in Nat, job[r].path = p, job[r].phase \in Holding, disk'[r][p] = c,
             journal' = [journal EXCEPT ![r] = recordRemoteOp(journal[r], p, c, job[r].lamport)]
      PROVE  Result
  <2>1. job[r].lamport \in Nat /\ lamportFor(journal[r], p) <= job[r].lamport
    BY <1>4 DEF RoundInv, TypeOK, Job, Stamps, PullsNewer, PullNewer, At
  <2>. QED BY <1>1, <1>2, <1>4, <2>1, recordRemoteOpNotes
<1>5. ASSUME applyRemoteDelete(r), job[r].path = p PROVE Result
  <2>1. NoFile \in Nat /\ job[r].phase = "told"
    BY <1>5 DEF NoFile, applyRemoteDelete, answered
  <2>2. journal' = [journal EXCEPT ![r] = recordRemoteOp(journal[r], p, NoFile, job[r].lamport)]
    BY <1>5 DEF applyRemoteDelete
  <2>3. disk'[r][p] = NoFile
    BY <1>5 DEF applyRemoteDelete, RoundInv, TypeOK
  <2>. QED BY <1>4, <1>5, <2>1, <2>2, <2>3 DEF Holding
<1>6. ASSUME PullNote(r), job[r].path = p PROVE Result
  <2>1. /\ job[r].phase = "note" /\ disk' = disk
        /\ journal' = [journal EXCEPT ![r] = recordRemoteOp(journal[r], p, job[r].data, job[r].lamport)]
    BY <1>6 DEF PullNote
  <2>2. job[r].data \in Nat
    BY DataAssumption DEF RoundInv, TypeOK, Job, File
  <2>3. disk'[r][p] = job[r].data
    BY <1>6, <2>1 DEF RoundInv, PullsNewer, PullNewer
  <2>. QED BY <1>4, <1>6, <2>1, <2>2, <2>3 DEF Holding
<1>. QED BY <1>3, <1>5, <1>6 DEF Notes, Took

(* Which steps change the last op of a path.                               *)
LEMMA OpStep ==
  ASSUME TypeOK, [Next]_vars, NEW r \in Replica, NEW p \in Path
  PROVE  \/ journal'[r].last[p] = journal[r].last[p]
         \/ Notes(r, p)
         \/ Crash(r) /\ journal'[r].last[p] = saved[r].last[p]
<1>. DEFINE Same == journal'[r].last[p] = journal[r].last[p]
            Goal == Same \/ Notes(r, p) \/ (Crash(r) /\ journal'[r].last[p] = saved[r].last[p])
<1>. USE DEF vars, storage, channel, ghosts
<1>1. journal[r] \in JournalState /\ journal \in [Replica -> JournalState] /\ saved[r] \in JournalState
  BY DEF TypeOK
<1>2. ASSUME NEW s \in Replica, NEW j, journal' = [journal EXCEPT ![s] = j], j.last[p] = journal[s].last[p]
      PROVE  Same
  BY <1>1, <1>2
<1>3. ASSUME NEW s \in Replica, NEW j, journal' = [journal EXCEPT ![s] = j], s # r
      PROVE  Same
  BY <1>1, <1>3
<1>4. ASSUME NEW s \in Replica, NEW q \in Path, NoteMutation(s, q) PROVE Goal
  <2>1. journal' = [journal EXCEPT ![s] = recordOp(journal[s], q, disk[s][q])]
    BY <1>4 DEF NoteMutation
  <2>2. journal[s] \in JournalState
    BY DEF TypeOK
  <2>3. q # p => recordOp(journal[s], q, disk[s][q]).last[p] = journal[s].last[p]
    BY <2>2 DEF recordOp, Append1, JournalState
  <2>. QED BY <1>2, <1>3, <1>4, <2>1, <2>3 DEF Notes
<1>5. ASSUME NEW s \in Replica, applyRemoteDelete(s) \/ PullNote(s) PROVE Goal
  <2>1. PICK c : journal' = [journal EXCEPT ![s] = recordRemoteOp(journal[s], job[s].path, c, job[s].lamport)]
    BY <1>5 DEF applyRemoteDelete, PullNote
  <2>2. journal[s] \in JournalState /\ job[s].path \in Path
    BY DEF TypeOK, Job
  <2>3. job[s].path # p => recordRemoteOp(journal[s], job[s].path, c, job[s].lamport).last[p] = journal[s].last[p]
    BY <2>2 DEF recordRemoteOp, Append1, JournalState
  <2>. QED BY <1>2, <1>3, <1>5, <2>1, <2>3 DEF Notes, Took
<1>6. ASSUME NEW s \in Replica, NEW t \in Replica, StartEnvelope(s, t) PROVE Goal
  <2>1. PICK high : journal' = [journal EXCEPT ![s] = [@ EXCEPT !.clock = high]]
    BY <1>6 DEF StartEnvelope
  <2>2. [journal[s] EXCEPT !.clock = high].last = journal[s].last
    BY DEF TypeOK, JournalState
  <2>. QED BY <1>2, <2>1, <2>2
<1>7. ASSUME NEW s \in Replica, PullWrite(s) PROVE Goal
  <2>1. CASE UNCHANGED journal
    BY <2>1
  <2>2. CASE journal' = [journal EXCEPT ![s] = recordCopy(@)]
    <3>1. recordCopy(journal[s]).last = journal[s].last
      BY recordCopyType DEF TypeOK
    <3>. QED BY <1>2, <2>2, <3>1
  <2>. QED BY <1>7, <2>1, <2>2 DEF PullWrite, KeepCopy
<1>8. ASSUME NEW s \in Replica, Crash(s) PROVE Goal
  <2>1. journal' = [journal EXCEPT ![s] = load(saved[s])]
    BY <1>8 DEF Crash
  <2>2. load(saved[s]).last = saved[s].last
    BY DEF load, TypeOK, JournalState
  <2>. QED BY <1>1, <1>3, <1>8, <2>1, <2>2
<1>9. \/ \E s \in Replica : applyRemoteDelete(s) \/ PullNote(s) \/ PullWrite(s)
      \/ \E s \in Replica, q \in Path : NoteMutation(s, q)
      \/ \E s, t \in Replica : StartEnvelope(s, t)
      \/ \E s \in Replica : Crash(s)
      \/ UNCHANGED journal
  BY DEF Next, UserStep, UserWrite, UserDelete, EngineStep, PullStep, FaultStep, FireTimer, SendMap,
         RequestPull, answerFile, PullTimeout, DiscardAnswer, PullRead, Finish, Persist, Attach, Drop
<1>10. UNCHANGED journal => Goal
  OBVIOUS
<1>. HIDE DEF Goal
<1>11. Goal
  BY <1>4, <1>5, <1>6, <1>7, <1>8, <1>9, <1>10
<1>. QED BY <1>11 DEF Goal

LEMMA LastStep ==
  ASSUME Steady, RoundInv, [Next]_vars, NEW r \in Replica, NEW p \in Path
  PROVE  journal'[r].last[p] = journal[r].last[p] \/ Notes(r, p)
BY OpStep, NoCrash DEF RoundInv

(* The job of a replica changes by its own steps, and when links are lost. *)
LEMMA JobStep ==
  ASSUME TypeOK, [Next]_vars, NEW r \in Replica
  PROVE  \/ job'[r] = job[r]
         \/ \E links, down : Sever(links, down) /\ job'[r] = CloseJob(job[r], gone(links, r))
         \/ Crash(r) /\ job'[r] = Idle
         \/ \E s \in Replica : StartEnvelope(r, s) \/ answerFile(s, r)
         \/ PullStep(r) \/ Finish(r)
<1>. DEFINE Same == job'[r] = job[r]
            Cut == \E links, down : Sever(links, down) /\ job'[r] = CloseJob(job[r], gone(links, r))
            Lost == Crash(r) /\ job'[r] = Idle
            Own == \/ \E s \in Replica : StartEnvelope(r, s) \/ answerFile(s, r)
                   \/ PullStep(r) \/ Finish(r)
<1>. USE DEF vars, storage, channel, ghosts
<1>1. ASSUME NEW s \in Replica, s # r, \E n : job' = [job EXCEPT ![s] = n] PROVE Same
  BY <1>1 DEF TypeOK
<1>2. ASSUME NEW s \in Replica, PullStep(s) PROVE Same \/ Own
  <2>1. RequestPull(s) => \E n : job' = [job EXCEPT ![s] = n]
    BY Zenon DEF RequestPull
  <2>2. PullTimeout(s) \/ applyRemoteDelete(s) \/ DiscardAnswer(s) \/ PullNote(s)
          => \E n : job' = [job EXCEPT ![s] = n]
    BY DEF PullTimeout, DiscardAnswer, PullNote, applyRemoteDelete
  <2>3. PullRead(s) \/ PullWrite(s) => \E n : job' = [job EXCEPT ![s] = n]
    BY Zenon DEF PullRead, PullWrite
  <2>4. \E n : job' = [job EXCEPT ![s] = n]
    BY <1>2, <2>1, <2>2, <2>3 DEF PullStep
  <2>. QED BY <1>1, <1>2, <2>4
<1>3. ASSUME NEW s \in Replica, NEW t \in Replica, StartEnvelope(s, t) PROVE Same \/ Own
  <2>1. \E n : job' = [job EXCEPT ![s] = n]
    BY <1>3, Zenon DEF StartEnvelope
  <2>. QED BY <1>1, <1>3, <2>1
<1>4. ASSUME NEW s \in Replica, NEW t \in Replica, answerFile(t, s) PROVE Same \/ Own
  <2>1. \E n : job' = [job EXCEPT ![s] = n]
    BY <1>4, Zenon DEF answerFile
  <2>. QED BY <1>1, <1>4, <2>1
<1>5. ASSUME NEW s \in Replica, Finish(s) PROVE Same \/ Own
  <2>1. \E n : job' = [job EXCEPT ![s] = n]
    BY <1>5, Zenon DEF Finish
  <2>. QED BY <1>1, <1>5, <2>1
<1>6. ASSUME NEW s \in Replica, NEW t \in Replica, Drop(s, t) PROVE Cut
  <2>1. Sever({{s, t}}, {})
    BY <1>6 DEF Drop
  <2>2. job'[r] = CloseJob(job[r], gone({{s, t}}, r))
    BY <2>1 DEF Sever
  <2>. QED BY <2>1, <2>2
<1>7. ASSUME NEW s \in Replica, Crash(s) PROVE Cut \/ Lost
  <2>1. PICK links : Sever(links, {s})
    BY <1>7 DEF Crash
  <2>2. job'[r] = IF r = s THEN Idle ELSE CloseJob(job[r], gone(links, r))
    BY <2>1 DEF Sever
  <2>. QED BY <1>7, <2>1, <2>2
<1>8. \/ \E s \in Replica : PullStep(s) \/ Finish(s) \/ Crash(s)
      \/ \E s, t \in Replica : StartEnvelope(s, t) \/ answerFile(t, s) \/ Drop(s, t)
      \/ UNCHANGED job
  BY DEF Next, UserStep, UserWrite, UserDelete, EngineStep, FaultStep, NoteMutation, FireTimer, SendMap,
         Persist, Attach
<1>9. UNCHANGED job => Same
  OBVIOUS
<1>. HIDE DEF Same, Cut, Lost, Own
<1>10. Same \/ Cut \/ Lost \/ Own
  BY <1>2, <1>3, <1>4, <1>5, <1>6, <1>7, <1>8, <1>9
<1>. QED BY <1>10 DEF Same, Cut, Lost, Own

(* Links come up and go down.                                              *)
LEMMA UpStep ==
  ASSUME TypeOK, [Next]_vars
  PROVE  \/ UNCHANGED up
         \/ \E s, t \in Replica : Attach(s, t)
         \/ \E links, down : Sever(links, down)
<1>. USE DEF vars, storage, channel, ghosts
<1>1. /\ \A s, t \in Replica : Drop(s, t) => \E links, down : Sever(links, down)
      /\ \A s \in Replica : Crash(s) => \E links, down : Sever(links, down)
  BY DEF Drop, Crash
<1>2. ASSUME NEW s \in Replica, PullStep(s) PROVE UNCHANGED up
  <2>1. RequestPull(s) \/ PullTimeout(s) \/ applyRemoteDelete(s) \/ DiscardAnswer(s) => UNCHANGED up
    BY DEF RequestPull, PullTimeout, applyRemoteDelete, DiscardAnswer
  <2>2. PullRead(s) \/ PullWrite(s) \/ PullNote(s) => UNCHANGED up
    BY DEF PullRead, PullWrite, PullNote
  <2>. QED BY <1>2, <2>1, <2>2 DEF PullStep
<1>3. ASSUME NEW s \in Replica, NEW t \in Replica, StartEnvelope(s, t) \/ answerFile(s, t) \/ SendMap(s, t)
      PROVE  UNCHANGED up
  BY <1>3 DEF StartEnvelope, answerFile, SendMap
<1>4. ASSUME NEW s \in Replica, FireTimer(s) \/ Finish(s) \/ Persist(s) PROVE UNCHANGED up
  BY <1>4 DEF FireTimer, Finish, Persist
<1>5. ASSUME NEW s \in Replica, NEW q \in Path, UserWrite(s, q) \/ UserDelete(s, q) \/ NoteMutation(s, q)
      PROVE  UNCHANGED up
  BY <1>5 DEF UserWrite, UserDelete, NoteMutation
<1>. QED BY <1>1, <1>2, <1>3, <1>4, <1>5 DEF Next, UserStep, EngineStep, FaultStep

LEMMA OpsSoundStep ==
  ASSUME Steady, RoundInv, [Next]_vars
  PROVE  OpsSound'
<1>. SUFFICES ASSUME NEW r \in Replica, NEW p \in Path PROVE OpSound(journal'[r].last[p])
  BY DEF OpsSound
<1>1. OpSound(journal[r].last[p])
  BY DEF RoundInv, OpsSound
<1>. QED BY <1>1, LastStep, NotesTaken

(* What a job is after each of its steps.                                  *)
LEMMA JobAfter ==
  ASSUME TypeOK, NEW r \in Replica
  PROVE  /\ \A s \in Replica : StartEnvelope(r, s) =>
              /\ job[r].phase = "idle" /\ job'[r].phase = "pulling" /\ job'[r].peer = s
              /\ job'[r].live = Head(inbox[r][s]).live
              /\ job'[r].todo = pullSet(journal[r], MyMap(r), Head(inbox[r][s]).map, r, s)
         /\ RequestPull(r) =>
              /\ job[r].phase = "pulling" /\ job'[r].peer = job[r].peer /\ job'[r].live = job[r].live
              /\ job'[r].phase = IF job[r].live THEN "asked" ELSE "pulling"
              /\ job'[r].path \in job[r].todo
              /\ job'[r].todo = job[r].todo \ {job'[r].path}
         /\ \A s \in Replica : answerFile(s, r) =>
              /\ job[r].phase = "asked" /\ job[r].peer = s /\ job[r].live
              /\ job'[r].phase = "told" /\ job'[r].peer = s /\ job'[r].live
              /\ job'[r].path = job[r].path /\ job'[r].todo = job[r].todo
              /\ job'[r].lamport = lamportFor(journal[s], job[r].path)
         /\ PullTimeout(r) \/ applyRemoteDelete(r) \/ DiscardAnswer(r) \/ PullNote(r) =>
              /\ job[r].phase \in Taking /\ job'[r].phase = "pulling"
              /\ job'[r].peer = job[r].peer /\ job'[r].live = job[r].live
              /\ job'[r].path = job[r].path /\ job'[r].todo = job[r].todo
         /\ PullRead(r) \/ PullWrite(r) =>
              /\ job[r].phase \in Holding
              /\ job'[r].phase = IF job[r].phase = "told" THEN "write" ELSE "note"
              /\ job[r].phase # "note"
              /\ job'[r].peer = job[r].peer /\ job'[r].live = job[r].live
              /\ job'[r].path = job[r].path /\ job'[r].todo = job[r].todo
              /\ job'[r].data = job[r].data /\ job'[r].lamport = job[r].lamport
         /\ Finish(r) => job'[r] = Idle
<1>. DEFINE b == job[r]
<1>1. b \in Job /\ job \in [Replica -> Job]
  BY DEF TypeOK
<1>2. ASSUME NEW s \in Replica, StartEnvelope(r, s)
      PROVE  /\ job[r].phase = "idle" /\ job'[r].phase = "pulling" /\ job'[r].peer = s
             /\ job'[r].live = Head(inbox[r][s]).live
             /\ job'[r].todo = pullSet(journal[r], MyMap(r), Head(inbox[r][s]).map, r, s)
  <2>. DEFINE letter == Head(inbox[r][s])
              T == pullSet(journal[r], MyMap(r), letter.map, r, s)
              c == conflictSet(MyMap(r), letter.map) # {}
  <2>1. job' = [job EXCEPT ![r] =
          [Idle EXCEPT !.phase = "pulling", !.peer = s, !.live = letter.live,
                 !.map = letter.map, !.reply = letter.reply, !.todo = T, !.conflicted = c]]
    BY <1>2, Zenon DEF StartEnvelope
  <2>2. job[r].phase = "idle"
    BY <1>2 DEF StartEnvelope
  <2>. HIDE DEF T, c, letter
  <2>3. /\ job'[r].phase = "pulling" /\ job'[r].peer = s /\ job'[r].todo = T
        /\ job'[r].live = letter.live
    BY <1>1, <2>1, IdleType DEF Job
  <2>. QED BY <2>2, <2>3 DEF T, letter
<1>3. ASSUME RequestPull(r)
      PROVE  /\ job[r].phase = "pulling" /\ job'[r].peer = job[r].peer /\ job'[r].live = job[r].live
             /\ job'[r].phase = IF job[r].live THEN "asked" ELSE "pulling"
             /\ job'[r].path \in job[r].todo
             /\ job'[r].todo = job[r].todo \ {job'[r].path}
  <2>1. PICK p \in b.todo :
          job' = [job EXCEPT ![r] =
                   [@ EXCEPT !.phase = IF b.live THEN "asked" ELSE "pulling",
                             !.path = p, !.todo = b.todo \ {p}]]
    BY <1>3, Zenon DEF RequestPull
  <2>2. b.phase = "pulling"
    BY <1>3 DEF RequestPull
  <2>3. /\ job'[r].phase = (IF b.live THEN "asked" ELSE "pulling") /\ job'[r].peer = b.peer
        /\ job'[r].live = b.live /\ job'[r].path = p /\ job'[r].todo = b.todo \ {p}
    BY <1>1, <2>1 DEF Job
  <2>. QED BY <2>2, <2>3
<1>4. ASSUME NEW s \in Replica, answerFile(s, r)
      PROVE  /\ job[r].phase = "asked" /\ job[r].peer = s /\ job[r].live
             /\ job'[r].phase = "told" /\ job'[r].peer = s /\ job'[r].live
             /\ job'[r].path = job[r].path /\ job'[r].todo = job[r].todo
             /\ job'[r].lamport = lamportFor(journal[s], job[r].path)
  <2>. DEFINE l == lamportFor(journal[s], b.path)
  <2>1. b.phase = "asked" /\ b.peer = s /\ b.live
    BY <1>4 DEF answerFile
  <2>2. PICK d : job' = [job EXCEPT ![r] = [@ EXCEPT !.phase = "told", !.data = d, !.lamport = l]]
    BY <1>4, Zenon DEF answerFile
  <2>. HIDE DEF l
  <2>3. /\ job'[r].phase = "told" /\ job'[r].peer = b.peer /\ job'[r].live = b.live
        /\ job'[r].path = b.path /\ job'[r].todo = b.todo /\ job'[r].lamport = l
    BY <1>1, <2>2 DEF Job
  <2>. QED BY <2>1, <2>3 DEF l
<1>5. ASSUME PullTimeout(r) \/ applyRemoteDelete(r) \/ DiscardAnswer(r) \/ PullNote(r)
      PROVE  /\ job[r].phase \in Taking /\ job'[r].phase = "pulling"
             /\ job'[r].peer = job[r].peer /\ job'[r].live = job[r].live
             /\ job'[r].path = job[r].path /\ job'[r].todo = job[r].todo
  <2>1. job' = [job EXCEPT ![r] = Settled(@)] /\ b.phase \in Taking
    BY <1>5 DEF PullTimeout, applyRemoteDelete, DiscardAnswer, PullNote, answered, Taking
  <2>2. job'[r] = Settled(b)
    BY <1>1, <2>1
  <2>3. /\ Settled(b).phase = "pulling" /\ Settled(b).peer = b.peer /\ Settled(b).live = b.live
        /\ Settled(b).path = b.path /\ Settled(b).todo = b.todo
    BY <1>1 DEF Settled, Job
  <2>. QED BY <2>1, <2>2, <2>3
<1>6. ASSUME PullRead(r) \/ PullWrite(r)
      PROVE  /\ job[r].phase \in Holding
             /\ job'[r].phase = IF job[r].phase = "told" THEN "write" ELSE "note"
             /\ job[r].phase # "note"
             /\ job'[r].peer = job[r].peer /\ job'[r].live = job[r].live
             /\ job'[r].path = job[r].path /\ job'[r].todo = job[r].todo
             /\ job'[r].data = job[r].data /\ job'[r].lamport = job[r].lamport
  <2>1. CASE PullRead(r)
    <3>1. b.phase = "told" /\ job'[r] = [b EXCEPT !.phase = "write", !.local = disk[r][b.path]]
      BY <1>1, <2>1 DEF PullRead, answered
    <3>. QED BY <1>1, <3>1 DEF Job, Holding
  <2>2. CASE PullWrite(r)
    <3>1. b.phase = "write" /\ job'[r] = [b EXCEPT !.phase = "note"]
      BY <1>1, <2>2 DEF PullWrite
    <3>. QED BY <1>1, <3>1 DEF Job, Holding
  <2>. QED BY <1>6, <2>1, <2>2
<1>7. Finish(r) => job'[r] = Idle
  BY <1>1 DEF Finish
<1>. QED BY <1>2, <1>3, <1>4, <1>5, <1>6, <1>7

(* All is noted before a replica connects, and users wait for the round.   *)
LEMMA NotedStep ==
  ASSUME ~EditOnline, TypeOK, Noted, LiveOnly, [Next]_vars
  PROVE  Noted'
<1>. USE DEF vars, storage, channel, ghosts
<1>. SUFFICES ASSUME NEW r \in Replica, dirty'[r] # {}
              PROVE  job'[r].phase \notin Taking /\ \A s \in Replica : {r, s} \notin up'
  BY DEF Noted, connected
<1>. DEFINE Goal == job'[r].phase \notin Taking /\ \A s \in Replica : {r, s} \notin up'
<1>1. TypeOK /\ up \subseteq Link
  BY DEF TypeOK
<1>2. dirty[r] # {} => job[r].phase \notin Taking /\ \A s \in Replica : {r, s} \notin up
  BY DEF Noted, connected
<1>3. ASSUME NEW s \in Replica, NEW q \in Path, UserWrite(s, q) \/ UserDelete(s, q) PROVE Goal
  <2>1. Editable(s) /\ job' = job /\ up' = up /\ (s # r => dirty'[r] = dirty[r])
    BY <1>3 DEF UserWrite, UserDelete, TypeOK
  <2>2. CASE s = r
    BY <2>1, <2>2 DEF Editable, Taking, connected
  <2>3. CASE s # r
    BY <1>2, <2>1, <2>3
  <2>. QED BY <2>2, <2>3
<1>4. ASSUME dirty[r] # {} PROVE Goal
  <2>1. job[r].phase \notin Taking /\ \A s \in Replica : {r, s} \notin up
    BY <1>2, <1>4
  <2>2. ~(job[r].live)
    <3>1. job[r].live => connected(r, job[r].peer) /\ job[r].peer \in Replica
      BY <1>1 DEF LiveOnly, TypeOK, Job
    <3>. QED BY <2>1, <3>1 DEF connected
  <2>3. job'[r].phase \notin Taking
    <3>1. CASE job'[r] = job[r]
      BY <2>1, <3>1
    <3>2. ASSUME NEW peers, job'[r] = CloseJob(job[r], peers)
          PROVE job'[r].phase \notin Taking
      <4>1. job'[r].phase = job[r].phase
        BY <1>1, <3>2 DEF CloseJob, TypeOK, Job
      <4>. QED BY <2>1, <4>1
    <3>3. CASE \E s \in Replica : StartEnvelope(r, s) \/ answerFile(s, r)
      BY <1>1, <2>1, <3>3, JobAfter DEF Taking
    <3>4. CASE RequestPull(r)
      BY <1>1, <2>2, <3>4, JobAfter DEF Taking
    <3>5. CASE PullTimeout(r) \/ applyRemoteDelete(r) \/ DiscardAnswer(r) \/ PullNote(r)
      BY <1>1, <3>5, JobAfter DEF Taking
    <3>6. CASE PullRead(r) \/ PullWrite(r)
      BY <1>1, <2>1, <3>6, JobAfter DEF Taking, Holding
    <3>7. Idle.phase \notin Taking
      BY DEF Idle, Taking
    <3>8. CASE Finish(r)
      <4>1. job'[r] = Idle
        BY <1>1, <3>8, JobAfter
      <4>. QED BY <3>7, <4>1
    <3>. QED BY <1>1, <3>1, <3>2, <3>3, <3>4, <3>5, <3>6, <3>7, <3>8, JobStep DEF PullStep
  <2>4. ASSUME NEW s \in Replica PROVE {r, s} \notin up'
    <3>1. ASSUME NEW x \in Replica, NEW y \in Replica, Attach(x, y) PROVE {r, s} \notin up'
      <4>1. up' = up \cup {{x, y}} /\ dirty[x] = {} /\ dirty[y] = {}
        BY <3>1 DEF Attach
      <4>2. r \notin {x, y}
        BY <1>4, <4>1
      <4>. QED BY <2>1, <4>1, <4>2
    <3>2. ASSUME NEW links, NEW down, Sever(links, down) PROVE {r, s} \notin up'
      BY <2>1, <3>2 DEF Sever
    <3>. QED BY <1>1, <2>1, <3>1, <3>2, UpStep
  <2>. QED BY <2>3, <2>4
<1>5. ASSUME NEW s \in Replica, Crash(s) PROVE dirty[r] # {}
  BY <1>5 DEF Crash, TypeOK
<1>6. ASSUME NEW s \in Replica, NEW q \in Path, NoteMutation(s, q) PROVE dirty[r] # {}
  BY <1>6 DEF NoteMutation, TypeOK
<1>. QED BY <1>3, <1>4, <1>5, <1>6, Writers

(* What is alive stays so as long as its link is up.                       *)
LEMMA LiveOnlyStep ==
  ASSUME ~EditOnline, TypeOK, Noted, LiveOnly, [Next]_vars
  PROVE  LiveOnly'
<1>. USE DEF vars, storage, channel, ghosts
<1>. DEFINE LiveJob(r) == job'[r].live => {r, job'[r].peer} \in up'
            LiveLetters(r, s) == \A i \in 1 .. Len(inbox'[r][s]) : inbox'[r][s][i].live => {r, s} \in up'
<1>1. /\ TypeOK /\ inbox \in [Replica -> [Replica -> Seq(Letter)]]
      /\ \A r \in Replica : job[r] \in Job /\ job[r].peer \in Replica
  BY DEF TypeOK, Job
<1>2. /\ \A r \in Replica : job[r].live => {r, job[r].peer} \in up
      /\ \A r, s \in Replica, i \in Nat : i \in 1 .. Len(inbox[r][s]) /\ inbox[r][s][i].live => {r, s} \in up
  BY <1>1 DEF LiveOnly, connected
<1>3. ASSUME NEW links, NEW down, Sever(links, down), NEW r \in Replica PROVE LiveJob(r)
  <2>1. up' = up \ links /\ job'[r] \in {Idle, CloseJob(job[r], gone(links, r))}
    BY <1>3 DEF Sever
  <2>2. ~Idle.live
    BY DEF Idle
  <2>3. CASE job'[r] = CloseJob(job[r], gone(links, r))
    <3>1. /\ job'[r].peer = job[r].peer
          /\ job'[r].live = (job[r].live /\ job[r].peer \notin gone(links, r))
      BY <1>1, <2>3 DEF CloseJob, Job
    <3>2. job[r].peer \notin gone(links, r) => {r, job[r].peer} \notin links
      BY <1>1 DEF gone
    <3>. QED BY <1>2, <2>1, <3>1, <3>2
  <2>. QED BY <2>1, <2>2, <2>3
<1>4. ASSUME NEW links, NEW down, Sever(links, down), NEW r \in Replica, NEW s \in Replica
      PROVE LiveLetters(r, s)
  <2>1. up' = up \ links
    BY <1>4 DEF Sever
  <2>2. PICK n \in Nat :
          \/ inbox'[r][s] = <<>>
          \/ inbox'[r][s] = IF {r, s} \in links THEN Closed(inbox[r][s], n) ELSE inbox[r][s]
    <3>1. PICK heard \in [Replica -> 0 .. WireCap] :
            inbox' = [a \in Replica |-> [b \in Replica |->
                       CASE a \in down -> <<>>
                         [] a \notin down /\ {a, b} \in links -> Closed(inbox[a][b], heard[a])
                         [] OTHER -> inbox[a][b]]]
      BY <1>4, Zenon DEF Sever
    <3>2. heard[r] \in Nat
      BY <3>1
    <3>. QED BY <3>1, <3>2
  <2>3. inbox[r][s] \in Seq(Letter)
    BY <1>1 DEF TypeOK
  <2>4. CASE inbox'[r][s] = Closed(inbox[r][s], n)
    <3>. DEFINE q == inbox[r][s]
                kept == IF n < Len(q) THEN n ELSE Len(q)
    <3>1. Len(q) \in Nat /\ \A i \in 1 .. Len(q) : q[i] \in Letter
      BY <2>3, LenProperties, ElementOfSeq
    <3>2. kept \in Nat /\ \A i \in 1 .. kept : i \in 1 .. Len(q)
      BY <3>1
    <3>. HIDE DEF kept
    <3>3. Closed(q, n) = [i \in 1 .. kept |-> [q[i] EXCEPT !.live = FALSE]]
      BY DEF Closed, kept
    <3>4. Len(Closed(q, n)) = kept /\ \A i \in 1 .. kept : ~Closed(q, n)[i].live
      BY <3>1, <3>2, <3>3 DEF Letter
    <3>. QED BY <2>4, <3>4
  <2>5. CASE inbox'[r][s] = inbox[r][s] /\ {r, s} \notin links
    BY <1>2, <2>1, <2>3, <2>5, LenProperties
  <2>6. CASE inbox'[r][s] = <<>>
    <3>1. Len(<<>>) = 0
      OBVIOUS
    <3>. QED BY <2>6, <3>1
  <2>. QED BY <2>2, <2>4, <2>5, <2>6
<1>5. CASE up \subseteq up'
  <2>1. ASSUME NEW r \in Replica PROVE LiveJob(r)
    <3>1. CASE job'[r] = job[r]
      BY <1>2, <1>5, <3>1
    <3>2. CASE \E links, down : Sever(links, down)
      BY <1>3, <3>2
    <3>3. ASSUME NEW s \in Replica, StartEnvelope(r, s) PROVE LiveJob(r)
      <4>1. inbox[r][s] \in Seq(Letter) /\ inbox[r][s] # <<>>
        BY <1>1, <3>3 DEF StartEnvelope, TypeOK
      <4>2. Head(inbox[r][s]) = inbox[r][s][1] /\ 1 \in 1 .. Len(inbox[r][s])
        BY <4>1, EmptySeq, LenProperties
      <4>3. inbox[r][s][1].live => {r, s} \in up'
        BY <1>2, <1>5, <4>2
      <4>4. job'[r].peer = s /\ job'[r].live = inbox[r][s][1].live
        BY <1>1, <3>3, <4>2, JobAfter
      <4>. QED BY <4>3, <4>4
    <3>4. CASE RequestPull(r) \/ \E s \in Replica : answerFile(s, r)
      <4>1. job'[r].peer = job[r].peer /\ job'[r].live = job[r].live
        <5>1. RequestPull(r) => job'[r].peer = job[r].peer /\ job'[r].live = job[r].live
          BY <1>1, JobAfter
        <5>2. ASSUME NEW s \in Replica, answerFile(s, r)
              PROVE  job'[r].peer = job[r].peer /\ job'[r].live = job[r].live
          <6>1. job[r].peer = s /\ job[r].live /\ job'[r].peer = s /\ job'[r].live
            BY <1>1, <5>2, JobAfter
          <6>2. job'[r].live \in BOOLEAN /\ job[r].live \in BOOLEAN
            <7>1. job'[r].live = TRUE
              BY <1>1, <5>2 DEF answerFile, TypeOK, Job
            <7>. QED BY <1>1, <7>1 DEF Job
          <6>. QED BY <6>1, <6>2
        <5>. QED BY <3>4, <5>1, <5>2
      <4>. QED BY <1>2, <1>5, <4>1
    <3>5. CASE PullTimeout(r) \/ applyRemoteDelete(r) \/ DiscardAnswer(r) \/ PullNote(r)
      BY <1>1, <1>2, <1>5, <3>5, JobAfter
    <3>6. CASE PullRead(r) \/ PullWrite(r)
      BY <1>1, <1>2, <1>5, <3>6, JobAfter
    <3>7. CASE Finish(r)
      <4>1. job'[r] = Idle
        BY <1>1, <3>7, JobAfter
      <4>2. ~Idle.live
        BY DEF Idle
      <4>. QED BY <4>1, <4>2
    <3>8. CASE Crash(r)
      BY <3>2, <3>8 DEF Crash
    <3>. QED BY <1>1, <3>1, <3>2, <3>3, <3>4, <3>5, <3>6, <3>7, <3>8, JobStep DEF PullStep
  <2>2. ASSUME NEW r \in Replica, NEW s \in Replica PROVE LiveLetters(r, s)
    <3>1. inbox[r][s] \in Seq(Letter)
      BY <1>1 DEF TypeOK
    <3>2. CASE inbox'[r][s] = inbox[r][s]
      BY <1>2, <1>5, <3>1, <3>2, LenProperties
    <3>3. ASSUME NEW a \in Replica, NEW b \in Replica, NEW c \in BOOLEAN, Send(a, b, c), connected(a, b)
          PROVE  LiveLetters(r, s)
      <4>. DEFINE l == [live |-> TRUE, map |-> MyMap(a), reply |-> c]
      <4>1. l \in Letter
        BY <1>1, MyMapType DEF Letter
      <4>. HIDE DEF l
      <4>2. inbox'[r][s] = IF r = b /\ s = a THEN Append(inbox[r][s], l) ELSE inbox[r][s]
        BY <1>1, <3>3 DEF Send, l
      <4>3. CASE r = b /\ s = a
        <5>1. {r, s} \in up'
          BY <1>5, <3>3, <4>3 DEF connected
        <5>. QED BY <5>1
      <4>4. CASE ~(r = b /\ s = a)
        BY <3>2, <4>2, <4>4
      <4>. QED BY <4>3, <4>4
    <3>4. ASSUME NEW a \in Replica, NEW b \in Replica, StartEnvelope(a, b) PROVE LiveLetters(r, s)
      <4>1. inbox'[r][s] = IF r = a /\ s = b THEN Tail(inbox[r][s]) ELSE inbox[r][s]
        BY <1>1, <3>4 DEF StartEnvelope
      <4>2. r = a /\ s = b => inbox[r][s] # <<>>
        BY <3>4 DEF StartEnvelope
      <4>3. CASE r = a /\ s = b
        <5>. DEFINE q == inbox[r][s]
        <5>1. q \in Seq(Letter) /\ q # <<>> /\ Len(q) \in Nat
          BY <3>1, <4>2, <4>3, LenProperties
        <5>2. Len(Tail(q)) = Len(q) - 1 /\ \A i \in 1 .. Len(Tail(q)) : Tail(q)[i] = q[i + 1]
          BY <5>1
        <5>3. \A i \in 1 .. Len(Tail(q)) : i + 1 \in 1 .. Len(q) /\ i + 1 \in Nat
          BY <5>1, <5>2
        <5>. QED BY <1>2, <1>5, <4>1, <4>3, <5>2, <5>3
      <4>4. CASE ~(r = a /\ s = b)
        BY <3>2, <4>1, <4>4
      <4>. QED BY <4>3, <4>4
    <3>5. ASSUME NEW a \in Replica, NEW b \in Replica, SendMap(a, b) PROVE LiveLetters(r, s)
      BY <3>3, <3>5 DEF SendMap
    <3>6. ASSUME NEW a \in Replica, Finish(a) PROVE LiveLetters(r, s)
      <4>1. UNCHANGED inbox \/ (job[a].live /\ Send(a, job[a].peer, TRUE))
        BY <3>6 DEF Finish
      <4>2. job[a].live => connected(a, job[a].peer)
        BY <1>2 DEF connected
      <4>. QED BY <1>1, <3>2, <3>3, <4>1, <4>2
    <3>7. CASE \E links, down : Sever(links, down)
      BY <1>4, <3>7
    <3>8. /\ \A x, y \in Replica : Drop(x, y) => \E links, down : Sever(links, down)
          /\ \A x \in Replica : Crash(x) => \E links, down : Sever(links, down)
      BY DEF Drop, Crash
    <3>. HIDE DEF LiveLetters
    <3>9. UNCHANGED inbox => LiveLetters(r, s)
      BY <3>2
    <3>10. \/ \E a, b \in Replica : StartEnvelope(a, b) \/ SendMap(a, b) \/ Drop(a, b)
           \/ \E a \in Replica : Finish(a) \/ Crash(a)
           \/ UNCHANGED inbox
      BY DEF Next, UserStep, UserWrite, UserDelete, EngineStep, PullStep, FaultStep, NoteMutation, FireTimer,
             RequestPull, answerFile, PullTimeout, applyRemoteDelete, DiscardAnswer, PullRead, PullWrite,
             PullNote, Persist, Attach
    <3>. QED BY <3>4, <3>5, <3>6, <3>7, <3>8, <3>9, <3>10
  <2>. QED BY <2>1, <2>2 DEF LiveOnly, connected
<1>6. CASE \E links, down : Sever(links, down)
  BY <1>3, <1>4, <1>6 DEF LiveOnly, connected
<1>7. ASSUME NEW x \in Replica, NEW y \in Replica, Attach(x, y) PROVE up \subseteq up'
  BY <1>7 DEF Attach
<1>. QED BY <1>1, <1>5, <1>6, <1>7, UpStep

(* What keeps the letters of a queue older than a journal: later stamps,   *)
(* the head gone, a map of that journal added, a connection closed.        *)
LEMMA OlderLetters ==
  ASSUME NEW j \in JournalState, NEW q \in Seq(Letter), AllOlder(j, q)
  PROVE  /\ \A k \in JournalState :
              (\A p \in Path : lamportFor(j, p) <= lamportFor(k, p)) => AllOlder(k, q)
         /\ q # <<>> => Older(j, Head(q).map) /\ AllOlder(j, Tail(q))
         /\ \A l \in Letter : Older(j, l.map) => AllOlder(j, Append(q, l))
         /\ \A n \in Nat : AllOlder(j, Closed(q, n))
<1>1. Len(q) \in Nat /\ \A i \in 1 .. Len(q) : q[i] \in Letter
  BY LenProperties, ElementOfSeq
<1>2. ASSUME NEW k \in JournalState, \A p \in Path : lamportFor(j, p) <= lamportFor(k, p)
      PROVE  AllOlder(k, q)
  <2>. SUFFICES ASSUME NEW i \in 1 .. Len(q), NEW p \in Path
                PROVE  q[i].map.lamport[p] <= lamportFor(k, p) /\ q[i].map.deletes[p] <= lamportFor(k, p)
    BY DEF AllOlder, Older
  <2>1. q[i].map.lamport[p] <= lamportFor(j, p) /\ q[i].map.deletes[p] <= lamportFor(j, p)
    BY DEF AllOlder, Older
  <2>2. q[i].map.lamport[p] \in Nat /\ q[i].map.deletes[p] \in Nat \cup {-1}
    BY <1>1 DEF Letter, Map, Stamps, NoTomb
  <2>3. lamportFor(j, p) \in Nat /\ lamportFor(k, p) \in Nat
    BY DEF JournalState, lamportFor, SyncOp
  <2>. QED BY <1>2, <2>1, <2>2, <2>3
<1>3. ASSUME q # <<>> PROVE Older(j, Head(q).map) /\ AllOlder(j, Tail(q))
  <2>1. /\ Head(q) = q[1] /\ Len(q) >= 1
        /\ Len(Tail(q)) = Len(q) - 1 /\ \A i \in 1 .. Len(Tail(q)) : Tail(q)[i] = q[i + 1]
    BY <1>3
  <2>. QED BY <1>1, <2>1 DEF AllOlder
<1>4. ASSUME NEW l \in Letter, Older(j, l.map) PROVE AllOlder(j, Append(q, l))
  BY <1>1, <1>4 DEF AllOlder
<1>5. ASSUME NEW n \in Nat PROVE AllOlder(j, Closed(q, n))
  <2>. DEFINE kept == IF n < Len(q) THEN n ELSE Len(q)
  <2>1. kept \in Nat /\ \A i \in 1 .. kept : i \in 1 .. Len(q)
    BY <1>1
  <2>. HIDE DEF kept
  <2>2. Closed(q, n) = [i \in 1 .. kept |-> [q[i] EXCEPT !.live = FALSE]]
    BY DEF Closed, kept
  <2>3. Len(Closed(q, n)) = kept
    BY <2>1, <2>2
  <2>4. \A i \in 1 .. kept : Closed(q, n)[i].map = q[i].map
    BY <1>1, <2>1, <2>2 DEF Letter
  <2>. QED BY <2>1, <2>3, <2>4 DEF AllOlder
<1>. QED BY <1>2, <1>3, <1>4, <1>5

(* Maps stay behind the journal they were made from.                       *)
LEMMA MapsOlderStep ==
  ASSUME Steady, RoundInv, [Next]_vars
  PROVE  MapsOlder'
<1>. USE DEF vars, storage, channel, ghosts
<1>. SUFFICES ASSUME NEW r \in Replica, NEW s \in Replica
              PROVE  AllOlder(journal'[s], inbox'[r][s])
  BY DEF MapsOlder
<1>1. /\ TypeOK /\ inbox \in [Replica -> [Replica -> Seq(Letter)]] /\ inbox[r][s] \in Seq(Letter)
      /\ journal[s] \in JournalState
  BY DEF RoundInv, TypeOK
<1>2. inbox'[r][s] \in Seq(Letter) /\ journal'[s] \in JournalState
  BY <1>1, NextType DEF TypeOK
<1>3. \A p \in Path : lamportFor(journal[s], p) <= lamportFor(journal'[s], p)
  <2>. TAKE p \in Path
  <2>1. lamportFor(journal'[s], p) >= lamportFor(journal[s], p)
    BY <1>1, StampStep, NoCrash
  <2>. QED BY <1>1, <1>2, <2>1 DEF JournalState, lamportFor, SyncOp
<1>4. AllOlder(journal[s], inbox[r][s])
  BY DEF RoundInv, MapsOlder
<1>. DEFINE Good == AllOlder(journal[s], inbox'[r][s])
<1>5. Good => AllOlder(journal'[s], inbox'[r][s])
  BY <1>1, <1>2, <1>3, OlderLetters
<1>6. ASSUME NEW a \in Replica, NEW b \in Replica, NEW c \in BOOLEAN, Send(a, b, c) PROVE Good
  <2>. DEFINE l == [live |-> TRUE, map |-> MyMap(a), reply |-> c]
  <2>1. l \in Letter
    BY <1>1, MyMapType DEF Letter
  <2>2. Older(journal[a], l.map)
    <3>. SUFFICES ASSUME NEW p \in Path
                  PROVE  /\ (IF disk[a][p] = NoFile THEN 0 ELSE lamportFor(journal[a], p)) <= lamportFor(journal[a], p)
                         /\ deletion(journal[a], p) <= lamportFor(journal[a], p)
      BY DEF MyMap, myMap, Older
    <3>2. journal[a] \in JournalState
      BY <1>1 DEF TypeOK
    <3>1. lamportFor(journal[a], p) \in Nat /\ lamportFor(journal[a], p) = journal[a].last[p].lamport
      BY <3>2 DEF JournalState, lamportFor, SyncOp
    <3>. QED BY <3>1 DEF deletion, NoTomb
  <2>. HIDE DEF l
  <2>3. inbox'[r][s] = IF r = b /\ s = a THEN Append(inbox[r][s], l) ELSE inbox[r][s]
    BY <1>1, <1>6 DEF Send, l
  <2>. QED BY <1>1, <1>4, <2>1, <2>2, <2>3, OlderLetters
<1>7. ASSUME NEW a \in Replica, NEW b \in Replica, StartEnvelope(a, b) PROVE Good
  <2>1. inbox'[r][s] = IF r = a /\ s = b THEN Tail(inbox[r][s]) ELSE inbox[r][s]
    BY <1>1, <1>7 DEF StartEnvelope
  <2>2. r = a /\ s = b => inbox[r][s] # <<>>
    BY <1>7 DEF StartEnvelope
  <2>. QED BY <1>1, <1>4, <2>1, <2>2, OlderLetters
<1>8. ASSUME NEW a \in Replica, NEW b \in Replica, SendMap(a, b) PROVE Good
  BY <1>6, <1>8 DEF SendMap
<1>9. ASSUME NEW a \in Replica, Finish(a) PROVE Good
  <2>1. job[a].peer \in Replica
    BY <1>1 DEF TypeOK, Job
  <2>2. UNCHANGED inbox \/ Send(a, job[a].peer, TRUE)
    BY <1>9 DEF Finish
  <2>. QED BY <1>4, <1>6, <2>1, <2>2
<1>10. ASSUME NEW links, NEW down, Sever(links, down) PROVE Good
  <2>1. PICK n \in Nat : \/ inbox'[r][s] = <<>>
                         \/ inbox'[r][s] = Closed(inbox[r][s], n)
                         \/ inbox'[r][s] = inbox[r][s]
    BY <1>10 DEF Sever
  <2>2. AllOlder(journal[s], <<>>)
    <3>1. Len(<<>>) = 0
      OBVIOUS
    <3>. QED BY <3>1 DEF AllOlder
  <2>. QED BY <1>1, <1>4, <2>1, <2>2, OlderLetters
<1>11. ASSUME NEW a \in Replica, Crash(a) PROVE FALSE
  BY <1>1, <1>11, NoCrash
<1>12. UNCHANGED inbox => Good
  BY <1>4
<1>13. \/ \E a, b \in Replica : StartEnvelope(a, b) \/ SendMap(a, b) \/ Drop(a, b)
       \/ \E a \in Replica : Finish(a) \/ Crash(a)
       \/ UNCHANGED inbox
  BY DEF Next, UserStep, UserWrite, UserDelete, EngineStep, PullStep, FaultStep, NoteMutation, FireTimer,
         RequestPull, answerFile, PullTimeout, applyRemoteDelete, DiscardAnswer, PullRead, PullWrite,
         PullNote, Persist, Attach
<1>. HIDE DEF Good
<1>14. Good
  <2>1. \A a, b \in Replica : Drop(a, b) => Good
    BY <1>10 DEF Drop
  <2>. QED BY <1>7, <1>8, <1>9, <1>11, <1>12, <1>13, <2>1
<1>. QED BY <1>5, <1>14

(* What a round decides to pull is no older than what is held: a tombstone *)
(* gives way to a newer write, a conflict to the newer stamp, and a path   *)
(* that is missing was never noted.                                        *)
LEMMA PullDecision ==
  ASSUME RoundInv, NEW r \in Replica, NEW s \in Replica, NEW m \in Map, Older(journal[s], m),
         dirty[r] = {}, job[r].phase = "idle",
         NEW p \in Path, p \in pullSet(journal[r], MyMap(r), m, r, s)
  PROVE  At(r, p) <= At(s, p)
<1>. DEFINE e == journal[r].last[p]
<1>1. /\ At(r, p) \in Nat /\ At(s, p) \in Nat /\ At(r, p) = e.lamport /\ e \in SyncOp
      /\ MyMap(r).hash[p] = disk[r][p]
  <2>1. journal[r] \in JournalState /\ journal[s] \in JournalState
    BY DEF RoundInv, TypeOK
  <2>. QED BY <2>1 DEF JournalState, SyncOp, At, lamportFor, MyMap, myMap
<1>2. /\ m.lamport[p] <= At(s, p) /\ m.deletes[p] <= At(s, p)
      /\ m.lamport[p] \in Nat /\ m.deletes[p] \in Nat \cup {-1}
  BY DEF Older, At, Map, Stamps, NoTomb
<1>3. OpSound(e) /\ (e.op # "none" => e.hash = disk[r][p])
  <2>1. e.op # "none" => e.hash = disk[r][p]
    BY DEF RoundInv, JournalDescribesDisk, Applying
  <2>. QED BY <2>1 DEF RoundInv, OpsSound
<1>4. e.op \in {"none", "write", "delete"}
  BY <1>1 DEF SyncOp
<1>. HIDE DEF e
<1>5. CASE tombstonePull(journal[r], MyMap(r), m, p)
  <2>1. m.deletes[p] # NoTomb /\ disk[r][p] # NoFile /\ ~(e.op = "write" /\ At(r, p) > m.deletes[p])
    BY <1>1, <1>5 DEF tombstonePull, At, e
  <2>2. e.op \in {"none", "write"}
    BY <1>3, <1>4, <2>1 DEF OpSound
  <2>3. CASE e.op = "none"
    BY <1>1, <1>3, <2>3 DEF OpSound
  <2>4. CASE e.op = "write"
    BY <1>1, <1>2, <2>1, <2>4
  <2>. QED BY <2>2, <2>3, <2>4
<1>6. CASE missingPull(journal[r], MyMap(r), m, p)
  <2>1. disk[r][p] = NoFile /\ e.op # "delete"
    BY <1>1, <1>6 DEF missingPull, e
  <2>2. e.op = "none"
    BY <1>3, <1>4, <2>1 DEF OpSound
  <2>. QED BY <1>1, <1>3, <2>2 DEF OpSound
<1>7. CASE conflictPull(journal[r], MyMap(r), m, p, r, s)
  <2>1. At(r, p) <= m.lamport[p]
    BY <1>1, <1>2, <1>7 DEF conflictPull, theirsWins, At
  <2>. QED BY <1>1, <1>2, <2>1
<1>. QED BY <1>5, <1>6, <1>7 DEF pullSet

(* While a pull is under way its path is not noted by anyone else, and the  *)
(* stamps of the peer only grow.                                           *)
LEMMA PullStamps ==
  ASSUME Steady, RoundInv, [Next]_vars, NEW r \in Replica
  PROVE  /\ job[r].live \/ job[r].phase \in Taking => dirty[r] = {}
         /\ \A q \in Path : dirty[r] = {} /\ ~Took(r, q) =>
              lamportFor(journal'[r], q) = lamportFor(journal[r], q)
         /\ \A s \in Replica, q \in Path :
              /\ lamportFor(journal[s], q) \in Nat /\ lamportFor(journal'[s], q) \in Nat
              /\ lamportFor(journal[s], q) <= lamportFor(journal'[s], q)
<1>1. TypeOK /\ TypeOK' /\ job[r].peer \in Replica
  BY NextType DEF RoundInv, TypeOK, Job
<1>2. job[r].live \/ job[r].phase \in Taking => dirty[r] = {}
  BY <1>1 DEF RoundInv, Noted, LiveOnly
<1>3. ASSUME NEW q \in Path, dirty[r] = {}, ~Took(r, q)
      PROVE  lamportFor(journal'[r], q) = lamportFor(journal[r], q)
  <2>1. ~NoteMutation(r, q)
    BY <1>3 DEF NoteMutation
  <2>2. journal'[r].last[q] = journal[r].last[q]
    BY <1>3, <2>1, LastStep DEF Notes
  <2>. QED BY <2>2 DEF lamportFor
<1>4. ASSUME NEW s \in Replica, NEW q \in Path
      PROVE  /\ lamportFor(journal[s], q) \in Nat /\ lamportFor(journal'[s], q) \in Nat
             /\ lamportFor(journal[s], q) <= lamportFor(journal'[s], q)
  <2>1. journal[s] \in JournalState /\ journal'[s] \in JournalState
    BY <1>1 DEF TypeOK
  <2>2. lamportFor(journal[s], q) \in Nat /\ lamportFor(journal'[s], q) \in Nat
    BY <2>1 DEF JournalState, lamportFor, SyncOp
  <2>3. lamportFor(journal'[s], q) >= lamportFor(journal[s], q)
    BY <1>1, StampStep, NoCrash
  <2>. QED BY <2>2, <2>3
<1>. QED BY <1>2, <1>3, <1>4

(* A pull that is under way when somebody else takes a step.               *)
LEMMA NewerUntouched ==
  ASSUME Steady, RoundInv, [Next]_vars, NEW r \in Replica,
         NEW peers \in SUBSET Replica, job'[r] \in {job[r], CloseJob(job[r], peers)}
  PROVE  PullNewer(r, job[r])'
<1>. DEFINE b == job[r]
<1>1. /\ TypeOK /\ b \in Job /\ b.peer \in Replica /\ b.path \in Path /\ b.todo \subseteq Path
      /\ PullNewer(r, b)
  BY DEF RoundInv, TypeOK, Job, PullsNewer
<1>2. /\ job'[r].phase = b.phase /\ job'[r].peer = b.peer /\ job'[r].todo = b.todo
      /\ job'[r].path = b.path /\ job'[r].data = b.data /\ job'[r].lamport = b.lamport
      /\ job'[r].live => b.live
  BY <1>1 DEF CloseJob, Job
<1>3. ASSUME NEW q \in Path PROVE ~Took(r, q)
  <2>1. Took(r, q) => job[r].phase \in Taking /\ job'[r].phase = "pulling"
    BY <1>1, JobAfter DEF Took
  <2>. QED BY <1>2, <2>1 DEF Taking
<1>4. \A q \in Path : b.live \/ b.phase \in Taking => lamportFor(journal'[r], q) = lamportFor(journal[r], q)
  BY <1>3, PullStamps
<1>5. \A q \in Path : lamportFor(journal[b.peer], q) <= lamportFor(journal'[b.peer], q)
  BY <1>1, PullStamps
<1>6. b.phase = "note" => disk'[r] = disk[r]
  <2>. SUFFICES ASSUME b.phase = "note" PROVE disk'[r] = disk[r]
    OBVIOUS
  <2>1. ASSUME NEW s \in Replica, NEW q \in Path, UserWrite(s, q) \/ UserDelete(s, q) PROVE disk'[r] = disk[r]
    BY <1>1, <2>1 DEF UserWrite, UserDelete, Editable, Steady, TypeOK
  <2>2. ASSUME NEW s \in Replica, applyRemoteDelete(s) \/ PullWrite(s) PROVE disk'[r] = disk[r]
    <3>1. s # r
      BY <2>2 DEF applyRemoteDelete, answered, PullWrite
    <3>. QED BY <1>1, <2>2, <3>1 DEF applyRemoteDelete, PullWrite, TypeOK
  <2>3. CASE UNCHANGED disk
    BY <2>3
  <2>. QED BY <2>1, <2>2, <2>3, Writers
<1>7. \A q \in Path : /\ lamportFor(journal[r], q) \in Nat /\ lamportFor(journal[b.peer], q) \in Nat
                      /\ lamportFor(journal'[b.peer], q) \in Nat
  BY <1>1, PullStamps
<1>8. b.live => \A q \in b.todo : lamportFor(journal'[r], q) <= lamportFor(journal'[b.peer], q)
  BY <1>1, <1>4, <1>5, <1>7 DEF PullNewer, At
<1>9. b.live /\ b.phase = "asked" => lamportFor(journal'[r], b.path) <= lamportFor(journal'[b.peer], b.path)
  BY <1>1, <1>4, <1>5, <1>7 DEF PullNewer, At
<1>10. b.phase \in Holding => lamportFor(journal'[r], b.path) <= b.lamport
  BY <1>1, <1>4 DEF PullNewer, At, Taking, Holding
<1>. QED BY <1>1, <1>2, <1>6, <1>8, <1>9, <1>10 DEF PullNewer, At

(* What is pulled stays at least as new as what is held.                   *)
LEMMA PullsNewerStep ==
  ASSUME Steady, RoundInv, [Next]_vars
  PROVE  PullsNewer'
<1>. USE DEF vars, storage, channel, ghosts
<1>. SUFFICES ASSUME NEW r \in Replica PROVE PullNewer(r, job[r])'
  BY DEF PullsNewer
<1>. DEFINE b == job[r]
            c == job'[r]
            M(q) == lamportFor(journal[r], q)
            M1(q) == lamportFor(journal'[r], q)
            T1(q) == lamportFor(journal'[c.peer], q)
<1>1. /\ TypeOK /\ b \in Job /\ b.peer \in Replica /\ b.path \in Path /\ b.todo \subseteq Path
      /\ PullNewer(r, b)
  BY DEF RoundInv, TypeOK, Job, PullsNewer
<1>2. \A s \in Replica, q \in Path :
        /\ lamportFor(journal[s], q) \in Nat /\ lamportFor(journal'[s], q) \in Nat
        /\ lamportFor(journal[s], q) <= lamportFor(journal'[s], q)
  BY PullStamps
<1>3. ASSUME b.live \/ b.phase \in Taking, NEW q \in Path, ~Took(r, q) PROVE M1(q) = M(q)
  BY <1>3, PullStamps
(* The pull ends, or there was none: what is left to do decides.           *)
<1>4. ASSUME c.phase \in {"pulling", "idle"}, c.live => \A q \in c.todo : M1(q) <= T1(q)
      PROVE  PullNewer(r, job[r])'
  BY <1>4 DEF PullNewer, At, Taking, Holding
<1>5. ASSUME b.live, c.peer = b.peer, NEW q \in Path, q \in b.todo, ~Took(r, q) PROVE M1(q) <= T1(q)
  <2>1. M(q) <= lamportFor(journal[b.peer], q)
    BY <1>1, <1>5 DEF PullNewer, At
  <2>2. M1(q) = M(q)
    BY <1>3, <1>5
  <2>. QED BY <1>1, <1>2, <1>5, <2>1, <2>2
<1>6. ASSUME NEW s \in Replica, StartEnvelope(r, s) PROVE PullNewer(r, job[r])'
  <2>. DEFINE letter == Head(inbox[r][s])
  <2>1. inbox[r][s] \in Seq(Letter) /\ inbox[r][s] # <<>> /\ journal[s] \in JournalState
    BY <1>1, <1>6 DEF StartEnvelope, TypeOK
  <2>2. letter \in Letter /\ Older(journal[s], letter.map)
    <3>1. AllOlder(journal[s], inbox[r][s])
      BY DEF RoundInv, MapsOlder
    <3>. QED BY <2>1, <3>1, OlderLetters, HeadTailProperties
  <2>3. /\ b.phase = "idle" /\ c.phase = "pulling" /\ c.peer = s /\ c.live = letter.live
        /\ c.todo = pullSet(journal[r], MyMap(r), letter.map, r, s)
    BY <1>1, <1>6, JobAfter
  <2>4. letter.live => dirty[r] = {}
    <3>1. letter = inbox[r][s][1] /\ 1 \in 1 .. Len(inbox[r][s])
      BY <2>1, EmptySeq, LenProperties
    <3>. QED BY <3>1 DEF RoundInv, LiveOnly, Noted
  <2>5. letter.map \in Map
    BY <2>2 DEF Letter
  <2>. HIDE DEF letter
  <2>6. ASSUME c.live, NEW q \in c.todo PROVE M1(q) <= T1(q)
    <3>1. q \in Path /\ q \in pullSet(journal[r], MyMap(r), letter.map, r, s)
      BY <2>3, <2>6 DEF pullSet
    <3>2. At(r, q) <= At(s, q)
      BY <2>2, <2>3, <2>4, <2>5, <2>6, <3>1, PullDecision
    <3>3. ~Took(r, q)
      BY <2>3 DEF Took, applyRemoteDelete, answered, PullNote
    <3>4. M1(q) = M(q)
      BY <2>3, <2>4, <2>6, <3>1, <3>3, PullStamps
    <3>. QED BY <1>2, <2>3, <3>1, <3>2, <3>4 DEF At
  <2>. QED BY <1>4, <2>3, <2>6
<1>7. ASSUME RequestPull(r) PROVE PullNewer(r, job[r])'
  <2>1. /\ b.phase = "pulling" /\ c.peer = b.peer /\ c.live = b.live
        /\ c.phase = IF b.live THEN "asked" ELSE "pulling"
        /\ c.path \in b.todo /\ c.todo = b.todo \ {c.path}
    BY <1>1, <1>7, JobAfter
  <2>2. \A q : ~Took(r, q)
    BY <2>1 DEF Took, applyRemoteDelete, answered, PullNote
  <2>3. b.live => \A q \in b.todo : M1(q) <= T1(q)
    BY <1>1, <1>5, <2>1, <2>2
  <2>. QED BY <2>1, <2>3 DEF PullNewer, At, Taking, Holding
<1>8. ASSUME NEW s \in Replica, answerFile(s, r) PROVE PullNewer(r, job[r])'
  <2>1. /\ b.phase = "asked" /\ b.peer = s /\ b.live
        /\ c.phase = "told" /\ c.peer = s /\ c.live /\ c.path = b.path /\ c.todo = b.todo
        /\ c.lamport = lamportFor(journal[s], b.path)
    BY <1>1, <1>8, JobAfter
  <2>2. \A q : ~Took(r, q)
    BY <2>1 DEF Took, applyRemoteDelete, answered, PullNote
  <2>3. \A q \in b.todo : M1(q) <= T1(q)
    BY <1>1, <1>5, <2>1, <2>2
  <2>4. M1(b.path) <= c.lamport /\ b.path \notin b.todo
    <3>1. M(b.path) <= lamportFor(journal[s], b.path) /\ b.path \notin b.todo
      BY <1>1, <2>1 DEF PullNewer, At, Taking
    <3>. QED BY <1>1, <1>3, <2>1, <2>2, <3>1
  <2>. QED BY <2>1, <2>3, <2>4 DEF PullNewer, At, Taking, Holding
<1>9. ASSUME PullTimeout(r) \/ applyRemoteDelete(r) \/ DiscardAnswer(r) \/ PullNote(r)
      PROVE  PullNewer(r, job[r])'
  <2>1. /\ b.phase \in Taking /\ c.phase = "pulling" /\ c.peer = b.peer /\ c.live = b.live
        /\ c.todo = b.todo
    BY <1>1, <1>9, JobAfter
  <2>2. \A q \in b.todo : ~Took(r, q)
    BY <1>1, <2>1 DEF Took, PullNewer
  <2>3. b.live => \A q \in b.todo : M1(q) <= T1(q)
    BY <1>1, <1>5, <2>1, <2>2
  <2>. QED BY <1>4, <2>1, <2>3
<1>10. ASSUME PullRead(r) \/ PullWrite(r) PROVE PullNewer(r, job[r])'
  <2>1. /\ b.phase \in Holding /\ b.phase # "note" /\ c.phase = IF b.phase = "told" THEN "write" ELSE "note"
        /\ c.peer = b.peer /\ c.live = b.live /\ c.path = b.path /\ c.todo = b.todo
        /\ c.data = b.data /\ c.lamport = b.lamport
    BY <1>1, <1>10, JobAfter
  <2>2. \A q : ~Took(r, q)
    BY <1>10 DEF Took, applyRemoteDelete, answered, PullNote, PullRead, PullWrite
  <2>3. b.live => \A q \in b.todo : M1(q) <= T1(q)
    BY <1>1, <1>5, <2>1, <2>2
  <2>4. M1(b.path) <= b.lamport /\ b.path \notin b.todo
    <3>1. M(b.path) <= b.lamport /\ b.path \notin b.todo /\ b.phase \in Taking
      BY <1>1, <2>1 DEF PullNewer, At, Taking, Holding
    <3>. QED BY <1>1, <1>3, <2>2, <3>1
  <2>5. b.data # NoFile
    BY <1>1, <1>10 DEF PullRead, PullWrite, PullNewer
  <2>6. c.phase = "note" => disk'[r][b.path] = b.data
    <3>1. c.phase = "note" => PullWrite(r)
      BY <1>10, <2>1 DEF PullRead, answered
    <3>2. PullWrite(r) => disk'[r][b.path] = b.data
      BY <1>1 DEF PullWrite, TypeOK
    <3>. QED BY <3>1, <3>2
  <2>. QED BY <2>1, <2>3, <2>4, <2>5, <2>6 DEF PullNewer, At, Taking, Holding
<1>11. ASSUME Finish(r) PROVE PullNewer(r, job[r])'
  <2>1. job'[r] = Idle
    BY <1>1, <1>11, JobAfter
  <2>2. Idle.phase = "idle" /\ ~Idle.live
    BY DEF Idle
  <2>. QED BY <1>4, <2>1, <2>2
<1>12. CASE job'[r] = job[r]
  BY <1>12, NewerUntouched
<1>13. ASSUME NEW links, job'[r] = CloseJob(job[r], gone(links, r))
       PROVE  PullNewer(r, job[r])'
  <2>1. gone(links, r) \in SUBSET Replica
    BY DEF gone
  <2>. QED BY <1>13, <2>1, NewerUntouched
<1>14. ~Crash(r)
  BY <1>1, NoCrash
<1>. QED BY <1>1, <1>14, <1>6, <1>7, <1>8, <1>9, <1>10, <1>11, <1>12, <1>13, JobStep DEF PullStep

(* What an op says of a path is what the disk holds: the actions that      *)
(* change a file leave it to be noted or note it themselves.               *)
LEMMA DescribesStep ==
  ASSUME Steady, RoundInv, [Next]_vars
  PROVE  JournalDescribesDisk'
<1>. USE DEF vars, storage, channel, ghosts
<1>. SUFFICES ASSUME NEW r \in Replica, NEW p \in Path, p \notin dirty'[r], ~Applying(r, p)',
                     journal'[r].last[p].op # "none"
              PROVE  journal'[r].last[p].hash = disk'[r][p]
  BY DEF JournalDescribesDisk
<1>1. /\ TypeOK /\ disk \in [Replica -> [Path -> File]] /\ dirty \in [Replica -> SUBSET Path]
      /\ job[r] \in Job /\ job[r].path \in Path
  BY DEF RoundInv, TypeOK, Job
<1>2. CASE Notes(r, p)
  BY <1>2, NotesTaken DEF RoundInv
<1>3. CASE ~Notes(r, p)
  <2>1. journal'[r].last[p] = journal[r].last[p]
    BY <1>3, LastStep
  <2>2. p \notin dirty[r]
    <3>1. ASSUME NEW s \in Replica, NEW q \in Path, UserWrite(s, q) \/ UserDelete(s, q) PROVE p \notin dirty[r]
      BY <1>1, <3>1 DEF UserWrite, UserDelete
    <3>2. ASSUME NEW s \in Replica, NEW q \in Path, NoteMutation(s, q) PROVE p \notin dirty[r]
      BY <1>1, <1>3, <3>2 DEF NoteMutation, Notes
    <3>3. ASSUME NEW s \in Replica, Crash(s) PROVE FALSE
      BY <1>1, <3>3, NoCrash
    <3>. QED BY <3>1, <3>2, <3>3, Writers
  <2>3. ~Applying(r, p)
    <3>. SUFFICES ASSUME job[r].phase = "note", job[r].path = p PROVE FALSE
      BY DEF Applying
    <3>1. ~PullNote(r)
      BY <1>3 DEF Notes, Took
    <3>2. job'[r].phase # "note" \/ job'[r].path # p
      BY DEF Applying
    <3>3. ASSUME NEW peers, job'[r] = CloseJob(job[r], peers) PROVE FALSE
      <4>1. job'[r].phase = job[r].phase /\ job'[r].path = job[r].path
        BY <1>1, <3>3 DEF CloseJob, Job
      <4>. QED BY <3>2, <4>1
    <3>4. CASE \E s \in Replica : StartEnvelope(r, s) \/ answerFile(s, r)
      BY <3>4 DEF StartEnvelope, answerFile
    <3>5. CASE PullStep(r) \/ Finish(r)
      BY <3>1, <3>5 DEF PullStep, RequestPull, PullTimeout, applyRemoteDelete, DiscardAnswer, PullRead,
                        PullWrite, Finish, answered
    <3>6. ~Crash(r)
      BY <1>1, NoCrash
    <3>. QED BY <1>1, <3>2, <3>3, <3>4, <3>5, <3>6, JobStep
  <2>4. disk'[r][p] = disk[r][p]
    <3>1. ASSUME NEW s \in Replica, NEW q \in Path, UserWrite(s, q) \/ UserDelete(s, q)
          PROVE  disk'[r][p] = disk[r][p]
      <4>1. s # r \/ q # p
        BY <1>1, <3>1 DEF UserWrite, UserDelete
      <4>. QED BY <1>1, <3>1, <4>1 DEF UserWrite, UserDelete
    <3>2. ASSUME NEW s \in Replica, applyRemoteDelete(s) PROVE disk'[r][p] = disk[r][p]
      <4>1. s # r \/ job[s].path # p
        BY <1>3, <3>2 DEF Notes, Took
      <4>. QED BY <1>1, <3>2, <4>1 DEF applyRemoteDelete
    <3>3. ASSUME NEW s \in Replica, PullWrite(s) PROVE disk'[r][p] = disk[r][p]
      <4>1. s # r \/ job[s].path # p
        <5>. SUFFICES ASSUME s = r, job[r].path = p PROVE FALSE
          OBVIOUS
        <5>1. job'[r].phase = "note" /\ job'[r].path = p
          <6>1. job[r].phase = "write" /\ PullWrite(r)
            BY <3>3 DEF PullWrite
          <6>. QED BY <1>1, <6>1, JobAfter
        <5>. QED BY <5>1 DEF Applying
      <4>. QED BY <1>1, <3>3, <4>1 DEF PullWrite
    <3>4. CASE UNCHANGED disk
      BY <3>4
    <3>. QED BY <3>1, <3>2, <3>3, <3>4, Writers
  <2>. QED BY <2>1, <2>2, <2>3, <2>4 DEF RoundInv, JournalDescribesDisk
<1>. QED BY <1>2, <1>3

LEMMA RoundInvNext ==
  ASSUME Steady, RoundInv, [Next]_vars
  PROVE  RoundInv'
<1>1. TypeOK'
  BY NextType DEF RoundInv
<1>2. ~EditOnline
  BY DEF Steady
<1>. QED BY <1>1, <1>2, OpsSoundStep, NotedStep, LiveOnlyStep, MapsOlderStep, PullsNewerStep, DescribesStep
         DEF RoundInv

(* As long as users edit while no round runs and nobody crashes, whatever  *)
(* connects, is lost or times out, the last op of a path is about the file *)
(* on disk, so that the maps and the tombstones made from the journal are  *)
(* true (journal.ts, noteMutation, applyRemoteWrite, applyRemoteDelete).   *)
THEOREM JournalTellsDisk == Steady => (Spec => []JournalDescribesDisk)
<1>. SUFFICES ASSUME Steady PROVE Spec => []JournalDescribesDisk
  OBVIOUS
<1>1. RoundInv /\ [Next]_vars => RoundInv'
  BY RoundInvNext
<1>2. RoundInv => JournalDescribesDisk
  BY DEF RoundInv
<1>. QED BY <1>1, <1>2, RoundInvInit, PTL DEF Spec

(* Likewise a tombstone removes no file that was written later: between    *)
(* the decision of the round and the answer of the peer, through lost      *)
(* links and timeouts, the stamps of the peer only grow and those of the   *)
(* path that is pulled stay as they are (applyRemoteDelete).               *)
THEOREM TombstonesYield == Steady => (Spec => TombstonesRespectNewerWrites)
<1>. SUFFICES ASSUME Steady PROVE Spec => TombstonesRespectNewerWrites
  OBVIOUS
<1>1. RoundInv /\ [Next]_vars => RoundInv'
  BY RoundInvNext
<1>2. RoundInv /\ [Next]_vars =>
        [\A r \in Replica, p \in Path :
           applyRemoteDelete(r) /\ job[r].path = p /\ disk[r][p] # NoFile
             => lamportFor(journal[r], p) <= job[r].lamport]_vars
  <2>. SUFFICES ASSUME RoundInv, NEW r \in Replica, NEW p \in Path,
                       applyRemoteDelete(r), job[r].path = p
                PROVE  lamportFor(journal[r], p) <= job[r].lamport
    OBVIOUS
  <2>1. job[r].phase \in Holding
    BY DEF applyRemoteDelete, answered, Holding
  <2>. QED BY <2>1 DEF RoundInv, PullsNewer, PullNewer, At
<1>. QED BY <1>1, <1>2, RoundInvInit, PTL DEF Spec, TombstonesRespectNewerWrites

-----------------------------------------------------------------------------
(* The winner rule.                                                        *)

(* conflictWinner, run on both sides of a conflict with the roles swapped, *)
(* names the same winner: whatever the stamps and the times, exactly one   *)
(* of the two replicas finds that the other wins.                          *)
THEOREM OneSideYields ==
  ASSUME NEW l1 \in Nat, NEW t1 \in Nat, NEW r1 \in Replica,
         NEW l2 \in Nat, NEW t2 \in Nat, NEW r2 \in Replica, r1 # r2
  PROVE  theirsWins(l1, t1, r1, l2, t2, r2) <=> ~theirsWins(l2, t2, r2, l1, t1, r1)
<1>1. r1 \in Nat /\ r2 \in Nat
  BY ReplicaAssumption
<1>. QED BY <1>1 DEF theirsWins

-----------------------------------------------------------------------------
(* Quiet replicas agree.  Users edit while no round runs and delete        *)
(* nothing, replicas meet in pairs and no answer is late: a pull that      *)
(* times out is not made up for by itself.  Connections are lost.  What    *)
(* decides a conflict is the stamps, then the ids: the adapters report     *)
(* file times, but every file is journaled (the workspaces begin empty and *)
(* no crash takes an op that was not saved); or files are there that no    *)
(* journal knows, replicas crash, and the adapters report no times.        *)
Fresh == Seed = 0 /\ MaxCrashes = 0
OneToOne == /\ ~EditOnline /\ Undeleted /\ MaxTimeouts = 0
            /\ Fresh \/ MTime = {0}
            /\ \A k, l \in Link : k # l => k \cap l = {}

(* No stamp without a file.                                                *)
Unstamped(j, files) == \A p \in Path : files[p] = NoFile => lamportFor(j, p) = 0
Founded == \A r \in Replica : Unstamped(journal[r], disk[r]) /\ Unstamped(saved[r], disk[r])

(* Letters and rounds are those of two replicas that have a link.          *)
Linked == \A r, s \in Replica : /\ inbox[r][s] # <<>> => {r, s} \in Link
                                /\ job[r].phase # "idle" => {r, job[r].peer} \in Link

(* No file without a stamp, but while it waits to be journaled: a user     *)
(* wrote it, or a pull that brings a stamp unless the path has one.        *)
ToNote(r, p) == job[r].phase = "note" /\ job[r].path = p
Stamped == \A r \in Replica, p \in Path :
  /\ Have(r, p) => At(r, p) > 0 \/ p \in dirty[r] \/ ToNote(r, p)
  /\ journal[r].last[p].op # "none" => At(r, p) > 0
  /\ job[r].phase \in Holding /\ job[r].path = p => job[r].lamport > 0 \/ At(r, p) > 0

(* Why no conflict is decided by file times.                               *)
Timeless == \/ Fresh /\ Linked /\ Stamped
            \/ MTime = {0} /\ \A r \in Replica, p \in Path : mtime[r][p] = 0

(* A path that is pulled is not pulled again, the peer has it, and what a  *)
(* pull wrote is there until it is journaled.                              *)
PullOnce(mine, theirs, b) ==
  /\ b.phase = "idle" => ~b.live
  /\ b.phase \in Taking => b.path \notin b.todo /\ theirs[b.path] # NoFile
  /\ b.phase = "note" => mine[b.path] = b.data
PullsOnce == \A r \in Replica : PullOnce(disk[r], disk[job[r].peer], job[r])

BaseInv == EditInv /\ Noted /\ LiveOnly /\ Founded /\ Timeless /\ PullsOnce

(* What the pair lemmas rest on holds at the start, ...                    *)
LEMMA BaseInvInit == OneToOne /\ Init => BaseInv
<1>. SUFFICES ASSUME OneToOne, Init PROVE BaseInv
  OBVIOUS
<1>1. EditInv
  BY EditInvInit
<1>2. \A r, s \in Replica : inbox[r][s] = <<>> /\ Len(inbox[r][s]) = 0
  BY DEF Init
<1>3. \A r \in Replica : job[r].phase = "idle" /\ ~job[r].live /\ dirty[r] = {}
  BY DEF Init, Idle
<1>4. Noted /\ LiveOnly
  BY <1>2, <1>3 DEF Noted, LiveOnly
<1>5. Founded
  BY DEF Init, Founded, Unstamped, EmptyJournal, NoOp, lamportFor
<1>6. PullsOnce
  BY <1>3 DEF PullsOnce, PullOnce, Taking
<1>7. Timeless
  <2>1. CASE Fresh
    <3>1. Linked
      BY <1>2, <1>3 DEF Linked
    <3>2. \A r \in Replica, p \in Path : ~Have(r, p) /\ journal[r].last[p].op = "none"
      <4>. TAKE r \in Replica, p \in Path
      <4>1. disk[r][p] \in 0 .. 0
        BY <2>1 DEF Init, Fresh
      <4>2. journal[r].last[p].op = "none"
        BY DEF Init, EmptyJournal, NoOp
      <4>. QED BY <4>1, <4>2 DEF Have, NoFile
    <3>. QED BY <1>3, <2>1, <3>1, <3>2 DEF Timeless, Stamped, Holding
  <2>2. CASE MTime = {0}
    BY <2>2 DEF Init, Timeless
  <2>. QED BY <2>1, <2>2 DEF OneToOne
<1>. QED BY <1>1, <1>4, <1>5, <1>6, <1>7 DEF BaseInv

(* A path gets a stamp when it is noted, and it is a file then.            *)
LEMMA FoundedStep ==
  ASSUME OneToOne, BaseInv, [Next]_vars
  PROVE  Founded'
<1>. USE DEF vars, storage, channel, ghosts
<1>1. TypeOK /\ EditInv /\ ~EditOnline /\ Undeleted
  BY DEF BaseInv, EditInv, OneToOne
<1>2. ASSUME NEW r \in Replica, NEW p \in Path, disk'[r][p] = NoFile
      PROVE  lamportFor(journal'[r], p) = 0 /\ lamportFor(saved'[r], p) = 0
  <2>1. disk[r][p] = NoFile
    BY <1>1, <1>2, FilesStay DEF Have
  <2>2. lamportFor(journal[r], p) = 0 /\ lamportFor(saved[r], p) = 0
    BY <2>1 DEF BaseInv, Founded, Unstamped
  <2>3. ~Notes(r, p)
    <3>1. ~NoteMutation(r, p)
      BY <1>1, <2>1 DEF NoteMutation, EditInv, NothingDeleted, Have
    <3>2. ~applyRemoteDelete(r)
      BY <1>1, NoRemoteDelete
    <3>3. ~(PullNote(r) /\ job[r].path = p)
      BY <1>1, <2>1 DEF PullNote, EditInv, PullsSound, PullSound, BaseInv, PullsOnce, PullOnce
    <3>. QED BY <3>1, <3>2, <3>3 DEF Notes, Took
  <2>4. lamportFor(journal'[r], p) = 0
    BY <1>1, <2>2, <2>3, OpStep DEF lamportFor
  <2>5. saved'[r] \in {saved[r], journal[r]}
    BY <1>1, Writers DEF Finish, Persist, TypeOK
  <2>. QED BY <2>2, <2>4, <2>5
<1>. QED BY <1>2 DEF Founded, Unstamped

(* Without file times no file gets one.                                    *)
LEMMA NoTimesStep ==
  ASSUME TypeOK, MTime = {0}, [Next]_vars, NEW r \in Replica, NEW p \in Path, mtime[r][p] = 0
  PROVE  mtime'[r][p] = 0
<1>. USE DEF vars, storage, channel, ghosts
<1>1. mtime[r][p] = 0 /\ mtime \in [Replica -> [Path -> Nat]]
  BY DEF TypeOK
<1>2. ASSUME NEW s \in Replica, NEW q \in Path, mtime' = [mtime EXCEPT ![s][q] = 0] PROVE mtime'[r][p] = 0
  BY <1>1, <1>2
<1>3. ASSUME NEW s \in Replica, NEW q \in Path, UserWrite(s, q) PROVE mtime'[r][p] = 0
  BY <1>2, <1>3 DEF UserWrite
<1>4. ASSUME NEW s \in Replica, PullWrite(s) PROVE mtime'[r][p] = 0
  <2>1. job[s].path \in Path
    BY DEF TypeOK, Job
  <2>2. mtime' = [mtime EXCEPT ![s][job[s].path] = 0]
    BY <1>4 DEF PullWrite
  <2>. QED BY <1>2, <2>1, <2>2
<1>5. ASSUME NEW s \in Replica, PullStep(s) PROVE UNCHANGED mtime \/ PullWrite(s)
  <2>1. RequestPull(s) \/ PullTimeout(s) \/ applyRemoteDelete(s) => UNCHANGED mtime
    BY DEF RequestPull, PullTimeout, applyRemoteDelete
  <2>2. DiscardAnswer(s) \/ PullRead(s) \/ PullNote(s) => UNCHANGED mtime
    BY DEF DiscardAnswer, PullRead, PullNote
  <2>. QED BY <1>5, <2>1, <2>2 DEF PullStep
<1>6. ASSUME NEW s \in Replica, NEW t \in Replica,
             \/ SendMap(s, t) \/ StartEnvelope(s, t) \/ answerFile(t, s) \/ Attach(s, t) \/ Drop(s, t)
      PROVE  UNCHANGED mtime
  BY <1>6 DEF SendMap, StartEnvelope, answerFile, Attach, Drop
<1>7. ASSUME NEW s \in Replica, NEW q \in Path, NoteMutation(s, q) \/ UserDelete(s, q)
      PROVE  UNCHANGED mtime
  BY <1>7 DEF NoteMutation, UserDelete
<1>8. ASSUME NEW s \in Replica, FireTimer(s) \/ Finish(s) \/ Persist(s) \/ Crash(s)
      PROVE  UNCHANGED mtime
  BY <1>8 DEF FireTimer, Finish, Persist, Crash
<1>9. UNCHANGED mtime => mtime'[r][p] = 0
  BY <1>1
<1>. QED
  BY <1>3, <1>4, <1>5, <1>6, <1>7, <1>8, <1>9 DEF Next, UserStep, EngineStep, FaultStep

(* Letters are sent, and rounds begin, where there is a link.              *)
LEMMA LinkedStep ==
  ASSUME TypeOK, LiveOnly, Linked, [Next]_vars
  PROVE  Linked'
<1>. USE DEF vars, storage, channel, ghosts
<1>. SUFFICES ASSUME NEW r \in Replica, NEW s \in Replica
              PROVE  /\ inbox'[r][s] # <<>> => {r, s} \in Link
                     /\ job'[r].phase # "idle" => {r, job'[r].peer} \in Link
  BY DEF Linked
<1>1. /\ inbox[r][s] # <<>> => {r, s} \in Link
      /\ job[r].phase # "idle" => {r, job[r].peer} \in Link
  BY DEF Linked
<1>2. inbox \in [Replica -> [Replica -> Seq(Letter)]] /\ up \subseteq Link
  BY DEF TypeOK
<1>3. /\ \A x \in Replica : job[x] \in Job /\ job[x].peer \in Replica
      /\ \A x \in Replica : job[x].live => connected(x, job[x].peer)
  BY DEF TypeOK, Job, LiveOnly
<1>4. inbox'[r][s] # <<>> => {r, s} \in Link
  <2>. DEFINE Goal == inbox'[r][s] # <<>> => {r, s} \in Link
  <2>1. inbox'[r][s] = inbox[r][s] \/ inbox'[r][s] = <<>> => Goal
    BY <1>1
  <2>2. ASSUME NEW a \in Replica, NEW b \in Replica, NEW c, Send(a, b, c), connected(a, b) PROVE Goal
    <3>1. (r = b /\ s = a) \/ inbox'[r][s] = inbox[r][s]
      BY <1>2, <2>2 DEF Send
    <3>2. {a, b} \in Link
      BY <1>2, <2>2 DEF connected
    <3>3. r = b /\ s = a => {r, s} \in Link
      BY <3>2
    <3>. QED BY <2>1, <3>1, <3>3
  <2>3. ASSUME NEW a \in Replica, NEW b \in Replica, SendMap(a, b) PROVE Goal
    BY <2>2, <2>3 DEF SendMap
  <2>4. ASSUME NEW a \in Replica, Finish(a) PROVE Goal
    <3>1. UNCHANGED inbox \/ (job[a].live /\ Send(a, job[a].peer, TRUE))
      BY <2>4 DEF Finish
    <3>. QED BY <1>3, <2>1, <2>2, <3>1
  <2>5. ASSUME NEW a \in Replica, NEW b \in Replica, StartEnvelope(a, b) PROVE Goal
    <3>1. inbox[a][b] # <<>> /\ inbox' = [inbox EXCEPT ![a][b] = Tail(@)]
      BY <2>5 DEF StartEnvelope
    <3>2. (r = a /\ s = b) \/ inbox'[r][s] = inbox[r][s]
      BY <1>2, <3>1
    <3>. QED BY <1>1, <2>1, <3>1, <3>2
  <2>6. ASSUME NEW links, NEW down, Sever(links, down) PROVE Goal
    <3>1. PICK heard \in [Replica -> 0 .. WireCap] :
            inbox' = [a \in Replica |-> [b \in Replica |->
                       CASE a \in down -> <<>>
                         [] a \notin down /\ {a, b} \in links -> Closed(inbox[a][b], heard[a])
                         [] OTHER -> inbox[a][b]]]
      BY <2>6, Zenon DEF Sever
    <3>2. \/ inbox'[r][s] = <<>>
          \/ inbox'[r][s] = Closed(inbox[r][s], heard[r])
          \/ inbox'[r][s] = inbox[r][s]
      BY <3>1
    <3>3. inbox[r][s] = <<>> => Closed(inbox[r][s], heard[r]) = <<>>
      <4>1. Len(<<>>) = 0 /\ heard[r] \in Nat
        BY <3>1
      <4>2. ASSUME NEW n \in Nat PROVE Closed(<<>>, n) = <<>>
        BY <4>1, <4>2 DEF Closed
      <4>. QED BY <4>1, <4>2
    <3>. QED BY <1>1, <3>2, <3>3
  <2>7. /\ \A x, y \in Replica : Drop(x, y) => \E links, down : Sever(links, down)
        /\ \A x \in Replica : Crash(x) => \E links, down : Sever(links, down)
    BY DEF Drop, Crash
  <2>8. \/ \E a, b \in Replica : StartEnvelope(a, b) \/ SendMap(a, b) \/ Drop(a, b)
        \/ \E a \in Replica : Finish(a) \/ Crash(a)
        \/ UNCHANGED inbox
    BY DEF Next, UserStep, UserWrite, UserDelete, EngineStep, PullStep, FaultStep, NoteMutation, FireTimer,
           RequestPull, answerFile, PullTimeout, applyRemoteDelete, DiscardAnswer, PullRead, PullWrite,
           PullNote, Persist, Attach
  <2>. HIDE DEF Goal
  <2>9. Goal
    BY <2>1, <2>3, <2>4, <2>5, <2>6, <2>7, <2>8
  <2>. QED BY <2>9 DEF Goal
<1>5. job'[r].phase # "idle" => {r, job'[r].peer} \in Link
  <2>. DEFINE Goal == job'[r].phase # "idle" => {r, job'[r].peer} \in Link
  <2>1. job[r].phase # "idle" /\ job'[r].peer = job[r].peer => Goal
    BY <1>1
  <2>2. job'[r] = job[r] => Goal
    BY <1>1
  <2>3. ASSUME NEW links, job'[r] = CloseJob(job[r], gone(links, r)) PROVE Goal
    <3>1. job'[r].phase = job[r].phase /\ job'[r].peer = job[r].peer
      BY <1>3, <2>3 DEF CloseJob, Job
    <3>. QED BY <1>1, <3>1
  <2>4. job'[r] = Idle => Goal
    BY DEF Idle
  <2>5. ASSUME NEW t \in Replica, StartEnvelope(r, t) PROVE Goal
    <3>1. inbox[r][t] # <<>>
      BY <2>5 DEF StartEnvelope
    <3>2. job'[r].peer = t
      BY <2>5, JobAfter
    <3>. QED BY <3>1, <3>2 DEF Linked
  <2>6. ASSUME NEW t \in Replica, answerFile(t, r) PROVE Goal
    BY <2>1, <2>6, JobAfter
  <2>7. RequestPull(r) => Goal
    BY <2>1, JobAfter
  <2>8. PullTimeout(r) \/ applyRemoteDelete(r) \/ DiscardAnswer(r) \/ PullNote(r) => Goal
    BY <2>1, JobAfter DEF Taking
  <2>9. PullRead(r) \/ PullWrite(r) => Goal
    BY <2>1, JobAfter DEF Holding
  <2>10. Finish(r) => Goal
    BY <2>4, JobAfter
  <2>. HIDE DEF Goal
  <2>11. Goal
    BY <2>2, <2>3, <2>4, <2>5, <2>6, <2>7, <2>8, <2>9, <2>10, JobStep DEF PullStep
  <2>. QED BY <2>11 DEF Goal
<1>. QED BY <1>4, <1>5

(* What is journaled gets a stamp: a user's op one above the clock, ...    *)
LEMMA recordOpStamps ==
  ASSUME NEW j \in JournalState, NEW p \in Path, NEW c \in Nat,
         j.last[p].op # "none" => lamportFor(j, p) > 0
  PROVE  lamportFor(recordOp(j, p, c), p) > 0
<1>1. j.last \in [Path -> SyncOp] /\ j.last[p] \in SyncOp /\ j.clock \in Nat /\ lamportFor(j, p) \in Nat
  BY DEF JournalState, SyncOp, lamportFor
<1>. DEFINE base == Later(j.clock, lamportFor(j, p)) + 1
            entry == IF c = NoFile THEN DeleteOp(base) ELSE WriteOp(c, base)
            n == recordOp(j, p, c)
<1>2. base > 0
  BY <1>1 DEF Later
<1>3. entry.lamport = base /\ entry.op # "none"
  BY DEF DeleteOp, WriteOp
<1>. HIDE DEF base, entry
<1>4. (n = j /\ j.last[p].op = entry.op) \/ n = Append1(j, p, entry, base)
  BY DEF recordOp, base, entry
<1>5. CASE n = j /\ j.last[p].op = entry.op
  BY <1>3, <1>5
<1>6. CASE n = Append1(j, p, entry, base)
  <2>1. n.last[p] = entry
    BY <1>1, <1>6 DEF Append1
  <2>. QED BY <1>2, <1>3, <2>1 DEF lamportFor
<1>. QED BY <1>4, <1>5, <1>6

(* ... a pulled file the stamp it came with, unless its path has a later.  *)
LEMMA recordRemoteOpStamps ==
  ASSUME NEW j \in JournalState, NEW p \in Path, NEW c \in Nat, NEW l \in Nat,
         l > 0 \/ lamportFor(j, p) > 0
  PROVE  lamportFor(recordRemoteOp(j, p, c, l), p) > 0
<1>1. j.last \in [Path -> SyncOp] /\ j.last[p] \in SyncOp /\ lamportFor(j, p) \in Nat
  BY DEF JournalState, SyncOp, lamportFor
<1>. DEFINE entry == IF c = NoFile THEN DeleteOp(l) ELSE WriteOp(c, l)
            clock == Later(j.clock, l)
            n == recordRemoteOp(j, p, c, l)
<1>2. entry.lamport = l
  BY DEF DeleteOp, WriteOp
<1>. HIDE DEF entry, clock
<1>3. \/ n = [j EXCEPT !.clock = clock] /\ (l < lamportFor(j, p) \/ j.last[p] = entry)
      \/ n = Append1(j, p, entry, clock) /\ l >= lamportFor(j, p)
  BY <1>1 DEF recordRemoteOp, entry, clock
<1>4. CASE n = [j EXCEPT !.clock = clock] /\ (l < lamportFor(j, p) \/ j.last[p] = entry)
  <2>1. n.last = j.last
    BY <1>4 DEF JournalState
  <2>. QED BY <1>1, <1>2, <1>4, <2>1 DEF lamportFor
<1>5. CASE n = Append1(j, p, entry, clock) /\ l >= lamportFor(j, p)
  <2>1. n.last[p] = entry
    BY <1>1, <1>5 DEF Append1
  <2>. QED BY <1>1, <1>2, <1>5, <2>1 DEF lamportFor
<1>. QED BY <1>3, <1>4, <1>5

(* A replica has one peer at a time.                                       *)
LEMMA OnePeer ==
  ASSUME OneToOne, BaseInv, NEW r \in Replica, NEW s \in Replica, connected(r, s)
  PROVE  /\ r # s
         /\ \A t \in Replica : connected(r, t) => t = s
         /\ job[r].live => job[r].peer = s
<1>1. {r, s} \in Link /\ up \subseteq Link
  BY DEF connected, BaseInv, EditInv, TypeOK
<1>2. r # s
  <2>1. Cardinality({r, s}) = 2
    BY <1>1, LinkAssumption
  <2>2. Cardinality({r}) = 1
    BY FS_Singleton
  <2>. QED BY <2>1, <2>2
<1>3. ASSUME NEW t \in Replica, connected(r, t) PROVE t = s
  <2>1. {r, t} \in Link /\ {r, s} \cap {r, t} # {}
    BY <1>1, <1>3 DEF connected
  <2>2. {r, s} = {r, t}
    BY <1>1, <2>1 DEF OneToOne
  <2>. QED BY <2>2
<1>4. job[r].live => job[r].peer = s
  <2>1. job[r].peer \in Replica
    BY DEF BaseInv, EditInv, TypeOK, Job
  <2>. QED BY <1>3, <2>1 DEF BaseInv, LiveOnly
<1>. QED BY <1>2, <1>3, <1>4

(* A file keeps its stamp, and a new one gets one when it is journaled.    *)
LEMMA StampedStep ==
  ASSUME OneToOne, Fresh, BaseInv, Linked, Stamped, [Next]_vars
  PROVE  Stamped'
<1>. USE DEF vars, storage, channel, ghosts
<1>. SUFFICES ASSUME NEW r \in Replica, NEW p \in Path
              PROVE  /\ Have(r, p)' => At(r, p)' > 0 \/ p \in dirty'[r] \/ ToNote(r, p)'
                     /\ journal'[r].last[p].op # "none" => At(r, p)' > 0
                     /\ job'[r].phase \in Holding /\ job'[r].path = p => job'[r].lamport > 0 \/ At(r, p)' > 0
  BY DEF Stamped
<1>. DEFINE b == job[r]
            c == job'[r]
<1>1. /\ TypeOK /\ EditInv /\ ~EditOnline /\ Undeleted /\ Noted /\ LiveOnly
      /\ \A x \in Replica : ~Crash(x)
  BY NoCrash DEF BaseInv, EditInv, OneToOne, Steady, Fresh
<1>2. /\ b \in Job /\ b.path \in Path /\ b.peer \in Replica /\ b.lamport \in Nat /\ b.data \in Nat
      /\ journal[r] \in JournalState /\ journal \in [Replica -> JournalState]
      /\ At(r, p) \in Nat /\ disk[r][p] \in Nat
  BY <1>1, DataAssumption DEF TypeOK, Job, Stamps, File, At, lamportFor, JournalState, SyncOp
<1>3. /\ Have(r, p) => At(r, p) > 0 \/ p \in dirty[r] \/ ToNote(r, p)
      /\ journal[r].last[p].op # "none" => At(r, p) > 0
      /\ b.phase \in Holding /\ b.path = p => b.lamport > 0 \/ At(r, p) > 0
  BY DEF Stamped
<1>4. At(r, p) > 0 => At(r, p)' > 0
  <2>1. At(r, p)' >= At(r, p)
    BY <1>1, StampStep DEF At
  <2>2. At(r, p)' \in Nat
    <3>1. TypeOK'
      BY <1>1, NextType
    <3>2. journal'[r] \in JournalState
      BY <3>1 DEF TypeOK
    <3>. QED BY <3>2 DEF At, lamportFor, JournalState, SyncOp
  <2>. QED BY <1>2, <2>1, <2>2
<1>5. ASSUME NoteMutation(r, p) PROVE At(r, p)' > 0
  <2>1. journal'[r] = recordOp(journal[r], p, disk[r][p])
    BY <1>2, <1>5 DEF NoteMutation
  <2>. QED BY <1>2, <1>3, <2>1, recordOpStamps DEF At
<1>6. ASSUME PullNote(r), b.path = p PROVE At(r, p)' > 0
  <2>1. journal'[r] = recordRemoteOp(journal[r], p, b.data, b.lamport) /\ b.phase \in Holding
    BY <1>2, <1>6 DEF PullNote, Holding
  <2>. QED BY <1>2, <1>3, <1>6, <2>1, recordRemoteOpStamps DEF At
<1>7. ~applyRemoteDelete(r)
  BY <1>1, NoRemoteDelete
<1>8. journal'[r].last[p].op # "none" => At(r, p)' > 0
  <2>1. journal'[r].last[p] = journal[r].last[p] \/ Notes(r, p)
    BY <1>1, OpStep
  <2>2. Notes(r, p) => At(r, p)' > 0
    BY <1>5, <1>6, <1>7 DEF Notes, Took
  <2>. QED BY <1>3, <1>4, <2>1, <2>2
<1>9. ASSUME disk'[r][p] # disk[r][p] PROVE p \in dirty'[r] \/ ToNote(r, p)'
  <2>1. ASSUME NEW x \in Replica, NEW q \in Path, UserWrite(x, q) \/ UserDelete(x, q) PROVE p \in dirty'[r]
    <3>1. ~UserDelete(x, q)
      BY <1>1 DEF UserDelete, Undeleted
    <3>2. dirty \in [Replica -> SUBSET Path] /\ dirty' = [dirty EXCEPT ![x] = @ \cup {q}]
      BY <1>1, <2>1, <3>1 DEF UserWrite, TypeOK
    <3>3. disk \in [Replica -> [Path -> File]] /\ disk' = [disk EXCEPT ![x][q] = made']
      BY <1>1, <2>1, <3>1 DEF UserWrite, TypeOK
    <3>4. x = r /\ q = p
      BY <1>9, <3>3
    <3>. QED BY <3>2, <3>4
  <2>2. ASSUME NEW x \in Replica, PullWrite(x) PROVE ToNote(r, p)'
    <3>1. x = r /\ b.path = p
      BY <1>1, <1>9, <2>2 DEF PullWrite, TypeOK, Job
    <3>2. c.phase = "note" /\ c.path = p
      BY <1>1, <1>2, <2>2, <3>1 DEF PullWrite, TypeOK, Job
    <3>. QED BY <3>2 DEF ToNote
  <2>3. ~UNCHANGED disk /\ \A x \in Replica : ~applyRemoteDelete(x)
    BY <1>1, <1>9, NoRemoteDelete
  <2>. QED BY <2>1, <2>2, <2>3, Writers
<1>10. ASSUME p \in dirty[r] PROVE p \in dirty'[r] \/ At(r, p)' > 0
  <2>1. ASSUME NEW x \in Replica, NEW q \in Path, UserWrite(x, q) \/ UserDelete(x, q) PROVE p \in dirty'[r]
    <3>1. ~UserDelete(x, q)
      BY <1>1 DEF UserDelete, Undeleted
    <3>2. dirty \in [Replica -> SUBSET Path] /\ dirty' = [dirty EXCEPT ![x] = @ \cup {q}]
      BY <1>1, <2>1, <3>1 DEF UserWrite, TypeOK
    <3>. QED BY <1>10, <3>2
  <2>2. ASSUME NEW x \in Replica, NEW q \in Path, NoteMutation(x, q), ~(x = r /\ q = p) PROVE p \in dirty'[r]
    BY <1>1, <1>10, <2>2 DEF NoteMutation, TypeOK
  <2>. QED BY <1>1, <1>5, <1>10, <2>1, <2>2, Writers
<1>11. \/ /\ c.phase = b.phase /\ c.path = b.path /\ c.lamport = b.lamport
       \/ c.phase \notin Holding /\ (b.phase = "note" => PullNote(r))
       \/ \E s \in Replica : answerFile(s, r)
       \/ /\ PullRead(r) \/ PullWrite(r)
          /\ b.phase \in Holding \ {"note"} /\ c.path = b.path /\ c.lamport = b.lamport
  <2>. DEFINE Keeps == c.phase = b.phase /\ c.path = b.path /\ c.lamport = b.lamport
              Leaves == c.phase \notin Holding /\ (b.phase = "note" => PullNote(r))
              Moves2 == /\ PullRead(r) \/ PullWrite(r)
                        /\ b.phase \in Holding \ {"note"} /\ c.path = b.path /\ c.lamport = b.lamport
  <2>1. job'[r] = job[r] => Keeps
    OBVIOUS
  <2>2. ASSUME NEW links, job'[r] = CloseJob(job[r], gone(links, r)) PROVE Keeps
    BY <1>2, <2>2 DEF CloseJob, Job
  <2>3. ASSUME NEW s \in Replica, StartEnvelope(r, s) PROVE Leaves
    BY <1>1, <2>3, JobAfter DEF Holding
  <2>4. RequestPull(r) => Leaves
    BY <1>1, JobAfter DEF Holding
  <2>5. PullTimeout(r) \/ DiscardAnswer(r) \/ PullNote(r) => Leaves
    <3>1. PullTimeout(r) \/ DiscardAnswer(r) => b.phase # "note"
      BY DEF PullTimeout, DiscardAnswer, answered
    <3>. QED BY <1>1, <3>1, JobAfter DEF Holding
  <2>6. PullRead(r) \/ PullWrite(r) => Moves2
    BY <1>1, JobAfter
  <2>7. Finish(r) => Leaves
    <3>1. Finish(r) => b.phase = "pulling"
      BY DEF Finish
    <3>2. Idle.phase \notin Holding
      BY DEF Idle, Holding
    <3>. QED BY <1>1, <3>1, <3>2, JobAfter
  <2>. HIDE DEF Keeps, Leaves, Moves2
  <2>8. Keeps \/ Leaves \/ Moves2 \/ \E s \in Replica : answerFile(s, r)
    BY <1>1, <1>7, <2>1, <2>2, <2>3, <2>4, <2>5, <2>6, <2>7, JobStep DEF PullStep
  <2>. QED BY <2>8 DEF Keeps, Leaves, Moves2
<1>12. ASSUME NEW s \in Replica, answerFile(s, r), b.path = p PROVE At(s, p) > 0 \/ At(r, p) > 0
  <2>1. b.phase = "asked" /\ b.peer = s /\ b.live /\ connected(r, s)
    BY <1>1, <1>12 DEF answerFile, LiveOnly
  <2>2. Have(s, p)
    BY <1>1, <1>12, <2>1 DEF EditInv, PullsSound, PullSound, Have
  <2>3. dirty[s] = {} /\ dirty[r] = {}
    BY <1>1, <2>1 DEF Noted, connected, Taking
  <2>4. At(s, p) > 0 \/ ToNote(s, p)
    BY <2>2, <2>3 DEF Stamped
  <2>5. ASSUME ToNote(s, p) PROVE At(r, p) > 0
    <3>1. {s, job[s].peer} \in Link /\ {r, s} \in Link /\ r # s /\ job[s].peer \in Replica
      <4>1. job[s].phase # "idle"
        BY <2>5 DEF ToNote
      <4>2. {r, s} \in Link /\ job[s].peer \in Replica
        BY <1>1, <2>1 DEF connected, TypeOK, Job
      <4>. QED BY <2>1, <4>1, <4>2, OnePeer DEF Linked
    <3>2. {s, job[s].peer} = {r, s}
      <4>1. s \in {s, job[s].peer} \cap {r, s}
        OBVIOUS
      <4>. QED BY <3>1, <4>1 DEF OneToOne
    <3>3. job[s].peer = r
      <4>1. Cardinality({s, job[s].peer}) = 2 /\ Cardinality({s}) = 1
        BY <3>1, LinkAssumption, FS_Singleton
      <4>. QED BY <3>2, <4>1
    <3>4. Have(r, p)
      BY <2>5, <3>3 DEF BaseInv, PullsOnce, PullOnce, ToNote, Taking, Have
    <3>5. ~ToNote(r, p)
      BY <2>1 DEF ToNote
    <3>. QED BY <1>3, <2>3, <3>4, <3>5
  <2>. QED BY <2>4, <2>5
<1>13. c.phase \in Holding /\ c.path = p => c.lamport > 0 \/ At(r, p)' > 0
  <2>1. ASSUME NEW s \in Replica, answerFile(s, r) PROVE c.path = p => c.lamport > 0 \/ At(r, p)' > 0
    <3>1. c.path = b.path /\ c.lamport = At(s, b.path)
      BY <1>1, <2>1, JobAfter DEF At
    <3>. QED BY <1>4, <1>12, <2>1, <3>1
  <2>. QED BY <1>3, <1>4, <1>11, <2>1
<1>14. ASSUME ToNote(r, p) PROVE ToNote(r, p)' \/ At(r, p)' > 0
  <2>1. b.phase = "note" /\ b.path = p
    BY <1>14 DEF ToNote
  <2>2. \A s \in Replica : ~answerFile(s, r)
    BY <2>1 DEF answerFile
  <2>. QED BY <1>6, <1>11, <2>1, <2>2 DEF ToNote, Holding
<1>15. Have(r, p)' => At(r, p)' > 0 \/ p \in dirty'[r] \/ ToNote(r, p)'
  BY <1>3, <1>4, <1>9, <1>10, <1>14 DEF Have
<1>. QED BY <1>8, <1>13, <1>15

LEMMA TimelessStep ==
  ASSUME OneToOne, BaseInv, [Next]_vars
  PROVE  Timeless'
<1>1. TypeOK /\ LiveOnly
  BY DEF BaseInv, EditInv
<1>2. CASE Fresh /\ Linked /\ Stamped
  BY <1>1, <1>2, LinkedStep, StampedStep DEF Timeless
<1>3. CASE MTime = {0} /\ \A r \in Replica, p \in Path : mtime[r][p] = 0
  BY <1>1, <1>3, NoTimesStep DEF Timeless
<1>. QED BY <1>2, <1>3 DEF BaseInv, Timeless

(* A path leaves the list of what is to be pulled when it is asked for.    *)
LEMMA PullsOnceStep ==
  ASSUME OneToOne, BaseInv, [Next]_vars
  PROVE  PullsOnce'
<1>. USE DEF vars, storage, channel, ghosts
<1>. SUFFICES ASSUME NEW r \in Replica PROVE PullOnce(disk'[r], disk'[job'[r].peer], job'[r])
  BY DEF PullsOnce
<1>. DEFINE b == job[r]
            c == job'[r]
            Once == PullOnce(disk'[r], disk'[job'[r].peer], job'[r])
<1>1. /\ TypeOK /\ EditInv /\ ~EditOnline /\ Undeleted /\ b \in Job /\ b.path \in Path /\ b.peer \in Replica
      /\ b.todo \subseteq Path /\ PullOnce(disk[r], disk[b.peer], b)
  BY DEF BaseInv, EditInv, OneToOne, TypeOK, Job, PullsOnce
<1>2. \A p \in Path : disk[b.peer][p] # NoFile => disk'[b.peer][p] # NoFile
  BY <1>1, FilesStay DEF Have
<1>3. ASSUME c.phase = "pulling" PROVE Once
  BY <1>3 DEF PullOnce, Taking
<1>4. ASSUME b.phase = "note", ~PullStep(r) PROVE disk'[r] = disk[r]
  <2>1. ASSUME NEW s \in Replica, NEW q \in Path, UserWrite(s, q) \/ UserDelete(s, q) PROVE disk'[r] = disk[r]
    BY <1>1, <1>4, <2>1 DEF UserWrite, UserDelete, Editable, Undeleted, TypeOK
  <2>2. ASSUME NEW s \in Replica, applyRemoteDelete(s) \/ PullWrite(s) PROVE disk'[r] = disk[r]
    <3>1. s # r
      BY <1>4, <2>2 DEF PullStep
    <3>. QED BY <1>1, <2>2, <3>1 DEF applyRemoteDelete, PullWrite, TypeOK
  <2>3. CASE UNCHANGED disk
    BY <2>3
  <2>. QED BY <2>1, <2>2, <2>3, Writers
<1>5. ASSUME ~PullStep(r), c.phase = b.phase, c.path = b.path, c.todo = b.todo, c.data = b.data,
             c.peer = b.peer, c.live => b.live
      PROVE  Once
  BY <1>1, <1>2, <1>4, <1>5 DEF PullOnce
<1>6. ASSUME job'[r] = job[r], ~PullStep(r) PROVE Once
  BY <1>5, <1>6
<1>7. ASSUME NEW links, job'[r] = CloseJob(job[r], gone(links, r)), ~PullStep(r) PROVE Once
  <2>1. /\ c.phase = b.phase /\ c.path = b.path /\ c.todo = b.todo /\ c.data = b.data
        /\ c.peer = b.peer /\ (c.live => b.live)
    BY <1>1, <1>7 DEF CloseJob, Job
  <2>. QED BY <1>5, <1>7, <2>1
<1>8. ASSUME job'[r] = Idle PROVE Once
  BY <1>8 DEF Idle, PullOnce, Taking
<1>9. ASSUME NEW s \in Replica, StartEnvelope(r, s) PROVE Once
  BY <1>1, <1>3, <1>9, JobAfter
<1>10. ASSUME RequestPull(r) PROVE Once
  <2>1. /\ b.phase = "pulling" /\ c.peer = b.peer /\ c.live = b.live
        /\ c.phase = (IF b.live THEN "asked" ELSE "pulling")
        /\ c.path \in b.todo /\ c.todo = b.todo \ {c.path}
    BY <1>1, <1>10, JobAfter
  <2>2. disk[b.peer][c.path] # NoFile
    BY <1>1, <2>1 DEF EditInv, PullsSound, PullSound
  <2>. QED BY <1>1, <1>2, <2>1, <2>2 DEF PullOnce, Taking
<1>11. ASSUME NEW s \in Replica, answerFile(s, r) PROVE Once
  <2>1. /\ b.phase = "asked" /\ c.phase = "told" /\ c.peer = b.peer
        /\ c.path = b.path /\ c.todo = b.todo
    BY <1>1, <1>11, JobAfter
  <2>. QED BY <1>1, <1>2, <2>1 DEF PullOnce, Taking
<1>12. ASSUME PullTimeout(r) \/ applyRemoteDelete(r) \/ DiscardAnswer(r) \/ PullNote(r) PROVE Once
  BY <1>1, <1>3, <1>12, JobAfter
<1>13. ASSUME PullRead(r) \/ PullWrite(r) PROVE Once
  <2>1. /\ b.phase \in Holding /\ c.phase = (IF b.phase = "told" THEN "write" ELSE "note")
        /\ c.path = b.path /\ c.todo = b.todo /\ c.data = b.data /\ c.peer = b.peer
    BY <1>1, <1>13, JobAfter
  <2>2. c.phase = "note" => disk'[r][b.path] = b.data
    <3>1. c.phase = "note" => PullWrite(r)
      BY <1>13, <2>1 DEF PullRead, answered
    <3>. QED BY <1>1, <3>1 DEF PullWrite, TypeOK
  <2>. QED BY <1>1, <1>2, <2>1, <2>2 DEF PullOnce, Taking, Holding
<1>14. Finish(r) => job'[r] = Idle
  BY <1>1, JobAfter
<1>. HIDE DEF Once
<1>15. Once
  BY <1>1, <1>6, <1>7, <1>8, <1>9, <1>10, <1>11, <1>12, <1>13, <1>14, JobStep DEF PullStep
<1>. QED BY <1>15 DEF Once

(* ... and every step keeps it.                                            *)
LEMMA BaseInvNext ==
  ASSUME OneToOne, BaseInv, [Next]_vars
  PROVE  BaseInv'
<1>1. ~EditOnline /\ Undeleted /\ EditInv /\ TypeOK /\ Noted /\ LiveOnly
  BY DEF OneToOne, Undeleted, BaseInv, EditInv
<1>2. EditInv'
  BY <1>1, NextType, NothingDeletedStep, MapsTruthfulStep, PullsSoundStep, NoLostEditStep DEF EditInv
<1>3. Noted' /\ LiveOnly'
  BY <1>1, NotedStep, LiveOnlyStep
<1>. QED BY <1>2, <1>3, FoundedStep, TimelessStep, PullsOnceStep DEF BaseInv

-----------------------------------------------------------------------------
(* What two replicas that are connected owe each other.                    *)
(* The letters of s that r has not opened, of the connection that is up.   *)
Alive(q) == {q[i] : i \in {k \in 1 .. Len(q) : q[k].live}}
Letters(r, s) == Alive(inbox[r][s])

(* A version of a path that s stamped l beats what r has of it.            *)
Beats(l, s, r, p) == l > At(r, p) \/ (l = At(r, p) /\ s < r)

(* r should take the file of s.                                            *)
Yields(r, s, p) ==
  Have(s, p) /\ disk[r][p] # disk[s][p] /\ (~Have(r, p) \/ Beats(At(s, p), s, r, p))

(* s has not opened all maps of r that it is going to answer; ...          *)
Unheard(s, r) == s \in due[r] \/ \E l \in Letters(s, r) : ~l.reply
Asking(s) == job[s].live /\ ~job[s].reply
(* ... so that it will tell r what it has then.                            *)
WillTell(s, r) == Unheard(s, r) \/ Asking(s)

(* A letter at r tells what s has now.                                     *)
Tells(l, s, p) == l.map.hash[p] = disk[s][p] /\ l.map.lamport[p] = At(s, p)
Covered(r, s, p) == WillTell(s, r) \/ \E l \in Letters(r, s) : Tells(l, s, p)

(* A letter at r makes it pull the file of s, ...                          *)
Told(r, s, p) ==
  \E l \in Letters(r, s) :
    /\ l.map.hash[p] = disk[s][p]
    /\ ~Have(r, p) \/ Beats(l.map.lamport[p], s, r, p)
(* ... or r is pulling it.                                                 *)
Wants(b, p) == p \in b.todo \/ (b.phase \in Taking /\ b.path = p)
Pulls(r, s, p) ==
  LET b == job[r]
  IN  /\ b.live /\ b.map.hash[p] = disk[s][p]
      /\ \/ p \in b.todo
         \/ b.phase = "asked" /\ b.path = p
         \/ b.phase \in {"told", "write"} /\ b.path = p /\ b.data = disk[s][p]

(* What a letter says is no newer than what its sender has.                *)
Behind(r, s) == \A l \in Letters(r, s), p \in Path : l.map.lamport[p] <= At(s, p)

(* What r pulls beats what it has, and goes on doing so.                   *)
Ranked(r, s) ==
  LET b == job[r]
  IN  b.live =>
        /\ \A p \in Path :
             p \in b.todo \/ (b.phase \in {"asked", "told", "write"} /\ b.path = p)
               => ~Have(r, p) \/ Beats(At(s, p), s, r, p)
        /\ b.phase = "note" =>
             \/ Beats(At(s, b.path), s, r, b.path)
             \/ \A l \in Letters(s, r) : l.reply => l.map.hash[b.path] = NoFile

(* What an answer brought is what s has, or s will tell.                   *)
Answers(r, s) ==
  LET b == job[r]
  IN  b.live /\ b.phase \in Holding =>
        \/ b.data = disk[s][b.path]
        \/ /\ ~b.reply
           /\ Covered(r, s, b.path)
           /\ ~(job[s].live /\ job[s].reply /\ Wants(job[s], b.path))

(* The rest of a pull whose connection is gone: r has not opened a map of  *)
(* this connection, so that s has no reply, and s will tell.               *)
Leftover(r) == ~job[r].live /\ job[r].phase \in {"write", "note"}
Unopened(r, s) ==
  Leftover(r) =>
    /\ Unheard(r, s)
    /\ \A l \in Letters(s, r) : ~l.reply
    /\ job[s].live => ~job[s].reply
    /\ \A p \in Path : Covered(r, s, p)

(* What r should take it will be told of, has been told of or pulls.       *)
Awaits(r, s) == \A p \in Path : Yields(r, s, p) => WillTell(s, r) \/ Told(r, s, p) \/ Pulls(r, s, p)

PairInv(r, s) == Behind(r, s) /\ Ranked(r, s) /\ Answers(r, s) /\ Unopened(r, s) /\ Awaits(r, s)
MeetInv == \A r, s \in Replica : connected(r, s) => PairInv(r, s)

-----------------------------------------------------------------------------
(* What a step is to a pair that is connected before and after it.         *)

Rests(x) == disk'[x] = disk[x] /\ job'[x] = job[x] /\ \A p \in Path : At(x, p)' = At(x, p)
(* The letters of y at x, and the map that y still owes.                   *)
SameMail(x, y) == Letters(x, y)' = Letters(x, y) /\ (x \in due[y] => x \in due'[y])
SameFiles(x) == disk'[x] = disk[x] /\ \A p \in Path : At(x, p)' = At(x, p)

Sends(x, y, isReply) ==
  \E l \in Letters(y, x)' :
       /\ Letters(y, x)' = Letters(y, x) \cup {l}
       /\ l.reply = isReply /\ l.map = MyMap(x)

Writing(x, y) ==
  /\ Rests(x) /\ SameMail(x, y)
  /\ Sends(x, y, FALSE)

Opening(x, y) ==
  LET b == job[x]
      c == job'[x]
  IN  /\ SameFiles(x) /\ SameMail(y, x) /\ (x \in due[y] => x \in due'[y])
      /\ b.phase = "idle" /\ c.phase = "pulling" /\ c.live
      /\ \E h \in Letters(x, y) :
           /\ Letters(x, y)' \cup {h} = Letters(x, y)
           /\ c.map = h.map /\ c.reply = h.reply
           /\ \A p \in Path : p \in c.todo <=>
                /\ h.map.hash[p] # NoFile
                /\ \/ ~Have(x, p)
                   \/ disk[x][p] # h.map.hash[p] /\ Beats(h.map.lamport[p], y, x, p)

(* The steps of a pull that change nothing but the job.                    *)
Pulling(x, y) ==
  LET b == job[x]
      c == job'[x]
  IN  /\ SameFiles(x) /\ SameMail(x, y) /\ SameMail(y, x)
      /\ \/ ~b.live /\ ~c.live /\ c.phase = "pulling" /\ ~Leftover(x)
         \/ /\ b.live /\ c.live /\ c.map = b.map /\ c.reply = b.reply
            /\ \/ /\ b.phase = "pulling" /\ c.phase = "asked"
                  /\ c.path \in b.todo /\ c.todo = b.todo \ {c.path}
               \/ /\ b.phase = "asked" /\ c.phase = "told"
                  /\ c.path = b.path /\ c.todo = b.todo /\ c.data = disk[y][b.path]
               \/ /\ b.phase = "told" /\ c.phase = "pulling"
                  /\ c.todo = b.todo /\ b.map.hash[b.path] # b.data
               \/ /\ b.phase = "told" /\ c.phase = "write"
                  /\ c.path = b.path /\ c.todo = b.todo /\ c.data = b.data

SameJob(b, c) == c.live = b.live /\ c.map = b.map /\ c.reply = b.reply /\ c.todo = b.todo

Storing(x, y) ==
  LET b == job[x]
      c == job'[x]
  IN  /\ SameMail(x, y) /\ SameMail(y, x) /\ SameJob(b, c)
      /\ b.phase = "write" /\ c.phase = "note" /\ c.path = b.path /\ c.data = b.data
      /\ disk'[x][b.path] = b.data
      /\ \A p \in Path : /\ At(x, p)' = At(x, p)
                         /\ p # b.path => disk'[x][p] = disk[x][p]

Noting(x, y) ==
  LET b == job[x]
      c == job'[x]
  IN  /\ SameMail(x, y) /\ SameMail(y, x) /\ SameJob(b, c)
      /\ b.phase = "note" /\ c.phase = "pulling"
      /\ disk'[x] = disk[x]
      /\ \A p \in Path : /\ At(x, p)' >= At(x, p)
                         /\ p # b.path => At(x, p)' = At(x, p)

Ending(x, y) ==
  /\ SameFiles(x) /\ SameMail(x, y)
  /\ job[x].phase = "pulling" /\ job[x].todo = {}
  /\ job'[x].phase = "idle" /\ ~job'[x].live
  /\ y \in due[x] => y \in due'[x]
  /\ IF Asking(x) THEN Sends(x, y, TRUE) ELSE Letters(y, x)' = Letters(y, x)

Moves(x, y) ==
  /\ Rests(y)
  /\ \/ Writing(x, y) \/ Opening(x, y) \/ Pulling(x, y) \/ Storing(x, y) \/ Noting(x, y) \/ Ending(x, y)

-----------------------------------------------------------------------------
(* What the operators on queues do to the letters of the connection.       *)
LEMMA AliveLetters ==
  ASSUME NEW q \in Seq(Letter)
  PROVE  /\ \A l \in Alive(q) : l \in Letter /\ l.live /\ \E i \in 1 .. Len(q) : q[i] = l
         /\ \A l \in Letter : l.live => Alive(Append(q, l)) = Alive(q) \cup {l}
         /\ q # <<>> => LET h == Head(q)
                        IN  IF h.live THEN Alive(Tail(q)) \cup {h} = Alive(q) ELSE Alive(Tail(q)) = Alive(q)
<1>1. Len(q) \in Nat /\ \A i \in 1 .. Len(q) : q[i] \in Letter
  BY LenProperties, ElementOfSeq
<1>2. \A l \in Alive(q) : l \in Letter /\ l.live /\ \E i \in 1 .. Len(q) : q[i] = l
  BY <1>1 DEF Alive
<1>3. ASSUME NEW l \in Letter, l.live PROVE Alive(Append(q, l)) = Alive(q) \cup {l}
  <2>. DEFINE n == Append(q, l)
  <2>1. /\ Len(n) = Len(q) + 1 /\ n[Len(q) + 1] = l /\ \A i \in 1 .. Len(q) : n[i] = q[i]
    OBVIOUS
  <2>. HIDE DEF n
  <2>2. ASSUME NEW m \in Alive(n) PROVE m \in Alive(q) \cup {l}
    <3>1. PICK i \in 1 .. Len(n) : n[i] = m /\ n[i].live
      BY DEF Alive
    <3>2. CASE i = Len(q) + 1
      BY <2>1, <3>1, <3>2
    <3>3. CASE i # Len(q) + 1
      <4>1. i \in 1 .. Len(q)
        BY <1>1, <2>1, <3>3
      <4>. QED BY <2>1, <3>1, <4>1 DEF Alive
    <3>. QED BY <3>2, <3>3
  <2>3. ASSUME NEW m \in Alive(q) PROVE m \in Alive(n)
    <3>1. PICK i \in 1 .. Len(q) : q[i] = m /\ q[i].live
      BY DEF Alive
    <3>2. i \in 1 .. Len(n) /\ n[i] = m
      BY <1>1, <2>1, <3>1
    <3>. QED BY <3>1, <3>2 DEF Alive
  <2>4. l \in Alive(n)
    <3>1. Len(q) + 1 \in 1 .. Len(n)
      BY <1>1, <2>1
    <3>. QED BY <1>3, <2>1, <3>1 DEF Alive
  <2>5. Alive(n) = Alive(q) \cup {l}
    BY <2>2, <2>3, <2>4
  <2>. QED BY <2>5 DEF n
<1>4. ASSUME q # <<>>
      PROVE  LET h == Head(q)
             IN  IF h.live THEN Alive(Tail(q)) \cup {h} = Alive(q) ELSE Alive(Tail(q)) = Alive(q)
  <2>. DEFINE n == Tail(q)
              h == Head(q)
  <2>1. /\ h = q[1] /\ Len(q) >= 1
        /\ Len(n) = Len(q) - 1 /\ \A i \in 1 .. Len(n) : n[i] = q[i + 1]
    BY <1>4
  <2>. HIDE DEF n, h
  <2>2. ASSUME NEW m \in Alive(q) PROVE m \in Alive(n) \/ (m = h /\ h.live)
    <3>1. PICK i \in 1 .. Len(q) : q[i] = m /\ q[i].live
      BY DEF Alive
    <3>2. CASE i = 1
      BY <2>1, <3>1, <3>2
    <3>3. CASE i # 1
      <4>1. i - 1 \in 1 .. Len(n) /\ n[i - 1] = m
        BY <1>1, <2>1, <3>1, <3>3
      <4>. QED BY <3>1, <4>1 DEF Alive
    <3>. QED BY <3>2, <3>3
  <2>3. ASSUME NEW m \in Alive(n) PROVE m \in Alive(q)
    <3>1. PICK i \in 1 .. Len(n) : n[i] = m /\ n[i].live
      BY DEF Alive
    <3>2. i + 1 \in 1 .. Len(q) /\ q[i + 1] = m
      BY <1>1, <2>1, <3>1
    <3>. QED BY <3>1, <3>2 DEF Alive
  <2>4. h.live => h \in Alive(q)
    <3>1. 1 \in 1 .. Len(q)
      BY <1>1, <2>1
    <3>. QED BY <2>1, <3>1 DEF Alive
  <2>5. IF h.live THEN Alive(n) \cup {h} = Alive(q) ELSE Alive(n) = Alive(q)
    <3>1. CASE h.live
      <4>1. Alive(n) \cup {h} = Alive(q)
        BY <2>2, <2>3, <2>4, <3>1
      <4>. QED BY <3>1, <4>1
    <3>2. CASE ~h.live
      <4>1. Alive(n) = Alive(q)
        BY <2>2, <2>3, <3>2
      <4>. QED BY <3>2, <4>1
    <3>. QED BY <3>1, <3>2
  <2>. QED BY <2>5 DEF n, h
<1>. QED BY <1>2, <1>3, <1>4

(* The letters of a connection that is up are true of their sender.        *)
LEMMA LettersTrue ==
  ASSUME BaseInv, NEW r \in Replica, NEW s \in Replica, NEW l \in Letters(r, s)
  PROVE  /\ l \in Letter /\ l.live /\ connected(r, s)
         /\ \A p \in Path : l.map.deletes[p] = NoTomb /\ (l.map.hash[p] # NoFile => Have(s, p))
<1>1. inbox[r][s] \in Seq(Letter) /\ AllTruthful(disk[s], inbox[r][s])
  BY DEF BaseInv, EditInv, TypeOK, MapsTruthful
<1>2. PICK i \in 1 .. Len(inbox[r][s]) : inbox[r][s][i] = l /\ l \in Letter /\ l.live
  BY <1>1, AliveLetters DEF Letters
<1>3. connected(r, s)
  BY <1>2 DEF BaseInv, LiveOnly
<1>4. Truthful(disk[s], l.map)
  BY <1>1, <1>2 DEF AllTruthful
<1>. QED BY <1>2, <1>3, <1>4 DEF Truthful, Have

(* Without tombstones, when file times do not count, a path is pulled that *)
(* is missing, or differs and is beaten by its stamp.                      *)
LEMMA PullRule ==
  ASSUME OneToOne, BaseInv, NEW r \in Replica, NEW s \in Replica, NEW m \in Map, r # s,
         connected(r, s), job[r].phase = "idle", NEW p \in Path, m.deletes[p] = NoTomb
  PROVE  p \in pullSet(journal[r], MyMap(r), m, r, s) <=>
           /\ m.hash[p] # NoFile
           /\ \/ ~Have(r, p)
              \/ disk[r][p] # m.hash[p] /\ Beats(m.lamport[p], s, r, p)
<1>1. journal[r].last[p].op # "delete"
  BY DEF BaseInv, EditInv, NothingDeleted, NoTombstone
<1>2. MyMap(r).hash = disk[r] /\ MyMap(r).mtime = mtime[r]
  BY DEF MyMap, myMap
<1>3. ~tombstonePull(journal[r], MyMap(r), m, p)
  BY DEF tombstonePull
<1>4. missingPull(journal[r], MyMap(r), m, p) <=> ~Have(r, p) /\ m.hash[p] # NoFile
  BY <1>1, <1>2 DEF missingPull, Have
<1>5. conflictPull(journal[r], MyMap(r), m, p, r, s) <=>
        Have(r, p) /\ m.hash[p] # NoFile /\ disk[r][p] # m.hash[p] /\ Beats(m.lamport[p], s, r, p)
  <2>1. Have(r, p) => At(r, p) # 0 \/ mtime[r][p] = 0
    <3>1. dirty[r] = {} /\ job[r].phase # "note"
      BY DEF BaseInv, Noted
    <3>2. CASE Stamped
      <4>1. Have(r, p) => At(r, p) > 0
        <5>1. Have(r, p) => At(r, p) > 0 \/ p \in dirty[r] \/ ToNote(r, p)
          BY <3>2, Zenon DEF Stamped
        <5>2. p \notin dirty[r] /\ ~ToNote(r, p)
          BY <3>1 DEF ToNote
        <5>. QED BY <5>1, <5>2, Zenon
      <4>2. ~(0 > 0)
        OBVIOUS
      <4>. QED BY <4>1, <4>2
    <3>. QED BY <3>2, Zenon DEF BaseInv, Timeless
  <2>2. Have(r, p) =>
          (theirsWins(lamportFor(journal[r], p), mtime[r][p], r, m.lamport[p], m.mtime[p], s)
             <=> Beats(m.lamport[p], s, r, p))
    BY <2>1 DEF theirsWins, Beats, At
  <2>. QED BY <1>2, <2>2 DEF conflictPull, conflict, Have
<1>. QED BY <1>3, <1>4, <1>5 DEF pullSet

-----------------------------------------------------------------------------
(* A step of one of the two keeps what they owe each other.                *)
(* What the invariants of every replica say of x and its peer y.           *)
Sane(x, y) ==
  LET b == job[x]
  IN  /\ b \in Job /\ job'[x] \in Job
      /\ \A p \in Path : At(x, p) \in Nat /\ At(x, p)' \in Nat
      /\ \A l \in Letters(x, y), p \in Path :
           l.map.lamport[p] \in Nat /\ (l.map.hash[p] # NoFile => Have(y, p))
      /\ b.phase = "idle" => ~b.live
      /\ b.phase \in Taking => b.path \notin b.todo
      /\ b.live /\ b.phase \in Taking => Have(y, b.path)
      /\ b.phase = "note" => disk[x][b.path] = b.data
      /\ MyMap(x).hash = disk[x] /\ \A p \in Path : MyMap(x).lamport[p] = At(x, p)

(* Two replicas that are connected before and after a step.                *)
Meeting(r, s) ==
  /\ r \in Nat /\ s \in Nat /\ r # s
  /\ Sane(r, s) /\ Sane(s, r)
  /\ PairInv(r, s) /\ PairInv(s, r)

(* What s told r, or is going to tell, is not lost by a step of r, ...     *)
LEMMA HearerKeeps ==
  ASSUME NEW r \in Replica, NEW s \in Replica, Sane(r, s), Sane(s, r), Moves(r, s)
  PROVE  /\ WillTell(s, r) => WillTell(s, r)'
         /\ Unheard(r, s) => Unheard(r, s)' \/ Opening(r, s)
         /\ Letters(r, s)' \subseteq Letters(r, s)
         /\ Opening(r, s) \/ Letters(r, s)' = Letters(r, s)
         /\ disk'[s] = disk[s] /\ job'[s] = job[s] /\ \A p \in Path : At(s, p)' = At(s, p)
<1>. USE DEF At, Rests, SameFiles, SameMail, Letters
<1>1. /\ disk'[s] = disk[s] /\ job'[s] = job[s] /\ \A p \in Path : At(s, p)' = At(s, p)
  BY DEF Moves
<1>2. Asking(s) => Asking(s)'
  BY <1>1 DEF Asking
<1>3. CASE Writing(r, s)
  BY <1>1, <1>2, <1>3 DEF Writing, Sends, WillTell, Unheard
<1>4. CASE Opening(r, s)
  BY <1>1, <1>2, <1>4 DEF Opening, WillTell, Unheard
<1>5. CASE Pulling(r, s) \/ Storing(r, s) \/ Noting(r, s)
  <2>1. SameMail(r, s) /\ SameMail(s, r)
    BY <1>5 DEF Pulling, Storing, Noting
  <2>. QED BY <1>1, <1>2, <2>1 DEF WillTell, Unheard
<1>6. CASE Ending(r, s)
  <2>1. Letters(s, r) \subseteq Letters(s, r)' /\ SameMail(r, s) /\ (s \in due[r] => s \in due'[r])
    BY <1>6 DEF Ending, Sends
  <2>. QED BY <1>1, <1>2, <2>1 DEF WillTell, Unheard
<1>. QED BY <1>3, <1>4, <1>5, <1>6 DEF Moves

(* ... nor by a step of s, except that s tells what it has.                *)
Answering(s, r) == Ending(s, r) /\ Asking(s)

(* A step of s keeps what it is going to tell, or it answers the round.    *)
LEMMA TellerKeeps ==
  ASSUME NEW r \in Replica, NEW s \in Replica, Sane(r, s), Sane(s, r), Moves(s, r)
  PROVE  /\ WillTell(s, r) => WillTell(s, r)' \/ Answering(s, r)
         /\ Unheard(s, r) => Unheard(s, r)' \/ Opening(s, r)
         /\ Unheard(r, s) => Unheard(r, s)'
         /\ Letters(r, s) \subseteq Letters(r, s)'
         /\ \A l \in Letters(r, s)' : l \in Letters(r, s) \/
              (l.map = MyMap(s) /\ SameFiles(s) /\ (l.reply => Answering(s, r)))
         /\ Answering(s, r) => SameFiles(s) /\ \E l \in Letters(r, s)' : l.map = MyMap(s)
         /\ Letters(s, r)' \subseteq Letters(s, r)
         /\ disk'[r] = disk[r] /\ job'[r] = job[r] /\ \A p \in Path : At(r, p)' = At(r, p)
<1>. USE DEF At, Rests, SameFiles, SameMail, Letters
<1>1. disk'[r] = disk[r] /\ job'[r] = job[r] /\ \A p \in Path : At(r, p)' = At(r, p)
  BY DEF Moves
<1>3. CASE Writing(s, r)
  BY <1>1, <1>3 DEF Writing, Sends, WillTell, Unheard, Asking, Answering, Ending
<1>4. CASE Opening(s, r)
  <2>1. ~Asking(s) /\ ~Answering(s, r)
    BY <1>4 DEF Opening, Sane, Asking, Answering
  <2>2. /\ Letters(r, s)' = Letters(r, s) /\ (r \in due[s] => r \in due'[s])
        /\ s \in due[r] => s \in due'[r]
    BY <1>4 DEF Opening
  <2>3. PICK h \in Letters(s, r) : /\ Letters(s, r)' \cup {h} = Letters(s, r)
                                   /\ job'[s].live /\ job'[s].reply = h.reply
    BY <1>4 DEF Opening
  <2>4. Unheard(s, r) => WillTell(s, r)'
    BY <2>2, <2>3 DEF WillTell, Unheard, Asking
  <2>. QED BY <1>1, <1>4, <2>1, <2>2, <2>3, <2>4 DEF WillTell, Unheard
<1>5. CASE Pulling(s, r) \/ Storing(s, r) \/ Noting(s, r)
  <2>1. SameMail(s, r) /\ SameMail(r, s)
    BY <1>5 DEF Pulling, Storing, Noting
  <2>2. Asking(s) => Asking(s)'
    BY <1>5 DEF Pulling, Storing, Noting, SameJob, Asking
  <2>3. ~Ending(s, r) \/ ~Asking(s)
    BY <1>5, <2>2 DEF Ending, Asking
  <2>. QED BY <1>1, <2>1, <2>2, <2>3 DEF WillTell, Unheard, Answering
<1>6. CASE Ending(s, r)
  <2>1. SameMail(s, r) /\ (r \in due[s] => r \in due'[s]) /\ SameFiles(s)
    BY <1>6 DEF Ending
  <2>2. CASE Asking(s)
    <3>1. PICK l \in Letters(r, s)' : /\ Letters(r, s)' = Letters(r, s) \cup {l}
                                      /\ l.reply = TRUE /\ l.map = MyMap(s)
      BY <1>6, <2>2 DEF Ending, Sends
    <3>. QED BY <1>1, <1>6, <2>1, <2>2, <3>1 DEF WillTell, Unheard, Answering
  <2>3. CASE ~Asking(s)
    <3>1. Letters(r, s)' = Letters(r, s)
      BY <1>6, <2>3 DEF Ending
    <3>. QED BY <1>1, <1>6, <2>1, <2>3, <3>1 DEF WillTell, Unheard, Answering
  <2>. QED BY <2>2, <2>3
<1>. QED BY <1>3, <1>4, <1>5, <1>6 DEF Moves

(* Which paths a step of x leaves alone.                                   *)
SamePath(x, p) == disk'[x][p] = disk[x][p] /\ At(x, p)' = At(x, p)

(* A step of x changes the path it stores or notes, no other; no stamp     *)
(* becomes older.                                                          *)
LEMMA PathsAfter ==
  ASSUME NEW x \in Replica, NEW y \in Replica, Sane(x, y), Moves(x, y), NEW p \in Path
  PROVE  /\ At(x, p)' >= At(x, p)
         /\ SamePath(x, p) \/ (p = job[x].path /\ (Storing(x, y) \/ Noting(x, y)))
         /\ ~Storing(x, y) => disk'[x][p] = disk[x][p]
<1>. USE DEF At, SamePath
<1>1. At(x, p) \in Nat
  BY DEF Sane
<1>2. CASE Writing(x, y) \/ Opening(x, y) \/ Pulling(x, y) \/ Ending(x, y)
  <2>1. SamePath(x, p)
    BY <1>2 DEF Writing, Opening, Pulling, Ending, Rests, SameFiles
  <2>. QED BY <1>1, <2>1
<1>3. CASE Storing(x, y)
  <2>1. At(x, p)' = At(x, p) /\ (p # job[x].path => disk'[x][p] = disk[x][p])
    BY <1>3 DEF Storing
  <2>. QED BY <1>1, <1>3, <2>1
<1>4. CASE Noting(x, y)
  <2>1. disk'[x] = disk[x] /\ At(x, p)' >= At(x, p) /\ (p # job[x].path => At(x, p)' = At(x, p))
    BY <1>4 DEF Noting
  <2>. QED BY <1>1, <1>4, <2>1
<1>. QED BY <1>2, <1>3, <1>4 DEF Moves

(* What r is told of a path, or will be, outlasts the steps of both.       *)
LEMMA CoveredKept ==
  ASSUME NEW r \in Replica, NEW s \in Replica, Sane(r, s), Sane(s, r), NEW p \in Path, Covered(r, s, p),
         (Moves(r, s) /\ ~Opening(r, s)) \/ (Moves(s, r) /\ SamePath(s, p))
  PROVE  Covered(r, s, p)'
<1>1. CASE Moves(r, s) /\ ~Opening(r, s)
  <2>1. /\ Letters(r, s)' = Letters(r, s) /\ (WillTell(s, r) => WillTell(s, r)')
        /\ disk'[s] = disk[s] /\ At(s, p)' = At(s, p)
    BY <1>1, HearerKeeps
  <2>. QED BY <2>1 DEF Covered, Tells, At
<1>2. CASE Moves(s, r) /\ SamePath(s, p)
  <2>1. /\ WillTell(s, r) => WillTell(s, r)' \/ Answering(s, r)
        /\ Letters(r, s) \subseteq Letters(r, s)'
        /\ Answering(s, r) => \E l \in Letters(r, s)' : l.map = MyMap(s)
    BY <1>2, TellerKeeps
  <2>2. disk'[s][p] = disk[s][p] /\ At(s, p)' = At(s, p)
    BY <1>2 DEF SamePath
  <2>3. CASE \E l \in Letters(r, s) : Tells(l, s, p)
    BY <2>1, <2>2, <2>3 DEF Covered, Tells, At
  <2>4. CASE Answering(s, r)
    <3>1. MyMap(s).hash[p] = disk[s][p] /\ MyMap(s).lamport[p] = At(s, p)
      BY DEF Sane
    <3>. QED BY <2>1, <2>2, <2>4, <3>1 DEF Covered, Tells, At
  <2>. QED BY <2>1, <2>3, <2>4 DEF Covered
<1>. QED BY <1>1, <1>2

(* Letters stay behind their sender.                                       *)
LEMMA BehindKept ==
  ASSUME NEW r \in Replica, NEW s \in Replica, Meeting(r, s), Moves(r, s) \/ Moves(s, r)
  PROVE  Behind(r, s)'
<1>0. Sane(r, s) /\ Sane(s, r) /\ Behind(r, s)
  BY DEF Meeting, PairInv
<1>. SUFFICES ASSUME NEW l \in Letters(r, s)', NEW p \in Path PROVE l.map.lamport[p] <= At(s, p)'
  BY DEF Behind, At, Letters
<1>1. CASE Moves(r, s)
  BY <1>0, <1>1, HearerKeeps DEF Behind
<1>2. CASE Moves(s, r)
  <2>1. At(s, p)' >= At(s, p) /\ At(s, p)' \in Nat /\ At(s, p) \in Nat
    BY <1>0, <1>2, PathsAfter DEF Sane
  <2>2. CASE l \in Letters(r, s)
    <3>1. l.map.lamport[p] <= At(s, p) /\ l.map.lamport[p] \in Nat
      BY <1>0, <2>2 DEF Behind, Sane
    <3>. QED BY <2>1, <3>1
  <2>3. CASE l.map = MyMap(s)
    BY <1>0, <2>1, <2>3 DEF Sane
  <2>. QED BY <1>0, <1>2, <2>2, <2>3, TellerKeeps
<1>. QED BY <1>1, <1>2

Taken(b, p) == p \in b.todo \/ (b.phase \in {"asked", "told", "write"} /\ b.path = p)

(* A pull that beats what r has goes on beating it.                        *)
LEMMA RankedKept ==
  ASSUME NEW r \in Replica, NEW s \in Replica, Meeting(r, s), Moves(r, s) \/ Moves(s, r)
  PROVE  Ranked(r, s)'
<1>. DEFINE b == job[r]
            c == job'[r]
            Now(x, p) == lamportFor(journal'[x], p)
<1>0. Sane(r, s) /\ Sane(s, r) /\ Behind(r, s) /\ Ranked(r, s) /\ r \in Nat /\ s \in Nat
  BY DEF Meeting, PairInv
<1>1. /\ b.live => \A p \in Path : Taken(b, p) => ~Have(r, p) \/ Beats(At(s, p), s, r, p)
      /\ b.live /\ b.phase = "note" =>
           \/ Beats(At(s, b.path), s, r, b.path)
           \/ \A l \in Letters(s, r) : l.reply => l.map.hash[b.path] = NoFile
  BY <1>0 DEF Ranked, Taken
<1>2. ASSUME NEW p \in Path, c.live, Taken(c, p) PROVE ~Have(r, p)' \/ Beats(At(s, p), s, r, p)'
  <2>1. CASE Moves(s, r)
    <3>1. At(s, p)' >= At(s, p) /\ At(s, p)' \in Nat /\ At(s, p) \in Nat /\ At(r, p) \in Nat
      BY <1>0, <2>1, PathsAfter DEF Sane
    <3>2. disk'[r] = disk[r] /\ c = b /\ At(r, p)' = At(r, p)
      BY <1>0, <2>1, TellerKeeps
    <3>3. ~Have(r, p) \/ Beats(At(s, p), s, r, p)
      BY <1>1, <1>2, <3>2
    <3>. QED BY <1>0, <3>1, <3>2, <3>3 DEF Have, Beats, At
  <2>2. CASE Moves(r, s)
    <3>1. At(s, p)' = At(s, p) /\ At(s, p) \in Nat /\ At(r, p) \in Nat
      BY <1>0, <2>2, HearerKeeps DEF Sane
    <3>2. SamePath(r, p) /\ (~Have(r, p) \/ Beats(At(s, p), s, r, p))
      <4>1. CASE Writing(r, s)
        <5>1. c = b /\ SamePath(r, p)
          BY <4>1 DEF Writing, Rests, SamePath, At
        <5>. QED BY <1>1, <1>2, <5>1
      <4>2. CASE Opening(r, s)
        <5>1. SamePath(r, p) /\ p \in c.todo
          BY <1>2, <4>2 DEF Opening, SameFiles, SamePath, At, Taken
        <5>2. PICK h \in Letters(r, s) :
                p \in c.todo => ~Have(r, p) \/ Beats(h.map.lamport[p], s, r, p)
          BY <4>2 DEF Opening
        <5>3. h.map.lamport[p] <= At(s, p) /\ h.map.lamport[p] \in Nat
          BY <1>0 DEF Behind, Sane
        <5>. QED BY <1>0, <3>1, <5>1, <5>2, <5>3 DEF Beats
      <4>3. CASE Pulling(r, s)
        <5>1. SamePath(r, p) /\ b.live /\ Taken(b, p)
          BY <1>2, <4>3 DEF Pulling, SameFiles, SamePath, At, Taken
        <5>. QED BY <1>1, <5>1
      <4>4. CASE Storing(r, s) \/ Noting(r, s)
        <5>1. b.live /\ p \in b.todo
          BY <1>2, <4>4 DEF Storing, Noting, SameJob, Taken
        <5>2. p # b.path
          BY <1>0, <4>4, <5>1 DEF Sane, Storing, Noting, Taking
        <5>. QED BY <1>0, <1>1, <2>2, <5>1, <5>2, PathsAfter DEF Taken
      <4>5. ~Ending(r, s)
        BY <1>2 DEF Ending
      <4>. QED BY <2>2, <4>1, <4>2, <4>3, <4>4, <4>5 DEF Moves
    <3>. QED BY <1>0, <3>1, <3>2 DEF Have, Beats, At, SamePath
  <2>. QED BY <2>1, <2>2
<1>3. ASSUME c.live, c.phase = "note"
      PROVE  \/ Now(s, c.path) > Now(r, c.path) \/ (Now(s, c.path) = Now(r, c.path) /\ s < r)
             \/ \A l \in Letters(s, r)' : l.reply => l.map.hash[c.path] = NoFile
  <2>1. CASE Moves(s, r)
    <3>1. disk'[r] = disk[r] /\ c = b /\ Letters(s, r)' \subseteq Letters(s, r)
      BY <1>0, <2>1, TellerKeeps
    <3>. DEFINE p == b.path
    <3>2. p \in Path
      BY <1>0 DEF Sane, Job
    <3>3. /\ At(s, p)' >= At(s, p) /\ At(s, p)' \in Nat /\ At(s, p) \in Nat /\ At(r, p) \in Nat
          /\ At(r, p)' = At(r, p)
      BY <1>0, <2>1, <3>2, PathsAfter, TellerKeeps DEF Sane
    <3>. QED BY <1>0, <1>1, <1>3, <3>1, <3>3 DEF Beats, At
  <2>2. CASE Moves(r, s)
    <3>1. Writing(r, s) \/ Storing(r, s)
      BY <1>3, <2>2 DEF Moves, Opening, Pulling, Noting, Ending
    <3>2. \A p \in Path : At(s, p)' = At(s, p)
      BY <1>0, <2>2, HearerKeeps
    <3>3. CASE Writing(r, s)
      <4>1. c = b /\ \A p \in Path : At(r, p)' = At(r, p)
        BY <3>3 DEF Writing, Rests
      <4>2. \A l \in Letters(s, r)' : l \in Letters(s, r) \/ ~l.reply
        BY <3>3 DEF Writing, Sends
      <4>3. b.path \in Path
        BY <1>0 DEF Sane, Job
      <4>. QED BY <1>1, <1>3, <3>2, <4>1, <4>2, <4>3 DEF Beats, At
    <3>4. CASE Storing(r, s)
      <4>1. /\ b.live /\ b.phase = "write" /\ c.path = b.path /\ Letters(s, r)' = Letters(s, r)
            /\ \A p \in Path : At(r, p)' = At(r, p)
        BY <1>3, <3>4 DEF Storing, SameJob, SameMail
      <4>2. b.path \in Path /\ Taken(b, b.path)
        BY <1>0, <4>1 DEF Sane, Job, Taken
      <4>3. CASE Have(r, b.path)
        BY <1>1, <3>2, <4>1, <4>2, <4>3 DEF Beats, At
      <4>4. CASE ~Have(r, b.path)
        BY <1>0, <4>1, <4>2, <4>4 DEF Sane
      <4>. QED BY <4>3, <4>4
    <3>. QED BY <3>1, <3>3, <3>4
  <2>. QED BY <2>1, <2>2
<1>. QED BY <1>2, <1>3 DEF Ranked, Taken, Have, Beats, At, Letters

(* No two replicas pull a path from each other that both have: the stamps  *)
(* would have to beat each other.                                          *)
LEMMA OneBeats ==
  ASSUME NEW r \in Replica, NEW s \in Replica, Meeting(r, s), NEW p \in Path
  PROVE  ~(Beats(At(s, p), s, r, p) /\ Beats(At(r, p), r, s, p))
<1>1. r \in Nat /\ s \in Nat /\ r # s /\ At(r, p) \in Nat /\ At(s, p) \in Nat
  BY DEF Meeting, Sane
<1>. QED BY <1>1 DEF Beats

(* A path that s stores or notes, of which r holds an answer: r has what   *)
(* s stores, or s will tell and r is the one to ask.                       *)
LEMMA StoreBoth ==
  ASSUME NEW r \in Replica, NEW s \in Replica, Meeting(r, s), Storing(s, r) \/ Noting(s, r),
         job[r].live, job[r].phase \in Holding, job[r].path = job[s].path
  PROVE  \/ Storing(s, r) /\ job[s].data = job[r].data
         \/ Noting(s, r) /\ job[r].data = disk[s][job[s].path]
         \/ /\ ~job[r].reply /\ WillTell(s, r)' /\ ~(job'[s].live /\ job'[s].reply)
<1>. DEFINE b == job[r]
            a == job[s]
            p == job[s].path
<1>0. /\ Sane(r, s) /\ Sane(s, r) /\ Ranked(r, s) /\ Ranked(s, r) /\ Answers(r, s) /\ Answers(s, r)
      /\ Unopened(s, r) /\ p \in Path
  BY DEF Meeting, PairInv, Sane, Job
<1>1. /\ a.phase \in {"write", "note"} /\ job'[s].live = a.live /\ job'[s].reply = a.reply
      /\ SameMail(s, r)
      /\ a.phase = "note" => Noting(s, r)
      /\ a.phase = "write" => Storing(s, r)
  BY DEF Storing, Noting, SameJob
<1>2. /\ Unheard(s, r) => WillTell(s, r)'
      /\ Asking(s) => WillTell(s, r)'
  BY <1>1 DEF WillTell, Unheard, Asking, SameMail, Letters
<1>3. CASE ~a.live
  BY <1>0, <1>1, <1>2, <1>3 DEF Unopened, Leftover
<1>4. CASE a.live /\ a.phase = "note"
  <2>1. CASE b.data = disk[s][p]
    BY <1>1, <1>4, <2>1
  <2>2. CASE b.data # disk[s][p]
    <3>1. ~b.reply /\ ~(a.live /\ a.reply /\ Wants(a, p))
      BY <1>0, <2>2 DEF Answers
    <3>2. ~a.reply
      BY <1>4, <3>1 DEF Wants, Taking
    <3>. QED BY <1>1, <1>2, <1>4, <3>1, <3>2, <1>0 DEF Asking, Sane, Job
  <2>. QED BY <2>1, <2>2
<1>5. CASE a.live /\ a.phase = "write"
  <2>1. Have(r, p) /\ Have(s, p)
    BY <1>0, <1>5 DEF Sane, Taking, Holding
  <2>2. b.phase = "note"
    <3>1. Beats(At(r, p), r, s, p)
      BY <1>0, <1>5, <2>1 DEF Ranked
    <3>2. b.phase # "note" => Beats(At(s, p), s, r, p)
      BY <1>0, <2>1 DEF Ranked, Holding
    <3>. QED BY <1>0, <3>1, <3>2, OneBeats
  <2>3. disk[r][p] = b.data
    BY <1>0, <2>2 DEF Sane
  <2>4. CASE a.data = disk[r][p]
    BY <1>1, <1>5, <2>3, <2>4
  <2>5. CASE a.data # disk[r][p]
    <3>1. ~a.reply /\ ~(b.live /\ b.reply /\ Wants(b, p))
      BY <1>0, <1>5, <2>5 DEF Answers, Holding
    <3>2. ~b.reply
      BY <2>2, <3>1 DEF Wants, Taking
    <3>. QED BY <1>1, <1>2, <1>5, <3>1, <3>2 DEF Asking
  <2>. QED BY <2>4, <2>5
<1>. QED BY <1>1, <1>3, <1>4, <1>5

(* What an answer brought goes on being what the peer has or will tell.    *)
LEMMA AnswersKept ==
  ASSUME NEW r \in Replica, NEW s \in Replica, Meeting(r, s), Moves(r, s) \/ Moves(s, r)
  PROVE  Answers(r, s)'
<1>. DEFINE b == job[r]
            c == job'[r]
            a == job[s]
            d == job'[s]
<1>0. /\ Sane(r, s) /\ Sane(s, r) /\ Answers(r, s) /\ Ranked(r, s) /\ Ranked(s, r) /\ Behind(s, r)
      /\ r \in Nat /\ s \in Nat
  BY DEF Meeting, PairInv
<1>1. ASSUME NEW p \in Path, c.path = p, c.live, c.phase \in Holding
      PROVE  c.data = disk'[s][p] \/ (~c.reply /\ Covered(r, s, p)' /\ ~(d.live /\ d.reply /\ Wants(d, p)))
  <2>1. CASE Moves(r, s)
    <3>1. disk'[s] = disk[s] /\ d = a
      BY <1>0, <2>1, HearerKeeps
    <3>2. CASE Pulling(r, s) /\ b.phase = "asked"
      BY <1>1, <3>1, <3>2 DEF Pulling
    <3>3. CASE Writing(r, s) \/ Storing(r, s) \/ (Pulling(r, s) /\ b.phase # "asked")
      <4>1. /\ b.live /\ b.phase \in Holding /\ b.path = p /\ b.data = c.data /\ b.reply = c.reply
            /\ ~Opening(r, s)
        <5>1. CASE Writing(r, s)
          BY <1>1, <5>1 DEF Writing, Rests, Opening, Holding
        <5>2. CASE Storing(r, s)
          BY <1>1, <5>2 DEF Storing, SameJob, Opening, Holding
        <5>3. CASE Pulling(r, s) /\ b.phase # "asked"
          BY <1>1, <5>3 DEF Pulling, Opening, Holding
        <5>. QED BY <3>3, <5>1, <5>2, <5>3
      <4>2. CASE b.data = disk[s][p]
        BY <3>1, <4>1, <4>2
      <4>3. CASE ~b.reply /\ Covered(r, s, p) /\ ~(a.live /\ a.reply /\ Wants(a, p))
        <5>1. Covered(r, s, p)'
          BY <1>0, <2>1, <4>1, <4>3, CoveredKept
        <5>. QED BY <3>1, <4>1, <4>3, <5>1
      <4>. QED BY <1>0, <4>1, <4>2, <4>3 DEF Answers
    <3>4. ~Opening(r, s) /\ ~Noting(r, s) /\ ~Ending(r, s)
      BY <1>1 DEF Opening, Noting, Ending, Holding
    <3>. QED BY <2>1, <3>2, <3>3, <3>4 DEF Moves
  <2>2. CASE Moves(s, r)
    <3>1. c = b
      BY <1>0, <2>2, TellerKeeps
    <3>2. CASE b.data = disk[s][p] /\ disk'[s][p] = disk[s][p]
      BY <3>1, <3>2
    <3>3. CASE (Storing(s, r) \/ Noting(s, r)) /\ p = a.path
      <4>1. \/ Storing(s, r) /\ a.data = b.data
            \/ Noting(s, r) /\ b.data = disk[s][p]
            \/ ~b.reply /\ WillTell(s, r)' /\ ~(d.live /\ d.reply)
        BY <1>1, <3>1, <3>3, StoreBoth
      <4>2. Storing(s, r) => disk'[s][p] = a.data
        BY <3>3 DEF Storing
      <4>3. Noting(s, r) => disk'[s][p] = disk[s][p]
        BY DEF Noting
      <4>4. WillTell(s, r)' => Covered(r, s, p)'
        BY DEF Covered
      <4>. QED BY <3>1, <4>1, <4>2, <4>3, <4>4
    <3>4. CASE SamePath(s, p) /\ b.data # disk[s][p]
      <4>1. ~b.reply /\ Covered(r, s, p) /\ ~(a.live /\ a.reply /\ Wants(a, p))
        BY <1>0, <1>1, <3>1, <3>4 DEF Answers
      <4>2. Covered(r, s, p)'
        BY <1>0, <2>2, <3>4, <4>1, CoveredKept
      <4>3. ~(d.live /\ d.reply /\ Wants(d, p))
        <5>1. CASE Writing(s, r)
          BY <4>1, <5>1 DEF Writing, Rests
        <5>2. CASE Opening(s, r)
          <6>1. d.phase = "pulling"
            BY <5>2 DEF Opening
          <6>2. PICK h \in Letters(s, r) :
                  /\ d.reply = h.reply
                  /\ p \in d.todo => /\ h.map.hash[p] # NoFile
                                     /\ ~Have(s, p) \/ Beats(h.map.lamport[p], r, s, p)
            BY <5>2 DEF Opening
          <6>3. SUFFICES ASSUME h.reply, h.map.hash[p] # NoFile,
                                ~Have(s, p) \/ Beats(h.map.lamport[p], r, s, p)
                         PROVE  FALSE
            BY <6>1, <6>2 DEF Wants, Taking
          <6>4. Have(s, p) /\ Have(r, p)
            BY <1>0, <1>1, <3>1, <6>3 DEF Sane, Taking, Holding
          <6>5. Beats(At(r, p), r, s, p)
            <7>1. h.map.lamport[p] <= At(r, p) /\ h.map.lamport[p] \in Nat /\ At(r, p) \in Nat /\ At(s, p) \in Nat
              BY <1>0 DEF Behind, Sane
            <7>. QED BY <1>0, <6>3, <6>4, <7>1 DEF Beats
          <6>6. Beats(At(s, p), s, r, p)
            BY <1>0, <1>1, <3>1, <6>3, <6>4 DEF Ranked, Holding
          <6>. QED BY <6>5, <6>6, OneBeats
        <5>3. CASE Pulling(s, r)
          BY <4>1, <5>3 DEF Pulling, Wants, Taking
        <5>4. CASE Storing(s, r) \/ Noting(s, r)
          BY <4>1, <5>4 DEF Storing, Noting, SameJob, Wants, Taking
        <5>5. CASE Ending(s, r)
          BY <5>5 DEF Ending
        <5>. QED BY <2>2, <5>1, <5>2, <5>3, <5>4, <5>5 DEF Moves
      <4>. QED BY <3>1, <4>1, <4>2, <4>3
    <3>. QED BY <1>0, <2>2, <3>2, <3>3, <3>4, PathsAfter DEF SamePath
  <2>. QED BY <2>1, <2>2
<1>2. PICK p \in Path : c.path = p
  BY <1>0 DEF Sane, Job
<1>3. c.live /\ c.phase \in Holding =>
        c.data = disk'[s][p] \/ (~c.reply /\ Covered(r, s, p)' /\ ~(d.live /\ d.reply /\ Wants(d, p)))
  BY <1>1, <1>2
<1>. QED
  BY <1>2, <1>3 DEF Answers, Covered, Tells, Wants, Letters, WillTell, Unheard, Asking, At

(* What s stores or notes while it does not reply, it will tell.           *)
LEMMA StoreTells ==
  ASSUME NEW r \in Replica, NEW s \in Replica, Meeting(r, s), Storing(s, r) \/ Noting(s, r)
  PROVE  WillTell(s, r)' \/ (job[s].live /\ job[s].reply)
<1>1. /\ job[s].phase \in {"write", "note"} /\ SameMail(s, r)
      /\ job'[s].live = job[s].live /\ job'[s].reply = job[s].reply
  BY DEF Storing, Noting, SameJob
<1>2. CASE ~job[s].live
  <2>1. Unheard(s, r)
    BY <1>1, <1>2 DEF Meeting, PairInv, Unopened, Leftover
  <2>. QED BY <1>1, <2>1 DEF WillTell, Unheard, SameMail, Letters
<1>3. CASE job[s].live /\ ~job[s].reply
  BY <1>1, <1>3 DEF WillTell, Asking
<1>. QED BY <1>2, <1>3

(* The rest of a pull of a connection that is gone stays unopened.         *)
LEMMA UnopenedKept ==
  ASSUME NEW r \in Replica, NEW s \in Replica, Meeting(r, s), Moves(r, s) \/ Moves(s, r)
  PROVE  Unopened(r, s)'
<1>0. Sane(r, s) /\ Sane(s, r) /\ Unopened(r, s)
  BY DEF Meeting, PairInv
<1>1. ASSUME Leftover(r)'
      PROVE  /\ Unheard(r, s)' /\ \A l \in Letters(s, r)' : ~l.reply
             /\ job'[s].live => ~job'[s].reply
             /\ \A p \in Path : Covered(r, s, p)'
  <2>1. Leftover(r) /\ ~Opening(r, s)
    <3>1. CASE Moves(r, s)
      <4>1. Writing(r, s) \/ Storing(r, s)
        BY <1>1, <3>1 DEF Moves, Leftover, Opening, Pulling, Noting, Ending
      <4>. QED BY <1>1, <4>1 DEF Writing, Storing, Rests, SameJob, Leftover, Opening
    <3>2. CASE Moves(s, r)
      <4>1. job'[r] = job[r]
        BY <3>2 DEF Moves, Rests
      <4>. QED BY <1>0, <1>1, <4>1 DEF Leftover, Opening, Sane
    <3>. QED BY <3>1, <3>2
  <2>2. /\ Unheard(r, s) /\ \A l \in Letters(s, r) : ~l.reply
        /\ job[s].live => ~job[s].reply
        /\ \A p \in Path : Covered(r, s, p)
    BY <1>0, <2>1 DEF Unopened
  <2>3. CASE Moves(r, s)
    <3>1. Writing(r, s) \/ Storing(r, s)
      BY <1>1, <2>3 DEF Moves, Leftover, Opening, Pulling, Noting, Ending
    <3>2. \A l \in Letters(s, r)' : ~l.reply
      BY <2>2, <3>1 DEF Writing, Storing, Sends, SameMail
    <3>3. \A p \in Path : Covered(r, s, p)'
      BY <1>0, <2>1, <2>2, <2>3, CoveredKept
    <3>. QED BY <1>0, <2>1, <2>2, <2>3, <3>2, <3>3, HearerKeeps
  <2>4. CASE Moves(s, r)
    <3>1. Unheard(r, s)' /\ \A l \in Letters(s, r)' : ~l.reply
      BY <1>0, <2>2, <2>4, TellerKeeps
    <3>2. job'[s].live => ~job'[s].reply
      <4>1. CASE Opening(s, r)
        BY <2>2, <4>1 DEF Opening
      <4>2. CASE ~Opening(s, r)
        BY <2>2, <2>4, <4>2 DEF Moves, Writing, Rests, Pulling, Storing, Noting, SameJob, Ending
      <4>. QED BY <4>1, <4>2
    <3>3. ASSUME NEW p \in Path PROVE Covered(r, s, p)'
      <4>1. CASE SamePath(s, p)
        BY <1>0, <2>2, <2>4, <4>1, CoveredKept
      <4>2. CASE Storing(s, r) \/ Noting(s, r)
        <5>1. WillTell(s, r)'
          BY <2>2, <4>2, StoreTells
        <5>. QED BY <5>1 DEF Covered
      <4>. QED BY <1>0, <2>4, <4>1, <4>2, PathsAfter
    <3>. QED BY <3>1, <3>2, <3>3
  <2>. QED BY <2>3, <2>4
<1>. QED
  BY <1>1 DEF Unopened, Leftover, Covered, Tells, Letters, WillTell, Unheard, Asking, At

(* What r was told of stays told while its path and the letter stay.       *)
LEMMA ToldKept ==
  ASSUME NEW r \in Replica, NEW s \in Replica, NEW p \in Path, Told(r, s, p),
         SamePath(r, p), disk'[s][p] = disk[s][p], Letters(r, s) \subseteq Letters(r, s)'
  PROVE  Told(r, s, p)'
BY DEF Told, SamePath, Have, Beats, At, Letters

(* What covers the path of s makes r pull it when it should.               *)
LEMMA CoveredTold ==
  ASSUME NEW r \in Replica, NEW s \in Replica, NEW p \in Path, Covered(r, s, p)', Yields(r, s, p)'
  PROVE  WillTell(s, r)' \/ Told(r, s, p)'
BY DEF Covered, Tells, Yields, Told, Have, Beats, At, Letters

(* What r should take from s it will be told of, was told of or pulls.     *)
LEMMA AwaitsKept ==
  ASSUME NEW r \in Replica, NEW s \in Replica, Meeting(r, s), Moves(r, s) \/ Moves(s, r)
  PROVE  Awaits(r, s)'
<1>. DEFINE b == job[r]
            c == job'[r]
            a == job[s]
<1>0. Sane(r, s) /\ Sane(s, r) /\ Awaits(r, s) /\ Answers(r, s) /\ Answers(s, r) /\ Unopened(r, s)
  BY DEF Meeting, PairInv
<1>1. ASSUME NEW p \in Path, Yields(r, s, p)'
      PROVE  WillTell(s, r)' \/ Told(r, s, p)' \/ Pulls(r, s, p)'
  <2>0. SamePath(r, p) /\ SamePath(s, p) => WillTell(s, r) \/ Told(r, s, p) \/ Pulls(r, s, p)
    <3>1. SamePath(r, p) /\ SamePath(s, p) => Yields(r, s, p)
      BY <1>1 DEF SamePath, Yields, Have, Beats, At
    <3>. QED BY <1>0, <3>1 DEF Awaits
  <2>1. CASE Moves(r, s)
    <3>1. /\ WillTell(s, r) => WillTell(s, r)'
          /\ Opening(r, s) \/ Letters(r, s)' = Letters(r, s)
          /\ disk'[s] = disk[s] /\ SamePath(s, p)
      BY <1>0, <2>1, HearerKeeps DEF SamePath
    <3>2. CASE SamePath(r, p) /\ WillTell(s, r)
      BY <3>1, <3>2
    <3>3. CASE SamePath(r, p) /\ Told(r, s, p) /\ ~Opening(r, s)
      BY <3>1, <3>3, ToldKept
    <3>4. CASE SamePath(r, p) /\ Told(r, s, p) /\ Opening(r, s)
      <4>1. PICK l \in Letters(r, s) :
              l.map.hash[p] = disk[s][p] /\ (~Have(r, p) \/ Beats(l.map.lamport[p], s, r, p))
        BY <3>4 DEF Told
      <4>2. PICK h \in Letters(r, s) :
              /\ Letters(r, s)' \cup {h} = Letters(r, s)
              /\ c.live /\ c.map = h.map
              /\ p \in c.todo <=>
                   /\ h.map.hash[p] # NoFile
                   /\ \/ ~Have(r, p)
                      \/ disk[r][p] # h.map.hash[p] /\ Beats(h.map.lamport[p], s, r, p)
        BY <3>4 DEF Opening
      <4>3. CASE l = h
        <5>1. disk'[s][p] # NoFile /\ disk'[r][p] # disk'[s][p]
          BY <1>1 DEF Yields, Have
        <5>2. p \in c.todo
          BY <3>1, <3>4, <4>1, <4>2, <4>3, <5>1 DEF SamePath
        <5>. QED BY <3>1, <4>1, <4>2, <4>3, <5>2 DEF Pulls
      <4>4. CASE l # h
        <5>1. l \in Letters(r, s)'
          BY <4>2, <4>4
        <5>. QED BY <3>1, <3>4, <4>1, <5>1 DEF Told, SamePath, Have, Beats, At, Letters
      <4>. QED BY <4>3, <4>4
    <3>5. CASE SamePath(r, p) /\ Pulls(r, s, p)
      <4>1. /\ b.live /\ b.map.hash[p] = disk[s][p] /\ b.phase # "idle"
            /\ \/ p \in b.todo
               \/ b.phase = "asked" /\ b.path = p
               \/ b.phase \in {"told", "write"} /\ b.path = p /\ b.data = disk[s][p]
        BY <1>0, <3>5 DEF Pulls, Sane
      <4>2. /\ c.live /\ c.map.hash[p] = disk[s][p]
            /\ \/ p \in c.todo
               \/ c.phase = "asked" /\ c.path = p
               \/ c.phase \in {"told", "write"} /\ c.path = p /\ c.data = disk[s][p]
        <5>1. CASE Writing(r, s)
          BY <4>1, <5>1 DEF Writing, Rests
        <5>2. CASE Pulling(r, s)
          BY <4>1, <5>2 DEF Pulling
        <5>3. CASE Storing(r, s) \/ Noting(r, s)
          <6>1. SameJob(b, c)
            BY <5>3 DEF Storing, Noting
          <6>2. p \in b.todo \/ (Storing(r, s) /\ b.path = p /\ b.data = disk[s][p])
            BY <4>1, <5>3 DEF Storing, Noting
          <6>3. CASE p \in b.todo
            BY <4>1, <6>1, <6>3 DEF SameJob
          <6>4. CASE Storing(r, s) /\ b.path = p /\ b.data = disk[s][p]
            <7>1. disk'[r][p] = disk'[s][p]
              BY <3>1, <6>4 DEF Storing
            <7>. QED BY <1>1, <7>1 DEF Yields
          <6>. QED BY <6>2, <6>3, <6>4
        <5>4. ~Opening(r, s) /\ ~Ending(r, s)
          BY <4>1 DEF Opening, Ending
        <5>. QED BY <2>1, <5>1, <5>2, <5>3, <5>4 DEF Moves
      <4>. QED BY <3>1, <4>2 DEF Pulls
    <3>6. CASE ~SamePath(r, p)
      <4>1. p = b.path /\ (Storing(r, s) \/ Noting(r, s)) /\ ~Opening(r, s)
        BY <1>0, <2>1, <3>6, PathsAfter DEF Storing, Noting, Opening
      <4>2. disk'[r][p] = b.data /\ b.data # disk[s][p]
        <5>1. disk'[r][p] = b.data
          BY <1>0, <4>1 DEF Storing, Noting, Sane
        <5>. QED BY <1>1, <3>1, <5>1 DEF Yields
      <4>3. Covered(r, s, p)
        BY <1>0, <4>1, <4>2 DEF Answers, Unopened, Leftover, Storing, Noting, Holding
      <4>. QED BY <1>0, <1>1, <2>1, <4>1, <4>3, CoveredKept, CoveredTold
    <3>. QED BY <2>0, <3>1, <3>2, <3>3, <3>4, <3>5, <3>6
  <2>2. CASE Moves(s, r)
    <3>1. /\ WillTell(s, r) => WillTell(s, r)' \/ Answering(s, r)
          /\ Letters(r, s) \subseteq Letters(r, s)'
          /\ Answering(s, r) => SameFiles(s) /\ \E l \in Letters(r, s)' : l.map = MyMap(s)
          /\ disk'[r] = disk[r] /\ job'[r] = job[r] /\ SamePath(r, p)
      BY <1>0, <2>2, TellerKeeps DEF SamePath
    <3>2. CASE Answering(s, r)
      <4>1. MyMap(s).hash[p] = disk'[s][p] /\ MyMap(s).lamport[p] = At(s, p)'
        BY <1>0, <3>1, <3>2 DEF Sane, SameFiles
      <4>2. Covered(r, s, p)'
        BY <3>1, <3>2, <4>1 DEF Covered, Tells, At
      <4>. QED BY <1>1, <4>2, CoveredTold
    <3>3. CASE SamePath(s, p) /\ ~Answering(s, r)
      <4>1. CASE Told(r, s, p)
        BY <3>1, <3>3, <4>1, ToldKept DEF SamePath
      <4>2. CASE Pulls(r, s, p)
        BY <3>1, <3>3, <4>2 DEF Pulls, SamePath
      <4>. QED BY <2>0, <3>1, <3>3, <4>1, <4>2
    <3>4. CASE (Storing(s, r) \/ Noting(s, r)) /\ p = a.path
      <4>1. CASE a.live /\ a.reply
        <5>1. a.data = disk[r][p]
          BY <1>0, <3>4, <4>1 DEF Answers, Storing, Noting, Holding
        <5>2. disk'[s][p] = a.data
          BY <1>0, <3>4 DEF Storing, Noting, Sane
        <5>. QED BY <1>1, <3>1, <5>1, <5>2 DEF Yields
      <4>. QED BY <3>4, <4>1, StoreTells
    <3>. QED BY <1>0, <2>2, <3>2, <3>3, <3>4, PathsAfter
  <2>. QED BY <2>1, <2>2
<1>. QED
  BY <1>1 DEF Awaits, Yields, Told, Pulls, Have, Beats, Letters, WillTell, Unheard, Asking, At

(* What two replicas that are connected owe each other outlasts a step.    *)
LEMMA PairKept ==
  ASSUME NEW r \in Replica, NEW s \in Replica, Meeting(r, s), Moves(r, s) \/ Moves(s, r)
  PROVE  PairInv(r, s)'
BY BehindKept, RankedKept, AnswersKept, UnopenedKept, AwaitsKept
   DEF PairInv, Behind, Ranked, Answers, Unopened, Awaits

-----------------------------------------------------------------------------
(* Every step is one of these to a pair, or does not touch it.             *)
(* The steps of a replica that the pair sees.                              *)
Own(x) == \/ \E t \in Replica : SendMap(x, t) \/ StartEnvelope(x, t) \/ answerFile(t, x)
          \/ PullStep(x) \/ Finish(x)
Stays(r, s) == Rests(r) /\ Rests(s) /\ SameMail(r, s) /\ SameMail(s, r)

(* What is lost, when a link is, is not of the pair.                       *)
LEMMA SeverOther ==
  ASSUME NEW links, NEW down, Sever(links, down), NEW r \in Replica, NEW s \in Replica,
         r \notin down, s \notin down, connected(r, s)'
  PROVE  /\ inbox'[r][s] = inbox[r][s]
         /\ r \in due[s] => r \in due'[s]
<1>1. {r, s} \notin links /\ {s, r} = {r, s}
  BY DEF Sever, connected
<1>2. inbox'[r][s] = inbox[r][s]
  BY <1>1 DEF Sever
<1>3. due'[s] = due[s] \ gone(links, s)
  BY DEF Sever
<1>4. r \notin gone(links, s)
  BY <1>1 DEF gone
<1>. QED BY <1>2, <1>3, <1>4

(* A replica that stays connected does not crash.                          *)
LEMMA NoneCrashes ==
  ASSUME NEW r \in Replica, NEW s \in Replica, connected(r, s), connected(r, s)'
  PROVE  ~Crash(r) /\ ~Crash(s)
<1>. SUFFICES ASSUME NEW x \in {r, s}, Crash(x) PROVE FALSE
  OBVIOUS
<1>1. up' = up \ {l \in up : x \in l}
  BY DEF Crash, Sever
<1>. QED BY <1>1 DEF connected

(* How the letters of y at x, and what y owes x, change.                   *)
LEMMA MailStep ==
  ASSUME TypeOK, [Next]_vars, NEW r \in Replica, NEW s \in Replica, connected(r, s), connected(r, s)',
         r # s
  PROVE  \/ inbox'[r][s] = inbox[r][s] /\ (r \in due[s] => r \in due'[s])
         \/ StartEnvelope(r, s) \/ SendMap(s, r)
         \/ Finish(s) /\ Asking(s) /\ job[s].peer = r
<1>. USE DEF vars, storage, channel, ghosts
<1>. DEFINE Same == inbox'[r][s] = inbox[r][s] /\ (r \in due[s] => r \in due'[s])
            Goal == \/ Same \/ StartEnvelope(r, s) \/ SendMap(s, r)
                    \/ (Finish(s) /\ Asking(s) /\ job[s].peer = r)
<1>0. /\ \A x, y \in Replica : inbox[x][y] \in Seq(Letter)
      /\ inbox \in [Replica -> [Replica -> Seq(Letter)]] /\ due \in [Replica -> SUBSET Replica]
      /\ \A x \in Replica : job[x].peer \in Replica
  BY DEF TypeOK, Job
<1>1. ASSUME UNCHANGED <<inbox, due>> PROVE Same
  BY <1>1
<1>2. ASSUME NEW x \in Replica, NEW p \in Path, UserWrite(x, p) \/ UserDelete(x, p) \/ NoteMutation(x, p)
      PROVE  Same
  BY <1>2 DEF UserWrite, UserDelete, NoteMutation
<1>3. ASSUME NEW x \in Replica, FireTimer(x) PROVE Same
  BY <1>0, <1>3 DEF FireTimer
<1>4. ASSUME NEW x \in Replica, PullStep(x) PROVE Same
  <2>1. RequestPull(x) \/ PullTimeout(x) \/ applyRemoteDelete(x) \/ DiscardAnswer(x) => Same
    BY DEF RequestPull, PullTimeout, applyRemoteDelete, DiscardAnswer
  <2>2. PullRead(x) \/ PullWrite(x) \/ PullNote(x) => Same
    BY DEF PullRead, PullWrite, PullNote
  <2>. QED BY <1>4, <2>1, <2>2 DEF PullStep
<1>5. ASSUME NEW x \in Replica, NEW y \in Replica, NEW b \in BOOLEAN, Send(x, y, b)
      PROVE  inbox'[r][s] = inbox[r][s] \/ (x = s /\ y = r)
  BY <1>0, <1>5 DEF Send
<1>6. ASSUME NEW x \in Replica, Finish(x) PROVE Goal
  <2>1. UNCHANGED due
    BY <1>6 DEF Finish
  <2>2. CASE Asking(x)
    BY <1>0, <1>5, <1>6, <2>1, <2>2 DEF Finish, Asking
  <2>3. CASE ~Asking(x)
    BY <1>6, <2>1, <2>3 DEF Finish, Asking
  <2>. QED BY <2>2, <2>3
<1>7. ASSUME NEW x \in Replica, Persist(x) PROVE Same
  BY <1>7 DEF Persist
<1>8. ASSUME NEW x \in Replica, NEW y \in Replica, SendMap(x, y) PROVE Goal
  <2>1. due' = [due EXCEPT ![x] = @ \ {y}] /\ Send(x, y, FALSE)
    BY <1>8 DEF SendMap
  <2>2. CASE x = s /\ y = r
    BY <1>8, <2>2
  <2>3. CASE ~(x = s /\ y = r)
    <3>1. r \in due[s] => r \in due'[s]
      BY <1>0, <2>1, <2>3
    <3>. QED BY <1>5, <2>1, <2>3, <3>1
  <2>. QED BY <2>2, <2>3
<1>9. ASSUME NEW x \in Replica, NEW y \in Replica, StartEnvelope(x, y) PROVE Goal
  <2>1. inbox' = [inbox EXCEPT ![x][y] = Tail(@)] /\ UNCHANGED due
    BY <1>9 DEF StartEnvelope
  <2>. QED BY <1>0, <1>9, <2>1
<1>10. ASSUME NEW x \in Replica, NEW y \in Replica, answerFile(y, x) PROVE Same
  BY <1>10 DEF answerFile
<1>11. ASSUME NEW x \in Replica, NEW y \in Replica, Attach(x, y) PROVE Same
  BY <1>0, <1>11 DEF Attach
<1>12. ASSUME NEW x \in Replica, Crash(x) PROVE Same
  <2>1. x # r /\ x # s
    BY <1>12, NoneCrashes
  <2>2. Sever({l \in up : x \in l}, {x})
    BY <1>12 DEF Crash
  <2>. HIDE DEF vars, storage, channel, ghosts
  <2>. QED BY <2>1, <2>2, SeverOther
<1>13. ASSUME NEW x \in Replica, NEW y \in Replica, Drop(x, y) PROVE Same
  <2>1. Sever({{x, y}}, {})
    BY <1>13 DEF Drop
  <2>. QED BY <2>1, SeverOther
<1>. HIDE DEF Same
<1>14. Goal
  BY <1>2, <1>3, <1>4, <1>6, <1>7, <1>8, <1>9, <1>10, <1>11, <1>12, <1>13, <1>1
     DEF Next, UserStep, EngineStep, FaultStep
<1>. QED BY <1>14 DEF Same

(* What a replica that is connected has changes by its own pulls only.     *)
LEMMA FileStep ==
  ASSUME OneToOne, BaseInv, [Next]_vars, NEW r \in Replica, NEW s \in Replica,
         connected(r, s), connected(r, s)'
  PROVE  /\ disk'[r] = disk[r] \/ PullWrite(r)
         /\ \A p \in Path : At(r, p)' = At(r, p) \/ (PullNote(r) /\ job[r].path = p)
         /\ \A p \in Path : At(r, p)' >= At(r, p)
<1>1. TypeOK /\ EditInv /\ ~EditOnline /\ Undeleted /\ dirty[r] = {}
  BY DEF BaseInv, EditInv, OneToOne, Noted
<1>2. disk'[r] = disk[r] \/ PullWrite(r)
  <2>1. ASSUME NEW x \in Replica, NEW p \in Path, UserWrite(x, p) \/ UserDelete(x, p)
        PROVE  disk'[r] = disk[r]
    <3>1. x # r
      BY <1>1, <2>1 DEF UserWrite, UserDelete, Editable, Undeleted
    <3>. QED BY <1>1, <2>1, <3>1 DEF UserWrite, UserDelete, TypeOK
  <2>2. ASSUME NEW x \in Replica, applyRemoteDelete(x) \/ PullWrite(x), x # r PROVE disk'[r] = disk[r]
    BY <1>1, <2>2 DEF applyRemoteDelete, PullWrite, TypeOK
  <2>. QED BY <1>1, <2>1, <2>2, Writers, NoRemoteDelete
<1>3. ASSUME NEW p \in Path PROVE journal'[r].last[p] = journal[r].last[p] \/ (PullNote(r) /\ job[r].path = p)
  <2>1. ~NoteMutation(r, p)
    BY <1>1 DEF NoteMutation
  <2>2. ~applyRemoteDelete(r) /\ ~Crash(r)
    BY <1>1, NoRemoteDelete, NoneCrashes
  <2>. QED BY <1>1, <2>1, <2>2, OpStep DEF Notes, Took
<1>4. ASSUME NEW p \in Path PROVE lamportFor(journal'[r], p) >= lamportFor(journal[r], p)
  BY <1>1, StampStep, NoneCrashes
<1>. QED BY <1>2, <1>3, <1>4 DEF At, lamportFor

(* Its job changes by its own steps.                                       *)
LEMMA OwnJob ==
  ASSUME OneToOne, BaseInv, [Next]_vars, NEW r \in Replica, NEW s \in Replica,
         connected(r, s), connected(r, s)', ~Own(r)
  PROVE  job'[r] = job[r]
<1>1. TypeOK /\ job[r] \in Job
  BY DEF BaseInv, EditInv, TypeOK
<1>2. ASSUME NEW links, NEW down, Sever(links, down), job'[r] = CloseJob(job[r], gone(links, r))
      PROVE  job'[r] = job[r]
  <2>1. s \notin gone(links, r)
    BY <1>2 DEF Sever, connected, gone
  <2>2. job[r].live => job[r].peer \notin gone(links, r)
    BY <2>1, OnePeer
  <2>3. (job[r].live /\ job[r].peer \notin gone(links, r)) = job[r].live
    BY <1>1, <2>2 DEF Job
  <2>4. job'[r] = [job[r] EXCEPT !.live = job[r].live]
    BY <1>2, <2>3 DEF CloseJob
  <2>. QED BY <1>1, <2>4 DEF Job
<1>. QED BY <1>1, <1>2, JobStep, NoneCrashes DEF Own

(* A step of neither leaves what both have and owe alone.                  *)
LEMMA OthersStay ==
  ASSUME OneToOne, BaseInv, [Next]_vars, NEW r \in Replica, NEW s \in Replica,
         connected(r, s), connected(r, s)', ~Own(r), ~Own(s)
  PROVE  Stays(r, s)
<1>1. r # s /\ connected(s, r) /\ connected(s, r)' /\ TypeOK
  <2>1. {r, s} = {s, r}
    OBVIOUS
  <2>. QED BY <2>1, OnePeer DEF connected, BaseInv, EditInv
<1>2. ~PullWrite(r) /\ ~PullNote(r) /\ ~PullWrite(s) /\ ~PullNote(s)
  BY DEF Own, PullStep
<1>3. Rests(r) /\ Rests(s)
  BY <1>1, <1>2, FileStep, OwnJob DEF Rests
<1>4. SameMail(r, s) /\ SameMail(s, r)
  BY <1>1, MailStep DEF Own, SameMail, Letters
<1>. QED BY <1>3, <1>4 DEF Stays

(* A step of r leaves what s has alone, ...                                *)
LEMMA OwnAlone ==
  ASSUME TypeOK, NEW r \in Replica, NEW s \in Replica, r # s, Own(r)
  PROVE  Rests(s)
<1>. USE DEF storage, channel, ghosts
<1>. DEFINE Alone == disk'[s] = disk[s] /\ job'[s] = job[s] /\ journal'[s] = journal[s]
<1>0. /\ disk \in [Replica -> [Path -> File]] /\ job \in [Replica -> Job]
      /\ journal \in [Replica -> JournalState]
  BY DEF TypeOK
<1>1. ASSUME NEW t \in Replica, SendMap(r, t) \/ answerFile(t, r) PROVE Alone
  BY <1>0, <1>1 DEF SendMap, answerFile
<1>2. ASSUME NEW t \in Replica, StartEnvelope(r, t) PROVE Alone
  BY <1>0, <1>2 DEF StartEnvelope
<1>3. ASSUME RequestPull(r) \/ PullTimeout(r) \/ DiscardAnswer(r) \/ PullRead(r) PROVE Alone
  BY <1>0, <1>3 DEF RequestPull, PullTimeout, DiscardAnswer, PullRead
<1>4. ASSUME applyRemoteDelete(r) \/ PullNote(r) PROVE Alone
  BY <1>0, <1>4 DEF applyRemoteDelete, PullNote
<1>5. ASSUME PullWrite(r) PROVE Alone
  <2>1. disk'[s] = disk[s] /\ job'[s] = job[s]
    BY <1>0, <1>5 DEF PullWrite
  <2>2. journal'[s] = journal[s]
    BY <1>0, <1>5 DEF PullWrite, KeepCopy
  <2>. QED BY <2>1, <2>2
<1>6. ASSUME Finish(r) PROVE Alone
  BY <1>0, <1>6 DEF Finish
<1>. HIDE DEF Alone
<1>7. Alone
  BY <1>1, <1>2, <1>3, <1>4, <1>5, <1>6 DEF Own, PullStep
<1>. QED BY <1>7 DEF Alone, Rests, At

(* ... and what s told it; a pull also leaves what it told s.              *)
LEMMA PullMail ==
  ASSUME NEW r \in Replica, NEW s \in Replica,
         PullStep(r) \/ \E t \in Replica : answerFile(t, r)
  PROVE  SameMail(r, s) /\ SameMail(s, r)
<1>. USE DEF storage, channel, ghosts
<1>1. ASSUME NEW t \in Replica, answerFile(t, r) PROVE UNCHANGED <<inbox, due>>
  BY <1>1 DEF answerFile
<1>2. RequestPull(r) \/ PullTimeout(r) \/ applyRemoteDelete(r) \/ DiscardAnswer(r) => UNCHANGED <<inbox, due>>
  BY DEF RequestPull, PullTimeout, applyRemoteDelete, DiscardAnswer
<1>3. PullRead(r) \/ PullWrite(r) \/ PullNote(r) => UNCHANGED <<inbox, due>>
  BY DEF PullRead, PullWrite, PullNote
<1>4. UNCHANGED <<inbox, due>>
  BY <1>1, <1>2, <1>3 DEF PullStep
<1>. QED BY <1>4 DEF SameMail, Letters

(* What a job keeps, beside what JobAfter tells of it.                     *)
LEMMA JobKeeps ==
  ASSUME TypeOK, NEW r \in Replica
  PROVE  /\ PullStep(r) \/ (\E s \in Replica : answerFile(s, r)) =>
              job'[r].map = job[r].map /\ job'[r].reply = job[r].reply
         /\ \A s \in Replica : StartEnvelope(r, s) =>
              job'[r].map = Head(inbox[r][s]).map /\ job'[r].reply = Head(inbox[r][s]).reply
         /\ \A s \in Replica : answerFile(s, r) =>
              job'[r].data = IF disk[s][job[r].path] \in Empty THEN NoFile ELSE disk[s][job[r].path]
         /\ PullRead(r) => job[r].phase = "told"
         /\ PullWrite(r) => job[r].phase = "write"
         /\ PullNote(r) => job[r].phase = "note"
         /\ DiscardAnswer(r) => job[r].phase = "told" /\ job[r].live
<1>. USE DEF Job
<1>0. job \in [Replica -> Job] /\ job[r] \in Job
  BY DEF TypeOK
<1>. DEFINE Keeps == job'[r].map = job[r].map /\ job'[r].reply = job[r].reply
<1>1. RequestPull(r) => Keeps
  BY <1>0 DEF RequestPull
<1>2. PullTimeout(r) \/ applyRemoteDelete(r) \/ DiscardAnswer(r) \/ PullNote(r) => Keeps
  <2>1. PullTimeout(r) \/ applyRemoteDelete(r) => job'[r] = Settled(job[r])
    BY <1>0 DEF PullTimeout, applyRemoteDelete
  <2>2. DiscardAnswer(r) \/ PullNote(r) => job'[r] = Settled(job[r])
    BY <1>0 DEF DiscardAnswer, PullNote
  <2>3. Settled(job[r]).map = job[r].map /\ Settled(job[r]).reply = job[r].reply
    BY <1>0 DEF Settled
  <2>. QED BY <2>1, <2>2, <2>3
<1>3. PullRead(r) => Keeps
  <2>1. PullRead(r) => job'[r] = [job[r] EXCEPT !.phase = "write", !.local = disk[r][job[r].path]]
    BY <1>0 DEF PullRead
  <2>2. \A d : LET c == [job[r] EXCEPT !.phase = "write", !.local = d]
               IN  c.map = job[r].map /\ c.reply = job[r].reply
    BY <1>0
  <2>. QED BY <2>1, <2>2
<1>4. PullWrite(r) => Keeps
  <2>1. PullWrite(r) => job'[r] = [job[r] EXCEPT !.phase = "note"]
    BY <1>0 DEF PullWrite
  <2>2. LET c == [job[r] EXCEPT !.phase = "note"]
        IN  c.map = job[r].map /\ c.reply = job[r].reply
    BY <1>0
  <2>. QED BY <2>1, <2>2
<1>5. ASSUME NEW s \in Replica, answerFile(s, r)
      PROVE  /\ job'[r].map = job[r].map /\ job'[r].reply = job[r].reply
             /\ job'[r].data = IF disk[s][job[r].path] \in Empty THEN NoFile ELSE disk[s][job[r].path]
  BY <1>0, <1>5 DEF answerFile
<1>6. ASSUME NEW s \in Replica, StartEnvelope(r, s)
      PROVE  job'[r].map = Head(inbox[r][s]).map /\ job'[r].reply = Head(inbox[r][s]).reply
  BY <1>0, <1>6 DEF StartEnvelope, Idle
<1>7. /\ PullRead(r) => job[r].phase = "told"
      /\ PullWrite(r) => job[r].phase = "write"
      /\ PullNote(r) => job[r].phase = "note"
      /\ DiscardAnswer(r) => job[r].phase = "told" /\ job[r].live
  BY DEF PullRead, PullWrite, PullNote, DiscardAnswer, answered
<1>. QED BY <1>1, <1>2, <1>3, <1>4, <1>5, <1>6, <1>7 DEF PullStep

(* Sending a map adds a letter with it.                                    *)
LEMMA SendLetter ==
  ASSUME TypeOK, NEW r \in Replica, NEW s \in Replica, r # s, NEW b \in BOOLEAN, Send(r, s, b)
  PROVE  Sends(r, s, b) /\ Letters(r, s)' = Letters(r, s)
<1>1. inbox \in [Replica -> [Replica -> Seq(Letter)]] /\ inbox[s][r] \in Seq(Letter)
  BY DEF TypeOK
<1>. DEFINE l == [live |-> TRUE, map |-> MyMap(r), reply |-> b]
<1>2. l \in Letter /\ l.live /\ l.reply = b /\ l.map = MyMap(r)
  BY MyMapType DEF Letter
<1>3. inbox'[s][r] = Append(inbox[s][r], l) /\ inbox'[r][s] = inbox[r][s]
  BY <1>1 DEF Send
<1>. HIDE DEF l
<1>4. Alive(inbox'[s][r]) = Alive(inbox[s][r]) \cup {l}
  BY <1>1, <1>2, <1>3, AliveLetters
<1>. QED BY <1>2, <1>3, <1>4 DEF Sends, Letters

(* SendMap writes a letter to the peer.                                    *)
LEMMA SendMoves ==
  ASSUME OneToOne, BaseInv, NEW r \in Replica, NEW s \in Replica, connected(r, s),
         NEW t \in Replica, SendMap(r, t)
  PROVE  Writing(r, s)
<1>. USE DEF storage, channel, ghosts
<1>1. TypeOK /\ r # s /\ t = s /\ Send(r, s, FALSE)
  BY OnePeer DEF BaseInv, EditInv, SendMap
<1>2. Sends(r, s, FALSE) /\ Letters(r, s)' = Letters(r, s)
  BY <1>1, SendLetter
<1>3. Rests(r)
  BY DEF SendMap, Rests, At
<1>4. r \in due[s] => r \in due'[s]
  BY <1>1 DEF SendMap, TypeOK
<1>. QED BY <1>2, <1>3, <1>4 DEF Writing, SameMail

(* StartEnvelope opens a letter of the peer, or one of a peer that is gone. *)
LEMMA OpenMoves ==
  ASSUME OneToOne, BaseInv, NEW r \in Replica, NEW s \in Replica, connected(r, s),
         NEW t \in Replica, StartEnvelope(r, t)
  PROVE  Opening(r, s) \/ Pulling(r, s)
<1>. USE DEF storage, channel, ghosts
<1>. DEFINE h == Head(inbox[r][t])
            b == job[r]
            c == job'[r]
<1>0. TypeOK /\ r # s
  BY OnePeer DEF BaseInv, EditInv
<1>1. /\ TypeOK /\ r # s /\ inbox \in [Replica -> [Replica -> Seq(Letter)]]
      /\ inbox[r][t] \in Seq(Letter) /\ inbox[r][t] # <<>> /\ journal \in [Replica -> JournalState]
  <2>1. inbox[r][t] # <<>>
    BY DEF StartEnvelope
  <2>2. inbox \in [Replica -> [Replica -> Seq(Letter)]] /\ journal \in [Replica -> JournalState]
    BY <1>0 DEF TypeOK
  <2>. QED BY <1>0, <2>1, <2>2
<1>2. inbox'[r][t] = Tail(inbox[r][t]) /\ (t # s => inbox'[r][s] = inbox[r][s])
      /\ inbox'[s][r] = inbox[s][r] /\ UNCHANGED <<disk, due>>
  BY <1>1 DEF StartEnvelope
<1>3. ASSUME NEW p \in Path PROVE At(r, p)' = At(r, p)
  <2>1. PICK high : journal' = [journal EXCEPT ![r] = [@ EXCEPT !.clock = high]]
    BY DEF StartEnvelope
  <2>2. journal'[r].last = journal[r].last
    BY <1>1, <2>1 DEF JournalState
  <2>. QED BY <2>2 DEF At, lamportFor
<1>4. SameFiles(r) /\ SameMail(s, r) /\ (r \in due[s] => r \in due'[s])
  BY <1>2, <1>3 DEF SameFiles, SameMail, Letters
<1>5. /\ b.phase = "idle" /\ ~b.live /\ c.phase = "pulling" /\ c.live = h.live
      /\ c.todo = pullSet(journal[r], MyMap(r), h.map, r, t)
      /\ c.map = h.map /\ c.reply = h.reply
  BY <1>1, JobAfter, JobKeeps DEF BaseInv, PullsOnce, PullOnce
<1>6. h \in Letter /\ h = inbox[r][t][1] /\ 1 \in 1 .. Len(inbox[r][t])
  BY <1>1
<1>. HIDE DEF h, b, c
<1>7. CASE h.live
  <2>1. t = s
    <3>1. connected(r, t)
      BY <1>6, <1>7 DEF BaseInv, LiveOnly
    <3>. QED BY <3>1, OnePeer
  <2>2. Letters(r, s)' \cup {h} = Letters(r, s)
    BY <1>1, <1>2, <1>7, <2>1, AliveLetters DEF Letters, h
  <2>3. h \in Letters(r, s) /\ h.map \in Map
    BY <1>6, <2>2 DEF Letter
  <2>4. ASSUME NEW p \in Path
        PROVE  p \in c.todo <=> /\ h.map.hash[p] # NoFile
                                /\ \/ ~Have(r, p)
                                   \/ disk[r][p] # h.map.hash[p] /\ Beats(h.map.lamport[p], s, r, p)
    <3>1. h.map.deletes[p] = NoTomb
      BY <2>3, LettersTrue
    <3>2. job[r].phase = "idle"
      BY <1>5 DEF b
    <3>. QED BY <1>1, <1>5, <2>1, <2>3, <3>1, <3>2, PullRule
  <2>5. Opening(r, s)
    BY <1>4, <1>5, <1>7, <2>2, <2>3, <2>4 DEF Opening, b, c
  <2>. QED BY <2>5
<1>8. CASE ~h.live
  <2>1. Letters(r, s)' = Letters(r, s)
    <3>1. CASE t = s
      BY <1>1, <1>2, <1>8, <3>1, AliveLetters DEF Letters, h
    <3>2. CASE t # s
      BY <1>2, <3>2 DEF Letters
    <3>. QED BY <3>1, <3>2
  <2>2. SameMail(r, s)
    BY <1>4, <2>1 DEF SameMail
  <2>3. ~b.live /\ ~c.live /\ c.phase = "pulling" /\ ~Leftover(r)
    BY <1>5, <1>8 DEF Leftover, b
  <2>. QED BY <1>4, <2>2, <2>3 DEF Pulling, b, c
<1>. QED BY <1>7, <1>8

(* A step of a pull pulls, stores or notes.                                *)
LEMMA PullMoves ==
  ASSUME OneToOne, BaseInv, [Next]_vars, NEW r \in Replica, NEW s \in Replica,
         connected(r, s), connected(r, s)',
         PullStep(r) \/ \E t \in Replica : answerFile(t, r)
  PROVE  Pulling(r, s) \/ Storing(r, s) \/ Noting(r, s)
<1>. DEFINE b == job[r]
            c == job'[r]
<1>1. TypeOK /\ EditInv /\ r # s /\ (b.live => b.peer = s) /\ b.live \in BOOLEAN /\ b.path \in Path
  BY OnePeer DEF BaseInv, EditInv, TypeOK, Job
<1>2. SameMail(r, s) /\ SameMail(s, r) /\ c.map = b.map /\ c.reply = b.reply
  BY <1>1, PullMail, JobKeeps
<1>3. /\ ~PullWrite(r) => disk'[r] = disk[r]
      /\ \A p \in Path : /\ At(r, p)' >= At(r, p)
                         /\ ~PullNote(r) \/ p # b.path => At(r, p)' = At(r, p)
  BY FileStep
<1>4. ~PullWrite(r) /\ ~PullNote(r) => SameFiles(r)
  BY <1>3 DEF SameFiles
<1>5. ASSUME RequestPull(r) PROVE Pulling(r, s)
  <2>1. /\ b.phase = "pulling" /\ c.live = b.live
        /\ c.phase = IF b.live THEN "asked" ELSE "pulling"
        /\ c.path \in b.todo /\ c.todo = b.todo \ {c.path}
    BY <1>1, <1>5, JobAfter
  <2>2. ~PullWrite(r) /\ ~PullNote(r)
    BY <2>1 DEF PullWrite, PullNote
  <2>. QED BY <1>1, <1>2, <1>4, <2>1, <2>2 DEF Pulling, Leftover
<1>6. ASSUME NEW t \in Replica, answerFile(t, r) PROVE Pulling(r, s)
  <2>1. /\ b.phase = "asked" /\ b.peer = t /\ b.live /\ c.phase = "told" /\ c.live
        /\ c.path = b.path /\ c.todo = b.todo
        /\ c.data = IF disk[t][b.path] \in Empty THEN NoFile ELSE disk[t][b.path]
    BY <1>1, <1>6, JobAfter, JobKeeps
  <2>2. t = s /\ Empty = {}
    BY <1>1, <2>1 DEF OneToOne, Undeleted
  <2>3. ~PullWrite(r) /\ ~PullNote(r)
    BY <2>1 DEF PullWrite, PullNote
  <2>. QED BY <1>2, <1>4, <2>1, <2>2, <2>3 DEF Pulling
<1>7. ASSUME PullTimeout(r) PROVE Pulling(r, s)
  <2>1. ~b.live /\ b.phase \in {"asked", "told"}
    BY <1>1, <1>7 DEF PullTimeout, OneToOne, TypeOK
  <2>2. c.phase = "pulling" /\ c.live = b.live
    BY <1>1, <1>7, JobAfter
  <2>3. ~PullWrite(r) /\ ~PullNote(r) /\ ~Leftover(r)
    BY <2>1 DEF PullWrite, PullNote, Leftover
  <2>. QED BY <1>2, <1>4, <2>1, <2>2, <2>3 DEF Pulling
<1>8. ASSUME DiscardAnswer(r) PROVE Pulling(r, s)
  <2>1. b.phase = "told" /\ b.live /\ b.map.hash[b.path] # b.data
    BY <1>8 DEF DiscardAnswer, answered, stale
  <2>2. c.phase = "pulling" /\ c.live = b.live /\ c.todo = b.todo
    BY <1>1, <1>8, JobAfter
  <2>3. ~PullWrite(r) /\ ~PullNote(r)
    BY <2>1 DEF PullWrite, PullNote
  <2>. QED BY <1>2, <1>4, <2>1, <2>2, <2>3 DEF Pulling
<1>9. ASSUME PullRead(r) PROVE Pulling(r, s)
  <2>1. b.phase = "told" /\ b.live
    BY <1>9 DEF PullRead, answered
  <2>2. /\ c.phase = "write" /\ c.live = b.live /\ c.path = b.path /\ c.todo = b.todo
        /\ c.data = b.data
    BY <1>1, <1>9, <2>1, JobAfter
  <2>3. ~PullWrite(r) /\ ~PullNote(r)
    BY <2>1 DEF PullWrite, PullNote
  <2>. QED BY <1>2, <1>4, <2>1, <2>2, <2>3 DEF Pulling
<1>10. ASSUME PullWrite(r) PROVE Storing(r, s)
  <2>1. b.phase = "write" /\ disk' = [disk EXCEPT ![r][b.path] = b.data]
    BY <1>10 DEF PullWrite
  <2>2. /\ c.phase = "note" /\ c.live = b.live /\ c.path = b.path /\ c.todo = b.todo
        /\ c.data = b.data
    BY <1>1, <1>10, <2>1, JobAfter
  <2>3. disk'[r][b.path] = b.data /\ \A p \in Path : p # b.path => disk'[r][p] = disk[r][p]
    BY <1>1, <2>1 DEF TypeOK
  <2>4. ~PullNote(r)
    BY <2>1 DEF PullNote
  <2>. QED BY <1>2, <1>3, <2>1, <2>2, <2>3, <2>4 DEF Storing, SameJob
<1>11. ASSUME PullNote(r) PROVE Noting(r, s)
  <2>1. b.phase = "note"
    BY <1>11 DEF PullNote
  <2>2. c.phase = "pulling" /\ c.live = b.live /\ c.todo = b.todo
    BY <1>1, <1>11, JobAfter
  <2>3. ~PullWrite(r)
    BY <2>1 DEF PullWrite
  <2>. QED BY <1>2, <1>3, <2>1, <2>2, <2>3 DEF Noting, SameJob
<1>12. ~applyRemoteDelete(r)
  BY <1>1, NoRemoteDelete
<1>. QED BY <1>5, <1>6, <1>7, <1>8, <1>9, <1>10, <1>11, <1>12 DEF PullStep

(* Finish ends a round, and answers a map that asks.                       *)
LEMMA EndMoves ==
  ASSUME OneToOne, BaseInv, NEW r \in Replica, NEW s \in Replica, connected(r, s), Finish(r)
  PROVE  Ending(r, s)
<1>1. TypeOK /\ r # s /\ (job[r].live => job[r].peer = s)
  BY OnePeer DEF BaseInv, EditInv
<1>2. /\ job[r].phase = "pulling" /\ job[r].todo = {} /\ UNCHANGED <<disk, journal, due>>
      /\ IF job[r].live /\ ~job[r].reply THEN Send(r, job[r].peer, TRUE) ELSE UNCHANGED inbox
  BY DEF Finish
<1>3. job'[r].phase = "idle" /\ ~job'[r].live
  <2>1. job'[r] = Idle
    BY <1>1, JobAfter
  <2>. QED BY <2>1 DEF Idle
<1>4. SameFiles(r)
  BY <1>2 DEF SameFiles, At
<1>5. CASE Asking(r)
  <2>1. Send(r, s, TRUE)
    BY <1>1, <1>2, <1>5 DEF Asking
  <2>2. Sends(r, s, TRUE) /\ Letters(r, s)' = Letters(r, s)
    BY <1>1, <2>1, SendLetter
  <2>. QED BY <1>2, <1>3, <1>4, <1>5, <2>2 DEF Ending, SameMail
<1>6. CASE ~Asking(r)
  <2>1. UNCHANGED inbox
    BY <1>2, <1>6 DEF Asking
  <2>. QED BY <1>2, <1>3, <1>4, <1>6, <2>1 DEF Ending, SameMail, Letters
<1>. QED BY <1>5, <1>6

(* What any step is to a pair that is connected before and after it.       *)
LEMMA PairStep ==
  ASSUME OneToOne, BaseInv, [Next]_vars, NEW r \in Replica, NEW s \in Replica,
         connected(r, s), connected(r, s)'
  PROVE  Stays(r, s) \/ Moves(r, s) \/ Moves(s, r)
<1>1. TypeOK /\ r # s /\ connected(s, r) /\ connected(s, r)'
  <2>1. {r, s} = {s, r}
    OBVIOUS
  <2>. QED BY <2>1, OnePeer DEF connected, BaseInv, EditInv
<1>2. ASSUME NEW x \in Replica, NEW y \in Replica, x # y, connected(x, y), connected(x, y)', Own(x)
      PROVE  Moves(x, y)
  <2>1. Rests(y)
    BY <1>1, <1>2, OwnAlone
  <2>2. /\ (\E t \in Replica : SendMap(x, t)) => Writing(x, y)
        /\ (\E t \in Replica : StartEnvelope(x, t)) => Opening(x, y) \/ Pulling(x, y)
    BY <1>2, SendMoves, OpenMoves
  <2>3. PullStep(x) \/ (\E t \in Replica : answerFile(t, x)) => Pulling(x, y) \/ Storing(x, y) \/ Noting(x, y)
    BY <1>2, PullMoves
  <2>4. Finish(x) => Ending(x, y)
    BY <1>2, EndMoves
  <2>. QED BY <1>2, <2>1, <2>2, <2>3, <2>4 DEF Own, Moves
<1>3. CASE Own(r)
  BY <1>1, <1>2, <1>3
<1>4. CASE Own(s)
  BY <1>1, <1>2, <1>4
<1>5. CASE ~Own(r) /\ ~Own(s)
  BY <1>5, OthersStay
<1>. QED BY <1>3, <1>4, <1>5

-----------------------------------------------------------------------------
(* Replicas meet, and what they owe each other lasts.                      *)
(* What the invariants say of a pair that stays connected.                 *)
LEMMA PairSane ==
  ASSUME OneToOne, BaseInv, BaseInv', NEW r \in Replica, NEW s \in Replica, connected(r, s)
  PROVE  Sane(r, s)
<1>. DEFINE b == job[r]
<1>1. /\ job[r] \in Job /\ journal \in [Replica -> JournalState] /\ disk \in [Replica -> [Path -> File]]
      /\ mtime \in [Replica -> [Path -> Nat]]
  BY DEF BaseInv, EditInv, TypeOK
<1>2. job'[r] \in Job /\ journal' \in [Replica -> JournalState]
  BY DEF BaseInv, EditInv, TypeOK
<1>3. \A p \in Path : At(r, p) \in Nat /\ At(r, p)' \in Nat
  <2>1. \A j \in JournalState, p \in Path : lamportFor(j, p) \in Nat
    BY DEF JournalState, SyncOp, lamportFor
  <2>. QED BY <1>1, <1>2, <2>1 DEF At
<1>4. \A l \in Letters(r, s), p \in Path :
        l.map.lamport[p] \in Nat /\ (l.map.hash[p] # NoFile => Have(s, p))
  <2>1. \A l \in Letters(r, s) : l.map \in Map
    BY LettersTrue DEF Letter
  <2>2. \A l \in Letters(r, s), p \in Path : l.map.lamport[p] \in Nat
    BY <2>1 DEF Map, Stamps
  <2>. QED BY <2>2, LettersTrue
<1>5. /\ b.phase = "idle" => ~b.live
      /\ b.phase \in Taking => b.path \notin b.todo /\ disk[b.peer][b.path] # NoFile
      /\ b.phase = "note" => disk[r][b.path] = b.data
  BY DEF BaseInv, PullsOnce, PullOnce
<1>6. b.live /\ b.phase \in Taking => Have(s, b.path)
  BY <1>5, OnePeer DEF Have
<1>7. MyMap(r).hash = disk[r] /\ \A p \in Path : MyMap(r).lamport[p] = At(r, p)
  <2>1. \A p \in Path : disk[r][p] = NoFile => lamportFor(journal[r], p) = 0
    BY DEF BaseInv, Founded, Unstamped
  <2>. QED BY <2>1 DEF MyMap, myMap, At
<1>. QED BY <1>1, <1>2, <1>3, <1>4, <1>5, <1>6, <1>7 DEF Sane

(* Replicas that meet owe each other a map.                                *)
LEMMA MeetNew ==
  ASSUME OneToOne, BaseInv, [Next]_vars, NEW r \in Replica, NEW s \in Replica,
         ~connected(r, s), connected(r, s)'
  PROVE  PairInv(r, s)'
<1>. USE DEF storage, channel, ghosts
<1>1. TypeOK
  BY DEF BaseInv, EditInv
<1>2. PICK x \in Replica, y \in Replica : Attach(x, y) /\ {x, y} = {r, s}
  <2>1. ASSUME NEW x \in Replica, NEW y \in Replica, Attach(x, y) PROVE {x, y} = {r, s}
    <3>1. up' = up \cup {{x, y}}
      BY <2>1 DEF Attach
    <3>. QED BY <3>1 DEF connected
  <2>2. ASSUME NEW links, NEW down, Sever(links, down) PROVE FALSE
    BY <2>2 DEF Sever, connected
  <2>3. ~UNCHANGED up
    BY DEF connected
  <2>. QED BY <1>1, <2>1, <2>2, <2>3, UpStep
<1>3. /\ UNCHANGED <<disk, journal, inbox, job>>
      /\ {x, y} \in Link \ up
      /\ due' = [due EXCEPT ![x] = @ \cup {y}, ![y] = @ \cup {x}]
  BY <1>2 DEF Attach
<1>4. (x = r /\ y = s) \/ (x = s /\ y = r)
  BY <1>2
<1>5. s \in due'[r] /\ r \in due'[s]
  <2>1. due \in [Replica -> SUBSET Replica]
    BY <1>1 DEF TypeOK
  <2>. QED BY <1>3, <1>4, <2>1
<1>6. {r, s} \in Link /\ {r, s} \notin up /\ {s, r} = {r, s}
  BY <1>2, <1>3
<1>7. ASSUME NEW a \in {r, s} PROVE ~job[a].live
  <2>1. SUFFICES ASSUME job[a].live PROVE FALSE
    OBVIOUS
  <2>2. {a, job[a].peer} \in up /\ up \subseteq Link
    BY <1>1, <2>1 DEF BaseInv, LiveOnly, connected, TypeOK
  <2>3. {a, job[a].peer} = {r, s}
    BY <1>6, <2>2 DEF OneToOne
  <2>. QED BY <1>6, <2>2, <2>3
<1>8. Letters(r, s) = {} /\ Letters(s, r) = {}
  BY <1>6, LettersTrue DEF connected
<1>9. ~job'[r].live /\ ~job'[s].live /\ Letters(r, s)' = {} /\ Letters(s, r)' = {}
  BY <1>3, <1>7, <1>8 DEF Letters
<1>10. Unheard(r, s)' /\ WillTell(s, r)'
  BY <1>5 DEF Unheard, WillTell
<1>11. Behind(r, s)' /\ Ranked(r, s)' /\ Answers(r, s)'
  BY <1>9 DEF Behind, Ranked, Answers, Letters
<1>12. Unopened(r, s)' /\ Awaits(r, s)'
  BY <1>9, <1>10 DEF Unopened, Awaits, Covered, Letters, Unheard, WillTell, Asking
<1>. QED BY <1>11, <1>12 DEF PairInv

(* A step the pair does not see keeps what they owe each other.            *)
LEMMA PairStays ==
  ASSUME NEW r \in Replica, NEW s \in Replica, Meeting(r, s), Stays(r, s)
  PROVE  PairInv(r, s)'
<1>. USE DEF At, Letters
<1>1. /\ disk'[r] = disk[r] /\ job'[r] = job[r] /\ \A p \in Path : At(r, p)' = At(r, p)
      /\ disk'[s] = disk[s] /\ job'[s] = job[s] /\ \A p \in Path : At(s, p)' = At(s, p)
  BY DEF Stays, Rests
<1>2. /\ Letters(r, s)' = Letters(r, s) /\ (r \in due[s] => r \in due'[s])
      /\ Letters(s, r)' = Letters(s, r) /\ (s \in due[r] => s \in due'[r])
  BY DEF Stays, SameMail
<1>3. Behind(r, s) /\ Ranked(r, s) /\ Answers(r, s) /\ Unopened(r, s) /\ Awaits(r, s)
      /\ job[r].path \in Path
  BY DEF Meeting, PairInv, Sane, Job
<1>4. Behind(r, s)'
  BY <1>1, <1>2, <1>3 DEF Behind
<1>5. Ranked(r, s)'
  BY <1>1, <1>2, <1>3 DEF Ranked, Have, Beats
<1>6. /\ Unheard(s, r) => Unheard(s, r)'
      /\ Unheard(r, s) => Unheard(r, s)'
      /\ WillTell(s, r) => WillTell(s, r)'
  BY <1>1, <1>2 DEF Unheard, WillTell, Asking
<1>7. ASSUME NEW p \in Path, Covered(r, s, p) PROVE Covered(r, s, p)'
  BY <1>1, <1>2, <1>6, <1>7 DEF Covered, Tells
<1>8. Answers(r, s)'
  <2>1. PICK p \in Path : p = job[r].path
    BY <1>3
  <2>2. Covered(r, s, p) => Covered(r, s, p)'
    BY <1>7
  <2>. QED BY <1>1, <1>3, <2>1, <2>2 DEF Answers, Covered, Tells, WillTell, Unheard, Asking
<1>9. Unopened(r, s)'
  BY <1>1, <1>2, <1>3, <1>6, <1>7 DEF Unopened, Leftover, Covered, Tells, WillTell, Unheard, Asking
<1>10. Awaits(r, s)'
  BY <1>1, <1>2, <1>3, <1>6 DEF Awaits, Yields, Told, Pulls, Have, Beats, WillTell, Unheard, Asking
<1>. QED BY <1>4, <1>5, <1>8, <1>9, <1>10 DEF PairInv

(* Every step keeps what connected replicas owe each other.                *)
LEMMA MeetInvNext ==
  ASSUME OneToOne, BaseInv, BaseInv', MeetInv, [Next]_vars
  PROVE  MeetInv'
<1>1. ASSUME NEW r \in Replica, NEW s \in Replica, connected(r, s)' PROVE PairInv(r, s)'
  <2>1. CASE ~connected(r, s)
    BY <1>1, <2>1, MeetNew
  <2>2. CASE connected(r, s)
    <3>1. connected(s, r) /\ r # s /\ r \in Nat /\ s \in Nat
      <4>1. {r, s} = {s, r}
        OBVIOUS
      <4>. QED BY <2>2, <4>1, OnePeer, ReplicaAssumption DEF connected
    <3>2. Sane(r, s) /\ Sane(s, r)
      BY <2>2, <3>1, PairSane
    <3>3. Meeting(r, s)
      BY <2>2, <3>1, <3>2 DEF Meeting, MeetInv
    <3>. QED BY <1>1, <2>2, <3>3, PairStep, PairStays, PairKept
  <2>. QED BY <2>1, <2>2
<1>. QED BY <1>1 DEF MeetInv, connected

(* Nobody owes anybody anything: the workspaces are the same.              *)
LEMMA QuietAgree ==
  ASSUME OneToOne, BaseInv, MeetInv
  PROVE  QuietMeansAgreed
<1>. SUFFICES ASSUME Quiet, NEW r \in Replica, NEW s \in Replica, {r, s} \in Link
              PROVE  disk[r] = disk[s]
  BY DEF QuietMeansAgreed, Agree
<1>1. /\ connected(r, s) /\ connected(s, r) /\ {r, s} = {s, r}
      /\ disk[r] \in [Path -> File] /\ disk[s] \in [Path -> File]
  BY DEF Quiet, connected, BaseInv, EditInv, TypeOK
<1>2. ASSUME NEW x \in Replica, NEW y \in Replica, connected(x, y), NEW p \in Path
      PROVE  ~Yields(x, y, p)
  <2>1. ~job[x].live /\ ~job[y].live /\ due[x] = {}
    BY DEF Quiet, BaseInv, PullsOnce, PullOnce
  <2>2. Letters(x, y) = {} /\ Letters(y, x) = {}
    BY DEF Quiet, Letters, Alive
  <2>3. ~WillTell(y, x) /\ ~Told(x, y, p) /\ ~Pulls(x, y, p)
    BY <2>1, <2>2 DEF WillTell, Unheard, Asking, Told, Pulls
  <2>. QED BY <1>2, <2>3 DEF MeetInv, PairInv, Awaits
<1>3. ASSUME NEW p \in Path PROVE disk[r][p] = disk[s][p]
  <2>1. ~Yields(r, s, p) /\ ~Yields(s, r, p)
    BY <1>1, <1>2
  <2>2. At(r, p) \in Nat /\ At(s, p) \in Nat /\ r \in Nat /\ s \in Nat /\ r # s
    <3>1. \A j \in JournalState : lamportFor(j, p) \in Nat
      BY DEF JournalState, SyncOp, lamportFor
    <3>2. journal[r] \in JournalState /\ journal[s] \in JournalState
      BY DEF BaseInv, EditInv, TypeOK
    <3>. QED BY <1>1, <3>1, <3>2, OnePeer, ReplicaAssumption DEF At
  <2>. QED BY <2>1, <2>2 DEF Yields, Beats, Have
<1>. QED BY <1>1, <1>3

(* Replicas that fall silent agree: whatever pairs edit apart, however     *)
(* often they lose their connection at any point of a round and meet       *)
(* again, once every link is up and nobody has a map to send, a map to     *)
(* apply, a pull or a timer pending, both hold the same files (onEnvelope  *)
(* and its reply, applyDifference, conflictWinner).  Their adapters report *)
(* file times; adapters that report none may crash at any point as well.   *)
THEOREM QuietIsAgreed == OneToOne => (Spec => []QuietMeansAgreed)
<1>. SUFFICES ASSUME OneToOne PROVE Spec => []QuietMeansAgreed
  OBVIOUS
<1>1. Init => BaseInv /\ MeetInv
  <2>1. Init => MeetInv
    BY DEF Init, MeetInv, connected
  <2>. QED BY <2>1, BaseInvInit
<1>2. BaseInv /\ MeetInv /\ [Next]_vars => (BaseInv /\ MeetInv)'
  BY BaseInvNext, MeetInvNext
<1>3. BaseInv /\ MeetInv => QuietMeansAgreed
  BY QuietAgree
<1>. QED BY <1>1, <1>2, <1>3, PTL DEF Spec
=============================================================================
