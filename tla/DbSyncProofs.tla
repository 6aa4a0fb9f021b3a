------------------------------ MODULE DbSyncProofs ------------------------------
(***************************************************************************)
(* Theorems about the sync of app databases, for every number of callers   *)
(* of the flush, of writes, of deliveries and of upsets:                   *)
(*   TypeCorrect     the type invariant                                    *)
(*   NothingClobbered  a replay replaces only what has been in the dump    *)
(*   OnlyChangesRefuse a peer's dump stays refused only over changes       *)
(* They follow from one invariant: contents are fresh, so that a content   *)
(* that was shared is never written again; a replay carries hashes of      *)
(* contents that were shared; and as long as no replay was overtaken, a    *)
(* database that differs from its dump and has a content that was shared   *)
(* waits for a replay with its hash, which a turn keeps at the front.      *)
(***************************************************************************)
EXTENDS DbSync, SequenceTheorems, TLAPS

-----------------------------------------------------------------------------
(* Types.                                                                  *)

FlushType == [at : FlushAt, text : Content]
ApplyType ==
  [at : ApplyAt, clean : BOOLEAN, expected : Content, committed : Content, current : Content]
PendingType == [on : BOOLEAN, clean : BOOLEAN, previous : Content]

(* What TypeOK says of the parts, without the names of the places.         *)
Types ==
  /\ db \in Nat /\ dump \in Nat /\ base \in Nat /\ next \in Nat
  /\ shared \subseteq Nat
  /\ turn \in BOOLEAN /\ crossed \in BOOLEAN
  /\ flush \in [Flusher -> FlushType]
  /\ apply \in ApplyType /\ queue \in Seq(Request) /\ pending \in PendingType

LEMMA TypesOfState == TypeOK => Types
  BY DEF TypeOK, Types, FlushType, ApplyType, PendingType, Content

(* A flush moves on: it takes another place, and may take a text.          *)
LEMMA FlushMoves ==
  ASSUME flush \in [Flusher -> FlushType], NEW f \in Flusher, NEW a \in FlushAt, NEW c \in Content
  PROVE  /\ [flush EXCEPT ![f].at = a] \in [Flusher -> FlushType]
         /\ [flush EXCEPT ![f] = [at |-> a, text |-> c]] \in [Flusher -> FlushType]
  BY DEF FlushType

(* The places have their names.                                            *)
LEMMA Places ==
  /\ "idle" \in FlushAt /\ "dump" \in FlushAt /\ "write" \in FlushAt /\ "clear" \in FlushAt
  /\ "baseline" \in FlushAt
  /\ "idle" \in ApplyAt /\ "check" \in ApplyAt /\ "exec" \in ApplyAt /\ "clear" \in ApplyAt
  /\ "baseline" \in ApplyAt
  BY DEF FlushAt, ApplyAt

LEMMA NoTypes == NoFlush \in FlushType /\ NoApply \in ApplyType /\ Nothing \in PendingType
  BY Places DEF NoFlush, NoApply, Nothing, FlushType, ApplyType, PendingType, Content

(* Every action that touches a flush leaves a flush.                       *)
LEMMA FlushTyped == TypeOK /\ [Next]_vars => flush' \in [Flusher -> FlushType]
<1> SUFFICES ASSUME TypeOK, [Next]_vars PROVE flush' \in [Flusher -> FlushType]
  OBVIOUS
<1>1. flush \in [Flusher -> FlushType] /\ db \in Content /\ NoFlush \in FlushType
  BY NoTypes DEF TypeOK, FlushType
<1>2. CASE UNCHANGED flush
  BY <1>1, <1>2
<1>3. ASSUME NEW f \in Flusher, NEW a \in FlushAt, flush' = [flush EXCEPT ![f].at = a]
      PROVE  flush' \in [Flusher -> FlushType]
  BY <1>1, <1>3, FlushMoves DEF Content
<1>4. ASSUME NEW f \in Flusher, DumpDatabase(f) PROVE flush' \in [Flusher -> FlushType]
  BY <1>1, <1>4, Places, FlushMoves DEF DumpDatabase
<1>5. ASSUME NEW f \in Flusher, RecordBaseline(f) PROVE flush' \in [Flusher -> FlushType]
  BY <1>1, <1>5 DEF RecordBaseline
<1>6. ASSUME NEW f \in Flusher, TimerFires(f) \/ FlushAsked(f) \/ WriteDump(f) \/ ClearDirty(f)
      PROVE  flush' \in [Flusher -> FlushType]
  BY <1>2, <1>3, <1>6, Places DEF TimerFires, FlushAsked, WriteDump, ClearDirty
<1>7. CASE Reload
  BY <1>1, <1>7 DEF Reload
<1>8. CASE UNCHANGED vars
  BY <1>2, <1>8 DEF vars, work
<1>9. CASE TurnStart \/ TurnEnd \/ Statement \/ WriterStep \/ Deliver
  BY <1>2, <1>9 DEF TurnStart, TurnEnd, Statement, WriterStep, MarkDatabaseDirty, Write, Deliver
<1>10. CASE ApplyStep \/ ExecThrows
  BY <1>2, <1>10 DEF ApplyStep, StartApply, CheckApply, ExecDump, ClearApplied, RecordApplied, ExecThrows
<1>. QED BY <1>4, <1>5, <1>6, <1>7, <1>8, <1>9, <1>10 DEF Next, FlushStep

(* So for the replay that runs.                                            *)
LEMMA ApplyTyped == TypeOK /\ [Next]_vars => apply' \in ApplyType
<1> SUFFICES ASSUME TypeOK, [Next]_vars PROVE apply' \in ApplyType
  OBVIOUS
<1>1. /\ apply \in ApplyType /\ NoApply \in ApplyType
      /\ db \in Content /\ dump \in Content /\ base \in Content
  BY NoTypes DEF TypeOK, ApplyType
<1>2. CASE UNCHANGED apply
  BY <1>1, <1>2
<1>3. CASE StartApply
  <2>1. queue # <<>> /\ queue \in Seq(Request)
    BY <1>3 DEF StartApply, TypeOK
  <2>2. PICK r \in Request : r = Head(queue)
    BY <2>1
  <2>3. r.clean \in BOOLEAN /\ r.previous \in Content
    BY <2>2 DEF Request
  <2>4. PICK e \in Content : e = IF r.previous # 0 THEN r.previous ELSE base
    BY <1>1, <2>3
  <2>5. UNCHANGED apply \/
        apply' = [at |-> "check", clean |-> r.clean, expected |-> e, committed |-> dump, current |-> 0]
    BY <1>3, <2>2, <2>4 DEF StartApply, NoApply
  <2>. QED BY <1>1, <2>3, <2>4, <2>5, Places DEF ApplyType, Content
<1>4. CASE CheckApply
  <2>1. apply' \in {NoApply,
                    [at |-> "baseline", clean |-> FALSE, expected |-> 0, committed |-> db, current |-> 0],
                    [at |-> "exec", clean |-> FALSE, expected |-> 0, committed |-> apply.committed,
                     current |-> db]}
    BY <1>1, <1>4 DEF CheckApply, NoApply
  <2>2. apply.committed \in Content /\ 0 \in Content
    BY <1>1 DEF ApplyType, Content
  <2>3. \A c \in Content : [at |-> "baseline", clean |-> FALSE, expected |-> 0, committed |-> c,
                            current |-> 0] \in ApplyType
    BY <2>2, Places DEF ApplyType
  <2>4. \A c, d \in Content : [at |-> "exec", clean |-> FALSE, expected |-> 0, committed |-> c,
                               current |-> d] \in ApplyType
    BY <2>2, Places DEF ApplyType
  <2>. QED BY <1>1, <2>1, <2>2, <2>3, <2>4
<1>5. CASE ExecDump
  BY <1>1, <1>5, Places DEF ExecDump, ApplyType, Content
<1>6. CASE ClearApplied
  BY <1>1, <1>6, Places DEF ClearApplied, ApplyType
<1>7. CASE ExecThrows \/ RecordApplied \/ Reload
  BY <1>1, <1>7 DEF ExecThrows, RecordApplied, Reload
<1>8. CASE UNCHANGED vars
  BY <1>2, <1>8 DEF vars, work
<1>9. CASE TurnStart \/ TurnEnd \/ Statement \/ WriterStep \/ Deliver
  BY <1>2, <1>9 DEF TurnStart, TurnEnd, Statement, WriterStep, MarkDatabaseDirty, Write, Deliver
<1>10. ASSUME NEW f \in Flusher, TimerFires(f) \/ FlushAsked(f) \/ FlushStep(f) PROVE apply' \in ApplyType
  BY <1>2, <1>10
     DEF TimerFires, FlushAsked, FlushStep, DumpDatabase, WriteDump, ClearDirty, RecordBaseline
<1>. QED BY <1>3, <1>4, <1>5, <1>6, <1>7, <1>8, <1>9, <1>10 DEF Next, ApplyStep

(* So for the replays asked for and deferred.                              *)
LEMMA WaitingTyped == TypeOK /\ [Next]_vars => queue' \in Seq(Request) /\ pending' \in PendingType
<1> SUFFICES ASSUME TypeOK, [Next]_vars PROVE queue' \in Seq(Request) /\ pending' \in PendingType
  OBVIOUS
<1>1. /\ queue \in Seq(Request) /\ pending \in PendingType /\ Nothing \in PendingType
      /\ dump \in Content
  BY NoTypes DEF TypeOK, PendingType
<1>2. \A b \in BOOLEAN, c \in Content : [clean |-> b, previous |-> c] \in Request
  BY DEF Request
<1>3. pending.clean \in BOOLEAN /\ pending.previous \in Content
  BY <1>1 DEF PendingType
<1>4. CASE UNCHANGED <<queue, pending>>
  BY <1>1, <1>4
<1>5. CASE TurnEnd
  <2>1. [clean |-> pending.clean, previous |-> pending.previous] \in Request
    BY <1>2, <1>3
  <2>2. pending' = Nothing
    BY <1>5 DEF TurnEnd
  <2>3. \/ queue' = queue
        \/ queue' = Append(queue, [clean |-> pending.clean, previous |-> pending.previous])
    BY <1>5 DEF TurnEnd
  <2>. QED BY <1>1, <2>1, <2>2, <2>3
<1>6. CASE Deliver
  <2>1. [clean |-> TRUE, previous |-> dump] \in Request
    BY <1>1, <1>2
  <2>2. queue' = Append(queue, [clean |-> TRUE, previous |-> dump]) /\ pending' = pending
    BY <1>6 DEF Deliver
  <2>. QED BY <1>1, <2>1, <2>2
<1>7. CASE StartApply
  <2>1. queue # <<>>
    BY <1>7 DEF StartApply
  <2>2. PICK r \in Request : r = Head(queue)
    BY <1>1, <2>1
  <2>3. r.clean \in BOOLEAN /\ r.previous \in Content
    BY <2>2 DEF Request
  <2>4. Earliest(r) \in Content
    BY <1>3, <2>3 DEF Earliest
  <2>5. PICK b \in BOOLEAN : b = (pending.clean \/ r.clean)
    BY <1>3, <2>3
  <2>6. UNCHANGED pending \/ pending' = [on |-> TRUE, clean |-> b, previous |-> Earliest(r)]
    BY <1>7, <2>2, <2>5 DEF StartApply
  <2>7. queue' = Tail(queue)
    BY <1>7 DEF StartApply
  <2>8. Tail(queue) \in Seq(Request)
    BY <1>1, <2>1
  <2>9. [on |-> TRUE, clean |-> b, previous |-> Earliest(r)] \in PendingType
    BY <2>4 DEF PendingType
  <2>. QED BY <1>1, <2>6, <2>7, <2>8, <2>9
<1>8. CASE Reload
  <2>1. [clean |-> FALSE, previous |-> 0] \in Request
    BY <1>2 DEF Content
  <2>2. OnlyMissing \in Seq(Request)
    BY <2>1 DEF OnlyMissing
  <2>. QED BY <1>1, <1>8, <2>2 DEF Reload
<1>9. CASE UNCHANGED vars
  BY <1>4, <1>9 DEF vars, work
<1>10. CASE TurnStart \/ Statement \/ WriterStep
  BY <1>4, <1>10 DEF TurnStart, Statement, WriterStep, MarkDatabaseDirty, Write
<1>11. CASE CheckApply \/ ExecDump \/ ExecThrows \/ ClearApplied \/ RecordApplied
  BY <1>4, <1>11 DEF CheckApply, ExecDump, ClearApplied, RecordApplied, ExecThrows
<1>12. ASSUME NEW f \in Flusher, TimerFires(f) \/ FlushAsked(f) \/ FlushStep(f) PROVE UNCHANGED <<queue, pending>>
  BY <1>12 DEF TimerFires, FlushAsked, FlushStep, DumpDatabase, WriteDump, ClearDirty, RecordBaseline
<1>. QED BY <1>4, <1>5, <1>6, <1>7, <1>8, <1>9, <1>10, <1>11, <1>12 DEF Next, ApplyStep

(* So for the files and the counters.                                      *)
FilesOK ==
  /\ db \in Nat /\ dump \in Nat /\ base \in Nat /\ shared \subseteq Nat
  /\ next \in Nat /\ delivered \in Nat /\ upsets \in Nat

LEMMA FilesTyped == TypeOK /\ [Next]_vars => FilesOK'
<1> SUFFICES ASSUME TypeOK, [Next]_vars PROVE FilesOK'
  OBVIOUS
<1>1. FilesOK /\ apply.committed \in Nat /\ \A f \in Flusher : flush[f].text \in Nat
  BY DEF TypeOK, Content, FilesOK
<1>2. CASE UNCHANGED <<db, dump, base, shared, bounds>>
  BY <1>1, <1>2 DEF bounds, FilesOK
<1>3. CASE Write
  <2>1. UNCHANGED <<dump, base, shared, delivered, upsets>> /\ db' = next /\ next' = next + 1
    BY <1>3 DEF Write
  <2>. QED BY <1>1, <2>1 DEF FilesOK
<1>11. CASE Deliver
  <2>1. /\ UNCHANGED <<db, base, upsets>> /\ dump' = next /\ next' = next + 1
        /\ delivered' = delivered + 1 /\ shared' = shared \cup {next}
    BY <1>11 DEF Deliver
  <2>. QED BY <1>1, <2>1 DEF FilesOK
<1>4. CASE ExecDump \/ RecordApplied
  BY <1>1, <1>4 DEF ExecDump, RecordApplied, FilesOK, bounds, history
<1>5. CASE ExecThrows \/ Reload
  <2>1. UNCHANGED <<db, dump, base, next, delivered, shared>> /\ upsets' = upsets + 1
    BY <1>5 DEF ExecThrows, Reload, files
  <2>. QED BY <1>1, <2>1 DEF FilesOK
<1>6. ASSUME NEW f \in Flusher, WriteDump(f) \/ RecordBaseline(f) PROVE FilesOK'
  BY <1>1, <1>6 DEF WriteDump, RecordBaseline, Baseline, FilesOK, bounds, history
<1>7. CASE TurnStart \/ TurnEnd \/ Statement \/ MarkDatabaseDirty
  BY <1>2, <1>7 DEF TurnStart, TurnEnd, Statement, MarkDatabaseDirty, files, history
<1>8. CASE StartApply \/ CheckApply \/ ClearApplied
  BY <1>2, <1>8 DEF StartApply, CheckApply, ClearApplied, files, history
<1>9. ASSUME NEW f \in Flusher, TimerFires(f) \/ FlushAsked(f) \/ DumpDatabase(f) \/ ClearDirty(f)
      PROVE  UNCHANGED <<db, dump, base, shared, bounds>>
  BY <1>9 DEF TimerFires, FlushAsked, DumpDatabase, ClearDirty, files, history
<1>10. CASE UNCHANGED vars
  BY <1>2, <1>10 DEF vars, files, history
<1>. QED BY <1>2, <1>3, <1>4, <1>5, <1>6, <1>7, <1>8, <1>9, <1>10, <1>11 DEF Next, WriterStep, FlushStep, ApplyStep

(* So for the flags and the writer.                                        *)
FlagsOK ==
  /\ mark \in BOOLEAN /\ timer \in BOOLEAN /\ turn \in BOOLEAN
  /\ blurred \in BOOLEAN /\ crossed \in BOOLEAN
  /\ writer \in {"idle", "premark", "write", "write only", "mark"}
  /\ conflict \in {"none", "a dump", "changes"}

LEMMA FlagsTyped == TypeOK /\ [Next]_vars => FlagsOK'
<1> SUFFICES ASSUME TypeOK, [Next]_vars PROVE FlagsOK'
  OBVIOUS
<1>1. FlagsOK
  BY DEF TypeOK, FlagsOK
<1>2. CASE UNCHANGED vars
  BY <1>1, <1>2 DEF vars, files, work, history, FlagsOK
<1>3. CASE TurnStart \/ TurnEnd \/ Statement
  BY <1>1, <1>3 DEF TurnStart, TurnEnd, Statement, files, history, FlagsOK
<1>4. CASE MarkDatabaseDirty \/ Write
  BY <1>1, <1>4 DEF MarkDatabaseDirty, Write, Scheduled, history, FlagsOK
<1>5. CASE Deliver \/ Reload \/ ExecThrows
  BY <1>1, <1>5 DEF Deliver, Reload, ExecThrows, files, FlagsOK
<1>6. CASE StartApply \/ CheckApply \/ RecordApplied
  BY <1>1, <1>6 DEF StartApply, CheckApply, RecordApplied, files, history, FlagsOK
<1>7. CASE ExecDump \/ ClearApplied
  BY <1>1, <1>7 DEF ExecDump, ClearApplied, Scheduled, history, FlagsOK
<1>8. ASSUME NEW f \in Flusher, TimerFires(f) \/ FlushAsked(f) \/ DumpDatabase(f) \/ RecordBaseline(f)
      PROVE  FlagsOK'
  BY <1>1, <1>8 DEF TimerFires, FlushAsked, DumpDatabase, RecordBaseline, files, history, FlagsOK
<1>9. ASSUME NEW f \in Flusher, WriteDump(f) \/ ClearDirty(f) PROVE FlagsOK'
  BY <1>1, <1>9 DEF WriteDump, ClearDirty, FlagsOK
<1>. QED BY <1>2, <1>3, <1>4, <1>5, <1>6, <1>7, <1>8, <1>9 DEF Next, WriterStep, FlushStep, ApplyStep

LEMMA TypeStep == TypeOK /\ [Next]_vars => TypeOK'
<1> SUFFICES ASSUME TypeOK, [Next]_vars PROVE TypeOK'
  OBVIOUS
<1>1. /\ flush' \in [Flusher -> FlushType] /\ apply' \in ApplyType
      /\ queue' \in Seq(Request) /\ pending' \in PendingType /\ FilesOK' /\ FlagsOK'
  BY FlushTyped, ApplyTyped, WaitingTyped, FilesTyped, FlagsTyped
<1>. QED BY <1>1 DEF TypeOK, FilesOK, FlagsOK, FlushType, ApplyType, PendingType, Content

(* TypeOK: files, work and histories keep their shape, for every number of *)
(* callers of the flush and every bound.                                   *)
THEOREM TypeCorrect == Spec => []TypeOK
<1>1. Init => TypeOK
  <2> SUFFICES ASSUME Init PROVE TypeOK
    OBVIOUS
  <2>1. [clean |-> FALSE, previous |-> 0] \in Request
    BY DEF Request, Content
  <2>2. queue \in Seq(Request)
    BY <2>1 DEF Init, OnlyMissing
  <2>3. flush \in [Flusher -> FlushType] /\ apply \in ApplyType /\ pending \in PendingType
    BY NoTypes DEF Init
  <2>4. FilesOK
    BY DEF Init, FilesOK
  <2>5. FlagsOK
    BY DEF Init, FlagsOK
  <2>. QED BY <2>2, <2>3, <2>4, <2>5 DEF TypeOK, FilesOK, FlagsOK, FlushType, ApplyType, PendingType, Content
<1>. QED BY <1>1, TypeStep, PTL DEF Spec

-----------------------------------------------------------------------------
(* Contents are fresh: a statement or a peer brings a number that neither  *)
(* the database nor any dump, in its file or in a flush, has had.          *)
Known(r, s, n) == r.text < n /\ (r.at \in {"clear", "baseline"} => r.text \in s)

Fresh ==
  /\ db < next /\ 0 < next /\ dump \in shared
  /\ \A c \in shared : c < next
  /\ \A f \in Flusher : Known(flush[f], shared, next)

(* A hash that is kept, as the baseline or for a replay, is that of a      *)
(* content that was shared, and a replay that has begun holds such a dump. *)
Held ==
  /\ base \in shared \cup {0} /\ pending.previous \in shared \cup {0}
  /\ \A i \in DOMAIN queue : queue[i].previous \in shared \cup {0}
  /\ apply.expected \in shared \cup {0} /\ apply.current \in shared \cup {0}
  /\ apply.at # "idle" => apply.committed \in shared

(* What a statement does to all that the invariants speak of.              *)
Writes ==
  /\ db' = next /\ next' = next + 1
  /\ UNCHANGED <<dump, base, shared, turn, flush, apply, queue, pending, crossed, conflict>>

Still ==
  UNCHANGED <<db, dump, base, next, shared, turn, flush, apply, queue, pending, crossed, conflict>>

LEMMA WriterDoes == WriterStep => Writes \/ Still
<1>1. CASE Write
  BY <1>1 DEF Write, Writes
<1>2. CASE MarkDatabaseDirty
  BY <1>2 DEF MarkDatabaseDirty, Still, bounds, history
<1>. QED BY <1>1, <1>2 DEF WriterStep

LEMMA StillSteps == Statement \/ UNCHANGED vars => Still
  BY DEF Statement, vars, files, work, bounds, history, Still

(* What a check does to all but the conflict that is told.                 *)
Checks ==
  /\ apply.at = "check"
  /\ \/ db # 0 /\ db = apply.committed /\ apply' = [NoApply EXCEPT !.at = "baseline", !.committed = db]
     \/ /\ db # apply.committed /\ Replaceable
        /\ apply' = [NoApply EXCEPT !.at = "exec", !.committed = apply.committed, !.current = db]
     \/ db # apply.committed /\ ~Replaceable /\ apply' = NoApply
  /\ UNCHANGED <<db, dump, base, next, shared, turn, flush, queue, pending, crossed>>

LEMMA CheckDoes == CheckApply => Checks
  BY DEF CheckApply, Checks, files, bounds

(* Numbers and shared contents are only ever added.                        *)
LEMMA Grows == TypeOK /\ [Next]_vars => next <= next' /\ shared \subseteq shared'
<1> SUFFICES ASSUME TypeOK, [Next]_vars PROVE next <= next' /\ shared \subseteq shared'
  OBVIOUS
<1>1. next \in Nat
  BY DEF TypeOK
<1>2. CASE UNCHANGED <<next, shared>>
  BY <1>1, <1>2
<1>3. CASE Still
  BY <1>2, <1>3 DEF Still
<1>4. CASE Writes
  BY <1>1, <1>4 DEF Writes
<1>5. CASE Deliver
  BY <1>1, <1>5 DEF Deliver
<1>6. CASE TurnStart \/ TurnEnd \/ StartApply
  BY <1>2, <1>6 DEF TurnStart, TurnEnd, StartApply, bounds, history
<1>7. CASE Checks
  BY <1>2, <1>7 DEF Checks
<1>8. CASE ExecDump \/ ExecThrows \/ ClearApplied \/ RecordApplied \/ Reload
  BY <1>2, <1>8 DEF ExecDump, ExecThrows, ClearApplied, RecordApplied, Reload, bounds, history
<1>9. ASSUME NEW f \in Flusher, TimerFires(f) \/ FlushAsked(f) \/ FlushStep(f)
      PROVE next <= next' /\ shared \subseteq shared'
  BY <1>1, <1>9 DEF TimerFires, FlushAsked, FlushStep, DumpDatabase, WriteDump, ClearDirty,
                    RecordBaseline, bounds, history
<1>. QED
  BY <1>3, <1>4, <1>5, <1>6, <1>7, <1>8, <1>9, WriterDoes, StillSteps, CheckDoes DEF Next, ApplyStep

(* A flush holds a number that was given, and one that was shared once it  *)
(* is written.                                                             *)
LEMMA FlushKnown ==
  TypeOK /\ Fresh /\ [Next]_vars => \A f \in Flusher : Known(flush'[f], shared', next')
<1> SUFFICES ASSUME TypeOK, Fresh, [Next]_vars
             PROVE  \A f \in Flusher : Known(flush'[f], shared', next')
  OBVIOUS
<1>1. /\ next \in Nat /\ next' \in Nat /\ db \in Nat /\ shared \subseteq shared' /\ next <= next'
      /\ flush \in [Flusher -> FlushType] /\ \A f \in Flusher : flush[f].text \in Nat
  BY Grows, TypeStep DEF TypeOK, FlushType, Content
<1>2. \A f \in Flusher : Known(flush[f], shared', next')
  BY <1>1 DEF Fresh, Known
<1>3. CASE UNCHANGED flush
  BY <1>2, <1>3
<1>4. ASSUME NEW f \in Flusher, TimerFires(f) \/ FlushAsked(f)
      PROVE  \A g \in Flusher : Known(flush'[g], shared', next')
  <2>1. flush' = flush \/ flush' = [flush EXCEPT ![f].at = "dump"]
    BY <1>4 DEF TimerFires, FlushAsked
  <2>2. ASSUME NEW g \in Flusher PROVE Known([flush EXCEPT ![f].at = "dump"][g], shared', next')
    BY <1>1, <1>2, <2>2 DEF Known, FlushType
  <2>. QED BY <1>2, <2>1, <2>2
<1>5. ASSUME NEW f \in Flusher, DumpDatabase(f)
      PROVE  \A g \in Flusher : Known(flush'[g], shared', next')
  <2>1. flush' = [flush EXCEPT ![f] = [at |-> "write", text |-> db]]
    BY <1>5 DEF DumpDatabase
  <2>. QED BY <1>1, <1>2, <2>1 DEF Known, Fresh
<1>6. ASSUME NEW f \in Flusher, WriteDump(f) \/ ClearDirty(f)
      PROVE  \A g \in Flusher : Known(flush'[g], shared', next')
  <2>1. PICK a : a \in {"clear", "baseline"} /\ flush' = [flush EXCEPT ![f].at = a]
    BY <1>6 DEF WriteDump, ClearDirty
  <2>2. flush[f].text \in shared'
    BY <1>1, <1>6 DEF WriteDump, ClearDirty, Fresh, Known
  <2>3. flush'[f].text = flush[f].text /\ \A g \in Flusher \ {f} : flush'[g] = flush[g]
    BY <1>1, <2>1 DEF FlushType
  <2>. QED BY <1>2, <2>2, <2>3 DEF Known
<1>7. ASSUME NEW f \in Flusher, RecordBaseline(f)
      PROVE  \A g \in Flusher : Known(flush'[g], shared', next')
  <2>1. flush' = [flush EXCEPT ![f] = NoFlush]
    BY <1>7 DEF RecordBaseline
  <2>. QED BY <1>1, <1>2, <2>1 DEF Known, Fresh, NoFlush
<1>8. CASE Reload
  <2>1. flush' = [f \in Flusher |-> NoFlush]
    BY <1>8 DEF Reload
  <2>. QED BY <1>1, <2>1 DEF Known, Fresh, NoFlush
<1>9. CASE Still \/ Writes \/ Checks
  BY <1>3, <1>9 DEF Still, Writes, Checks
<1>10. CASE TurnStart \/ TurnEnd \/ StartApply \/ Deliver
  BY <1>3, <1>10 DEF TurnStart, TurnEnd, StartApply, Deliver
<1>11. CASE ExecDump \/ ExecThrows \/ ClearApplied \/ RecordApplied
  BY <1>3, <1>11 DEF ExecDump, ExecThrows, ClearApplied, RecordApplied
<1>. QED
  BY <1>4, <1>5, <1>6, <1>7, <1>8, <1>9, <1>10, <1>11, WriterDoes, StillSteps, CheckDoes
     DEF Next, ApplyStep, FlushStep

LEMMA FreshStep == TypeOK /\ Fresh /\ Held /\ [Next]_vars => Fresh'
<1> SUFFICES ASSUME TypeOK, Fresh, Held, [Next]_vars
             PROVE  db' < next' /\ 0 < next' /\ dump' \in shared' /\ \A c \in shared' : c < next'
  BY FlushKnown DEF Fresh
<1>1. /\ db \in Nat /\ next \in Nat /\ dump \in shared /\ shared \subseteq Nat
      /\ db < next /\ 0 < next /\ \A c \in shared : c < next
  BY DEF TypeOK, Fresh, Content
<1>2. CASE UNCHANGED <<db, dump, shared, next>>
  BY <1>1, <1>2
<1>3. CASE Writes
  BY <1>1, <1>3 DEF Writes
<1>4. CASE Deliver
  <2>1. db' = db /\ dump' = next /\ next' = next + 1 /\ shared' = shared \cup {next}
    BY <1>4 DEF Deliver
  <2>. QED BY <1>1, <2>1
<1>5. ASSUME NEW f \in Flusher, WriteDump(f)
      PROVE  db' < next' /\ 0 < next' /\ dump' \in shared' /\ \A c \in shared' : c < next'
  <2>1. flush[f].text < next
    BY DEF Fresh, Known
  <2>. QED BY <1>1, <1>5, <2>1 DEF WriteDump, bounds
<1>6. CASE ExecDump
  <2>1. apply.committed < next
    BY <1>1, <1>6 DEF ExecDump, Held
  <2>. QED BY <1>1, <1>6, <2>1 DEF ExecDump, bounds, history
<1>7. CASE Still \/ Checks
  BY <1>2, <1>7 DEF Still, Checks
<1>8. CASE TurnStart \/ TurnEnd \/ StartApply \/ ExecThrows \/ ClearApplied \/ RecordApplied \/ Reload
  BY <1>2, <1>8 DEF TurnStart, TurnEnd, StartApply, ExecThrows, ClearApplied, RecordApplied, Reload,
                    files, bounds, history
<1>9. ASSUME NEW f \in Flusher,
             TimerFires(f) \/ FlushAsked(f) \/ DumpDatabase(f) \/ ClearDirty(f) \/ RecordBaseline(f)
      PROVE  UNCHANGED <<db, dump, shared, next>>
  BY <1>9 DEF TimerFires, FlushAsked, DumpDatabase, ClearDirty, RecordBaseline, files, bounds, history
<1>. QED
  BY <1>2, <1>3, <1>4, <1>5, <1>6, <1>7, <1>8, <1>9, WriterDoes, StillSteps, CheckDoes
     DEF Next, ApplyStep, FlushStep

(* A replay that is running carries shared contents.                       *)
Carried(a, s) ==
  /\ a.expected \in s \cup {0} /\ a.current \in s \cup {0}
  /\ a.at # "idle" => a.committed \in s

LEMMA ApplyHeld == TypeOK /\ Fresh /\ Held /\ [Next]_vars => Carried(apply', shared')
<1> SUFFICES ASSUME TypeOK, Fresh, Held, [Next]_vars PROVE Carried(apply', shared')
  OBVIOUS
<1>1. /\ shared \subseteq shared' /\ dump \in shared /\ base \in shared \cup {0}
      /\ apply \in ApplyType /\ queue \in Seq(Request)
  BY Grows DEF TypeOK, Fresh, Held, ApplyType
<1>2. Carried(apply, shared')
  BY <1>1 DEF Held, Carried
<1>3. Carried(NoApply, shared')
  BY DEF Carried, NoApply
<1>4. CASE UNCHANGED apply
  BY <1>2, <1>4
<1>5. CASE StartApply
  <2>1. 1 \in DOMAIN queue /\ Head(queue) = queue[1]
    BY <1>1, <1>5 DEF StartApply
  <2>2. PICK r : r = Head(queue)
    OBVIOUS
  <2>3. r.previous \in shared \cup {0}
    BY <2>1, <2>2 DEF Held
  <2>4. PICK e \in shared \cup {0} : e = IF r.previous # 0 THEN r.previous ELSE base
    BY <1>1, <2>3
  <2>5. \/ UNCHANGED apply
        \/ apply' = [NoApply EXCEPT !.at = "check", !.clean = r.clean, !.expected = e,
                                    !.committed = dump]
    BY <1>5, <2>2, <2>4 DEF StartApply
  <2>6. Carried([NoApply EXCEPT !.at = "check", !.clean = r.clean, !.expected = e,
                                !.committed = dump], shared')
    BY <1>1, <2>4 DEF Carried, NoApply
  <2>. QED BY <1>4, <2>5, <2>6
<1>6. CASE Checks
  <2>1. apply.committed \in shared
    BY <1>6 DEF Checks, Held
  <2>2. Replaceable => db \in shared \cup {0}
    BY DEF Replaceable, Held
  <2>3. 0 \in shared' \cup {0} /\ shared' = shared
    BY <1>6 DEF Checks
  <2>4. CASE apply' = [NoApply EXCEPT !.at = "baseline", !.committed = db] /\ db = apply.committed
    BY <2>1, <2>3, <2>4 DEF Carried, NoApply
  <2>5. CASE /\ apply' = [NoApply EXCEPT !.at = "exec", !.committed = apply.committed, !.current = db]
             /\ Replaceable
    BY <2>1, <2>2, <2>3, <2>5 DEF Carried, NoApply
  <2>6. CASE apply' = NoApply
    BY <1>3, <2>6
  <2>. QED BY <1>6, <2>4, <2>5, <2>6 DEF Checks
<1>7. CASE ExecDump \/ ClearApplied
  BY <1>1, <1>2, <1>7 DEF ExecDump, ClearApplied, Carried, ApplyType
<1>8. CASE ExecThrows \/ RecordApplied \/ Reload
  BY <1>3, <1>8 DEF ExecThrows, RecordApplied, Reload
<1>9. CASE Still \/ Writes
  BY <1>4, <1>9 DEF Still, Writes
<1>10. CASE TurnStart \/ TurnEnd \/ Deliver
  BY <1>4, <1>10 DEF TurnStart, TurnEnd, Deliver
<1>11. ASSUME NEW f \in Flusher, TimerFires(f) \/ FlushAsked(f) \/ FlushStep(f) PROVE UNCHANGED apply
  BY <1>11 DEF TimerFires, FlushAsked, FlushStep, DumpDatabase, WriteDump, ClearDirty, RecordBaseline
<1>. QED
  BY <1>4, <1>5, <1>6, <1>7, <1>8, <1>9, <1>10, <1>11, WriterDoes, StillSteps, CheckDoes
     DEF Next, ApplyStep

(* So do the replays asked for and deferred.                               *)
LEMMA WaitingHeld ==
  TypeOK /\ Fresh /\ Held /\ [Next]_vars =>
    /\ pending'.previous \in shared' \cup {0}
    /\ \A i \in DOMAIN queue' : queue'[i].previous \in shared' \cup {0}
<1> DEFINE Goal == /\ pending'.previous \in shared' \cup {0}
                   /\ \A i \in DOMAIN queue' : queue'[i].previous \in shared' \cup {0}
<1> SUFFICES ASSUME TypeOK, Fresh, Held, [Next]_vars PROVE Goal
  OBVIOUS
<1>1. /\ shared \subseteq shared' /\ dump \in shared
      /\ pending.previous \in shared \cup {0} /\ Nothing.previous = 0
      /\ queue \in Seq(Request)
      /\ \A i \in DOMAIN queue : queue[i].previous \in shared \cup {0}
  BY Grows DEF TypeOK, Fresh, Held, Nothing
<1>2. ASSUME NEW r \in Request, r.previous \in shared \cup {0}, queue' = Append(queue, r)
      PROVE  \A i \in DOMAIN queue' : queue'[i].previous \in shared' \cup {0}
  <2>1. DOMAIN queue' = 1..(Len(queue) + 1) /\ DOMAIN queue = 1..Len(queue) /\ Len(queue) \in Nat
    BY <1>1, <1>2
  <2>2. ASSUME NEW i \in DOMAIN queue' PROVE queue'[i].previous \in shared' \cup {0}
    <3>1. \/ i \in DOMAIN queue /\ queue'[i] = queue[i]
          \/ i = Len(queue) + 1 /\ queue'[i] = r
      BY <1>1, <1>2, <2>1, <2>2
    <3>. QED BY <1>1, <1>2, <3>1
  <2>. QED BY <2>2
<1>3. CASE UNCHANGED <<queue, pending>>
  BY <1>1, <1>3
<1>4. CASE TurnEnd
  <2>1. PICK r \in Request : r = [clean |-> pending.clean, previous |-> pending.previous]
    BY DEF TypeOK, Request
  <2>2. queue' = queue \/ queue' = Append(queue, r)
    BY <1>4, <2>1 DEF TurnEnd
  <2>3. r.previous \in shared \cup {0} /\ pending' = Nothing
    BY <1>1, <1>4, <2>1 DEF TurnEnd
  <2>. QED BY <1>1, <1>2, <2>2, <2>3
<1>5. CASE Deliver
  <2>1. PICK r \in Request : r = [clean |-> TRUE, previous |-> dump]
    BY DEF TypeOK, Request
  <2>2. queue' = Append(queue, r) /\ pending' = pending
    BY <1>5, <2>1 DEF Deliver
  <2>. QED BY <1>1, <1>2, <2>1, <2>2
<1>6. CASE StartApply
  <2>1. 1 \in DOMAIN queue /\ Head(queue) = queue[1] /\ queue' = Tail(queue)
    BY <1>1, <1>6 DEF StartApply
  <2>2. PICK r : r = Head(queue)
    OBVIOUS
  <2>3. r.previous \in shared \cup {0} /\ Earliest(r) \in shared \cup {0}
    BY <1>1, <2>1, <2>2 DEF Earliest
  <2>4. UNCHANGED pending
        \/ pending' = [on |-> TRUE, clean |-> pending.clean \/ r.clean, previous |-> Earliest(r)]
    BY <1>6, <2>2 DEF StartApply
  <2>5. \A i \in DOMAIN queue' : i + 1 \in DOMAIN queue /\ queue'[i] = queue[i + 1]
    BY <1>1, <1>6, <2>1 DEF StartApply
  <2>. QED BY <1>1, <2>3, <2>4, <2>5
<1>7. CASE Reload
  <2>1. pending' = Nothing /\ queue' = OnlyMissing
    BY <1>7 DEF Reload
  <2>2. \A i \in DOMAIN OnlyMissing : OnlyMissing[i].previous = 0
    BY DEF OnlyMissing
  <2>. QED BY <1>1, <2>1, <2>2
<1>8. CASE Still \/ Writes \/ Checks
  BY <1>3, <1>8 DEF Still, Writes, Checks
<1>9. CASE TurnStart \/ ExecDump \/ ExecThrows \/ ClearApplied \/ RecordApplied
  BY <1>3, <1>9 DEF TurnStart, ExecDump, ExecThrows, ClearApplied, RecordApplied
<1>10. ASSUME NEW f \in Flusher, TimerFires(f) \/ FlushAsked(f) \/ FlushStep(f)
       PROVE  UNCHANGED <<queue, pending>>
  BY <1>10 DEF TimerFires, FlushAsked, FlushStep, DumpDatabase, WriteDump, ClearDirty, RecordBaseline
<1>. QED
  BY <1>3, <1>4, <1>5, <1>6, <1>7, <1>8, <1>9, <1>10, WriterDoes, StillSteps, CheckDoes
     DEF Next, ApplyStep

LEMMA HeldStep == TypeOK /\ Fresh /\ Held /\ [Next]_vars => Held'
<1> SUFFICES ASSUME TypeOK, Fresh, Held, [Next]_vars PROVE base' \in shared' \cup {0}
  BY ApplyHeld, WaitingHeld DEF Held, Carried
<1>1. shared \subseteq shared' /\ base \in shared \cup {0}
  BY Grows DEF Held
<1>2. CASE UNCHANGED base
  BY <1>1, <1>2
<1>3. ASSUME NEW f \in Flusher, RecordBaseline(f) PROVE base' \in shared' \cup {0}
  BY <1>1, <1>3 DEF RecordBaseline, Baseline, Fresh, Known
<1>4. CASE RecordApplied
  BY <1>1, <1>4 DEF RecordApplied, Held
<1>5. CASE Still \/ Writes \/ Checks
  BY <1>2, <1>5 DEF Still, Writes, Checks
<1>6. CASE TurnStart \/ TurnEnd \/ StartApply \/ Deliver \/ ExecDump \/ ExecThrows \/ ClearApplied \/ Reload
  BY <1>2, <1>6 DEF TurnStart, TurnEnd, StartApply, Deliver, ExecDump, ExecThrows, ClearApplied,
                    Reload, files
<1>7. ASSUME NEW f \in Flusher,
             TimerFires(f) \/ FlushAsked(f) \/ DumpDatabase(f) \/ WriteDump(f) \/ ClearDirty(f)
      PROVE  UNCHANGED base
  BY <1>7 DEF TimerFires, FlushAsked, DumpDatabase, WriteDump, ClearDirty, files
<1>. QED
  BY <1>2, <1>3, <1>4, <1>5, <1>6, <1>7, WriterDoes, StillSteps, CheckDoes
     DEF Next, ApplyStep, FlushStep

LEMMA ContentsInit == Init => Fresh /\ Held
<1> SUFFICES ASSUME Init PROVE Fresh /\ Held
  OBVIOUS
<1>1. /\ db \in {0, 1} /\ dump = 1 /\ base \in {0, db} /\ next = 2 /\ shared = {1}
      /\ flush = [f \in Flusher |-> NoFlush] /\ apply = NoApply /\ pending = Nothing
      /\ queue = OnlyMissing
  BY DEF Init
<1>2. \A i \in DOMAIN OnlyMissing : OnlyMissing[i].previous = 0
  BY DEF OnlyMissing
<1>3. Fresh
  BY <1>1 DEF Fresh, Known, NoFlush
<1>4. Held
  BY <1>1, <1>2 DEF Held, NoApply, Nothing
<1>. QED BY <1>3, <1>4

(* NeverClobbers (db-sync.ts:17, :411-420): whatever the flushes, the      *)
(* deliveries, the turns and the reloads do while a replay waits, what it   *)
(* replaces has been in the dump file, or is not what it had compared.      *)
THEOREM NothingClobbered == Spec => NeverClobbers
<1>1. Held /\ [Next]_vars => [ExecDump => db \in shared \cup {0} \/ db # apply.current]_vars
  BY DEF Held
<1>2. TypeOK /\ Fresh /\ Held /\ [Next]_vars => (Fresh /\ Held)'
  BY FreshStep, HeldStep
<1>. QED BY <1>1, <1>2, ContentsInit, TypeCorrect, PTL DEF Spec, NeverClobbers

-----------------------------------------------------------------------------
(* The replays that wait.  The database is behind when it has a content    *)
(* that was shared and the dump file another; a replay promises to take it *)
(* along when the hash it carries is that of the database.                 *)
Behind == db # 0 /\ db \in shared /\ db # dump

Promises(r) == r.clean /\ r.previous = db

Queued == \E i \in DOMAIN queue : Promises(queue[i])

Promised ==
  \/ Queued
  \/ pending.on /\ Promises(pending)
  \/ apply.at = "check" /\ apply.clean /\ apply.expected = db
  \/ apply.at = "exec"

(* Only a turn defers, and what is not deferred leaves no hash behind.     *)
Defers ==
  /\ pending.on => turn
  /\ ~pending.on => pending.previous = 0

(* In a turn that overtook nothing nothing waits behind a running replay,  *)
(* what waits came after the database had changed or with a dump it lacks, *)
(* and the first replay to be deferred is the one that promises.           *)
InTurn ==
  /\ apply.at # "idle" => queue = <<>> /\ ~pending.on
  /\ pending.on \/ queue # <<>> => db # dump
  /\ Behind /\ apply.at = "idle" =>
       /\ pending.on => Promises(pending)
       /\ ~pending.on => queue # <<>> /\ Promises(queue[1])

(* As long as no replay was overtaken a database that is behind is         *)
(* promised its dump, and a running replay has read the dump there is.     *)
Kept ==
  /\ Behind => Promised
  /\ apply.at # "idle" => apply.committed = dump

Plans == /\ Defers
         /\ ~crossed => Kept
         /\ ~crossed /\ turn => InTurn

LEMMA DefersStep == TypeOK /\ Defers /\ [Next]_vars => Defers'
<1> SUFFICES ASSUME TypeOK, Defers, [Next]_vars PROVE Defers'
  OBVIOUS
<1>1. pending \in PendingType /\ turn \in BOOLEAN /\ Nothing.on = FALSE /\ Nothing.previous = 0
  BY TypesOfState DEF Types, Nothing
<1>2. CASE UNCHANGED <<turn, pending>>
  BY <1>2 DEF Defers
<1>3. CASE TurnStart
  BY <1>3 DEF TurnStart, Defers
<1>4. CASE TurnEnd \/ Reload
  BY <1>1, <1>4 DEF TurnEnd, Reload, Defers
<1>5. CASE StartApply
  <2>1. \/ UNCHANGED <<turn, pending>>
        \/ turn /\ turn' = turn /\ pending'.on
    BY <1>5 DEF StartApply
  <2>. QED BY <1>2, <2>1 DEF Defers
<1>6. CASE Still \/ Writes \/ Checks
  BY <1>2, <1>6 DEF Still, Writes, Checks
<1>7. CASE Deliver \/ ExecDump \/ ExecThrows \/ ClearApplied \/ RecordApplied
  BY <1>2, <1>7 DEF Deliver, ExecDump, ExecThrows, ClearApplied, RecordApplied
<1>8. ASSUME NEW f \in Flusher, TimerFires(f) \/ FlushAsked(f) \/ FlushStep(f)
      PROVE  UNCHANGED <<turn, pending>>
  BY <1>8 DEF TimerFires, FlushAsked, FlushStep, DumpDatabase, WriteDump, ClearDirty, RecordBaseline
<1>. QED
  BY <1>2, <1>3, <1>4, <1>5, <1>6, <1>7, <1>8, WriterDoes, StillSteps, CheckDoes DEF Next, ApplyStep

(* What promises waits.                                                    *)
LEMMA PromisedWaits == TypeOK /\ Promised => Waiting
<1> SUFFICES ASSUME TypeOK, Promised PROVE Waiting
  OBVIOUS
<1>1. queue \in Seq(Request)
  BY DEF TypeOK
<1>2. CASE Queued
  <2>1. PICK i \in DOMAIN queue : Promises(queue[i])
    BY <1>2 DEF Queued
  <2>2. queue # <<>>
    BY <1>1, <2>1
  <2>. QED BY <2>2 DEF Waiting
<1>. QED BY <1>2 DEF Promised, Waiting

(* The actions that the plans do not see.                                  *)
Unplanned == UNCHANGED <<db, dump, shared, turn, apply, queue, pending, crossed>>

LEMMA UnplannedKeeps == Plans /\ Unplanned => Plans'
  BY DEF Plans, Unplanned, Defers, Kept, InTurn, Behind, Promised, Queued, Promises

LEMMA UnplannedSteps ==
  /\ Still => Unplanned
  /\ \A f \in Flusher :
       TimerFires(f) \/ FlushAsked(f) \/ DumpDatabase(f) \/ ClearDirty(f) \/ RecordBaseline(f) => Unplanned
  BY DEF Still, TimerFires, FlushAsked, DumpDatabase, ClearDirty, RecordBaseline, Unplanned,
         files, history

(* A statement leaves a content that nothing has shared.                   *)
LEMMA PlansWrite == TypeOK /\ Fresh /\ Plans /\ Writes /\ ~crossed' => Kept' /\ (turn' => InTurn')
<1> SUFFICES ASSUME TypeOK, Fresh, Plans, Writes, ~crossed' PROVE Kept' /\ (turn' => InTurn')
  OBVIOUS
<1>1. ~Behind' /\ db' # dump'
  <2>1. next \in Nat /\ shared \subseteq Nat
    BY DEF TypeOK, Content
  <2>. QED BY <2>1 DEF Writes, Behind, Fresh
<1>2. Kept'
  BY <1>1 DEF Plans, Kept, Writes
<1>3. turn' => InTurn'
  BY <1>1 DEF Plans, InTurn, Writes
<1>. QED BY <1>2, <1>3

LEMMA PlansTurnStart ==
  TypeOK /\ Plans /\ TurnStart /\ ~crossed' => Kept' /\ (turn' => InTurn')
<1> SUFFICES ASSUME TypeOK, Plans, TurnStart, ~crossed' PROVE Kept' /\ InTurn'
  OBVIOUS
<1>1. /\ ~crossed /\ queue = <<>> /\ ~pending.on /\ ~turn
      /\ UNCHANGED <<db, dump, shared, apply, queue, pending>>
  BY DEF TurnStart, Plans, Defers, files
<1>2. Kept' /\ Kept
  BY <1>1 DEF Plans, Kept, Behind, Promised, Queued, Promises
<1>3. ~Queued
  BY <1>1 DEF Queued
<1>4. Behind => apply.at # "idle"
  BY <1>1, <1>2, <1>3 DEF Kept, Promised
<1>5. InTurn'
  BY <1>1, <1>4 DEF InTurn, Behind
<1>. QED BY <1>2, <1>5

(* What a turn deferred is asked for again.                                *)
LEMMA PlansTurnEnd == TypeOK /\ Plans /\ TurnEnd /\ ~crossed' => Kept' /\ (turn' => InTurn')
<1> SUFFICES ASSUME TypeOK, Plans, TurnEnd, ~crossed' PROVE Kept'
  BY DEF TurnEnd
<1>1. /\ ~crossed /\ UNCHANGED <<db, dump, shared, apply>> /\ Kept
      /\ pending \in PendingType /\ queue \in Seq(Request)
  BY TypesOfState DEF TurnEnd, Plans, files, history, Types
<1>2. PICK r \in Request : r = [clean |-> pending.clean, previous |-> pending.previous]
  BY <1>1 DEF Request, PendingType
<1>3. queue' = IF pending.on THEN Append(queue, r) ELSE queue
  BY <1>2 DEF TurnEnd
<1>4. Queued => Queued'
  <2>1. ASSUME NEW i \in DOMAIN queue PROVE i \in DOMAIN queue' /\ queue'[i] = queue[i]
    BY <1>1, <1>3
  <2>. QED BY <1>1, <2>1 DEF Queued, Promises
<1>5. pending.on /\ Promises(pending) => Queued'
  <2> SUFFICES ASSUME pending.on, Promises(pending) PROVE Queued'
    OBVIOUS
  <2>1. Len(queue) + 1 \in DOMAIN queue' /\ queue'[Len(queue) + 1] = r
    BY <1>1, <1>3
  <2>2. r.clean /\ r.previous = db'
    BY <1>1, <1>2 DEF Promises
  <2>. QED BY <2>1, <2>2 DEF Queued, Promises
<1>. QED BY <1>1, <1>4, <1>5 DEF Kept, Behind, Promised

(* A flush that overtakes nothing writes what the database has, or has a   *)
(* database before it that was never shared.                               *)
LEMMA PlansWriteDump ==
  ASSUME TypeOK, Plans, NEW f \in Flusher, WriteDump(f), ~crossed'
  PROVE  Kept' /\ (turn' => InTurn')
<1>1. /\ ~crossed /\ ~Waiting /\ (db = flush[f].text \/ db \notin shared)
      /\ dump' = flush[f].text /\ shared' = shared \cup {flush[f].text}
      /\ UNCHANGED <<db, turn, apply, queue, pending>>
  BY DEF WriteDump
<1>2. ~Behind'
  BY <1>1 DEF Behind
<1>3. apply.at = "idle" /\ queue = <<>> /\ ~pending.on
  BY <1>1 DEF Waiting
<1>. QED BY <1>1, <1>2, <1>3 DEF Kept, InTurn

(* A delivered dump brings the hash of the one it replaces.                *)
LEMMA PlansDeliver ==
  TypeOK /\ Fresh /\ Plans /\ Deliver /\ ~crossed' => Kept' /\ (turn' => InTurn')
<1> SUFFICES ASSUME TypeOK, Fresh, Plans, Deliver, ~crossed' PROVE Kept' /\ (turn' => InTurn')
  OBVIOUS
<1>1. /\ ~crossed /\ apply.at = "idle" /\ dump' = next /\ shared' = shared \cup {next}
      /\ UNCHANGED <<db, turn, apply, pending>>
  BY DEF Deliver
<1>2. /\ Kept /\ (turn => InTurn) /\ queue \in Seq(Request) /\ db \in Nat /\ next \in Nat
      /\ db < next /\ pending \in PendingType /\ dump \in Nat
  BY <1>1, TypesOfState DEF Plans, Types, Fresh
<1>3. PICK r \in Request : r = [clean |-> TRUE, previous |-> dump]
  BY <1>2 DEF Request, Content
<1>4. queue' = Append(queue, r)
  BY <1>3 DEF Deliver
<1>5. /\ Len(queue) + 1 \in DOMAIN queue' /\ queue'[Len(queue) + 1] = r /\ queue' # <<>>
      /\ \A i \in DOMAIN queue : i \in DOMAIN queue' /\ queue'[i] = queue[i]
      /\ queue # <<>> => 1 \in DOMAIN queue
      /\ queue = <<>> => Len(queue) + 1 = 1
  BY <1>2, <1>4
<1>6. db' # dump' /\ (Behind' => db # 0 /\ db \in shared)
  BY <1>1, <1>2 DEF Behind
<1>7. CASE db = dump
  <2>1. Promises(r)'
    BY <1>1, <1>3, <1>7 DEF Promises
  <2>2. Queued'
    BY <1>1, <1>3, <1>5, <1>7 DEF Queued, Promises
  <2>3. Kept'
    BY <1>1, <2>2 DEF Kept, Promised
  <2>4. turn => ~pending.on /\ queue = <<>>
    BY <1>2, <1>7 DEF InTurn
  <2>5. turn' => InTurn'
    BY <1>1, <1>3, <1>5, <1>6, <1>7, <2>4 DEF InTurn, Promises
  <2>. QED BY <2>3, <2>5
<1>8. CASE db # dump
  <2>1. Behind' => Behind
    BY <1>6, <1>8 DEF Behind
  <2>2. Queued => Queued'
    BY <1>1, <1>5 DEF Queued, Promises
  <2>3. Promised => Promised'
    BY <1>1, <2>2 DEF Promised, Promises
  <2>4. Kept'
    BY <1>1, <1>2, <2>1, <2>3 DEF Kept
  <2>5. turn /\ Behind => /\ pending.on => Promises(pending)
                          /\ ~pending.on => queue # <<>> /\ Promises(queue[1])
    BY <1>1, <1>2 DEF InTurn
  <2>6. turn' => InTurn'
    BY <1>1, <1>5, <1>6, <2>1, <2>5 DEF InTurn, Promises
  <2>. QED BY <2>4, <2>6
<1>. QED BY <1>7, <1>8

(* In a turn the first replay in the queue is merged behind what was       *)
(* deferred; outside of one it begins, and reads the dump there is.        *)
LEMMA PlansStartApply ==
  TypeOK /\ Plans /\ StartApply /\ ~crossed' => Kept' /\ (turn' => InTurn')
<1> SUFFICES ASSUME TypeOK, Plans, StartApply, ~crossed' PROVE Kept' /\ (turn' => InTurn')
  OBVIOUS
<1>1. /\ ~crossed /\ apply.at = "idle" /\ queue # <<>> /\ queue' = Tail(queue)
      /\ UNCHANGED <<db, dump, shared, turn>>
  BY DEF StartApply, files, history
<1>2. /\ Kept /\ (turn => InTurn) /\ Defers /\ queue \in Seq(Request) /\ pending \in PendingType
      /\ db \in Nat
  BY <1>1, TypesOfState DEF Plans, Types
<1>3. PICK r \in Request : r = Head(queue)
  BY <1>1, <1>2
<1>4. r.clean \in BOOLEAN /\ pending.clean \in BOOLEAN /\ r = queue[1]
  BY <1>1, <1>2, <1>3 DEF Request, PendingType
<1>5. Behind' <=> Behind
  BY <1>1 DEF Behind
<1>6. CASE turn
  <2>1. CASE pending' = [on |-> TRUE, clean |-> pending.clean \/ r.clean, previous |-> Earliest(r)]
             /\ UNCHANGED apply
    <3>1. Behind => \/ pending.clean /\ pending.previous = db
                    \/ pending.previous = 0 /\ r.clean /\ r.previous = db
      BY <1>1, <1>2, <1>4, <1>6 DEF InTurn, Defers, Promises
    <3>2. Behind => (pending.clean \/ r.clean) /\ Earliest(r) = db
      BY <1>2, <3>1 DEF Earliest, Behind
    <3>4. pending'.on /\ apply'.at = "idle" /\ db' # dump'
      BY <1>1, <1>2, <1>6, <2>1 DEF InTurn
    <3>5. Kept'
      BY <1>5, <3>2, <3>4, <1>1, <2>1 DEF Kept, Promised, Promises
    <3>6. InTurn'
      BY <1>5, <3>2, <3>4, <1>1, <2>1 DEF InTurn, Promises
    <3>. QED BY <3>5, <3>6
  <2>2. pending' = [on |-> TRUE, clean |-> pending.clean \/ r.clean, previous |-> Earliest(r)]
        /\ UNCHANGED apply
    BY <1>3, <1>6 DEF StartApply
  <2>. QED BY <2>1, <2>2
<1>7. CASE ~turn
  <2>1. PICK e : e = IF r.previous # 0 THEN r.previous ELSE base
    OBVIOUS
  <2>2. /\ apply' = [NoApply EXCEPT !.at = "check", !.clean = r.clean, !.expected = e,
                                    !.committed = dump]
        /\ UNCHANGED pending
    BY <1>3, <1>7, <2>1 DEF StartApply
  <2>3. /\ apply'.at = "check" /\ apply'.clean = r.clean /\ apply'.expected = e
        /\ apply'.committed = dump
    BY <2>2 DEF NoApply
  <2>4. Behind => Queued
    BY <1>1, <1>2, <1>7 DEF Kept, Promised, Defers
  <2>5. ASSUME NEW i \in DOMAIN queue, Promises(queue[i]), Behind PROVE Promised'
    <3>1. CASE i = 1
      BY <1>1, <1>4, <2>1, <2>3, <2>5, <3>1 DEF Promises, Promised, Behind
    <3>2. CASE i # 1
      <4>1. i - 1 \in DOMAIN queue' /\ queue'[i - 1] = queue[i]
        BY <1>1, <1>2, <2>5, <3>2
      <4>2. Queued'
        BY <1>1, <2>5, <4>1 DEF Queued, Promises
      <4>. QED BY <4>2 DEF Promised
    <3>. QED BY <3>1, <3>2
  <2>6. Kept'
    BY <1>1, <1>5, <2>3, <2>4, <2>5 DEF Kept, Queued
  <2>. QED BY <1>1, <1>7, <2>6
<1>. QED BY <1>6, <1>7

(* A check that finds the hash of the database goes on to the replay.      *)
LEMMA PlansCheck == TypeOK /\ Plans /\ Checks /\ ~crossed' => Kept' /\ (turn' => InTurn')
<1> SUFFICES ASSUME TypeOK, Plans, Checks, ~crossed' PROVE Kept' /\ (turn' => InTurn')
  OBVIOUS
<1>1. /\ ~crossed /\ apply.at = "check" /\ apply.committed = dump /\ Kept /\ (turn => InTurn)
      /\ UNCHANGED <<db, dump, shared, turn, queue, pending>>
  BY DEF Checks, Plans, Kept
<1>2. Behind' <=> Behind
  BY <1>1 DEF Behind
<1>3. /\ Behind /\ apply'.at # "exec" => Queued \/ (pending.on /\ Promises(pending))
      /\ apply'.at # "idle" => apply'.committed = dump
  <2>1. CASE /\ db = apply.committed
             /\ apply' = [NoApply EXCEPT !.at = "baseline", !.committed = db]
    BY <1>1, <2>1 DEF NoApply, Behind
  <2>2. CASE apply' = [NoApply EXCEPT !.at = "exec", !.committed = apply.committed, !.current = db]
    BY <1>1, <2>2 DEF NoApply
  <2>3. CASE apply' = NoApply /\ ~Replaceable
    BY <1>1, <2>3 DEF NoApply, Kept, Promised, Replaceable, Behind
  <2>. QED BY <2>1, <2>2, <2>3 DEF Checks
<1>4. Queued' <=> Queued
  BY <1>1 DEF Queued, Promises
<1>5. Kept'
  BY <1>1, <1>2, <1>3, <1>4 DEF Kept, Promised, Promises
<1>6. turn => queue = <<>> /\ ~pending.on /\ ~Queued
  BY <1>1 DEF InTurn, Queued
<1>7. turn' => InTurn'
  BY <1>1, <1>2, <1>3, <1>6 DEF InTurn
<1>. QED BY <1>5, <1>7

(* The replay ends in step with the dump.                                  *)
LEMMA PlansReplay ==
  TypeOK /\ Plans /\ (ExecDump \/ ClearApplied \/ RecordApplied) /\ ~crossed' =>
    Kept' /\ (turn' => InTurn')
<1> SUFFICES ASSUME TypeOK, Plans, ExecDump \/ ClearApplied \/ RecordApplied, ~crossed'
             PROVE  Kept' /\ (turn' => InTurn')
  OBVIOUS
<1>1. /\ ~crossed /\ apply.at \in {"exec", "clear", "baseline"}
      /\ UNCHANGED <<dump, shared, turn, queue, pending>>
      /\ apply'.at # "idle" => apply'.committed = apply.committed
      /\ apply.at = "exec" => db' = apply.committed
      /\ apply.at # "exec" => UNCHANGED db
  <2>1. CASE ExecDump
    BY <2>1, TypesOfState DEF ExecDump, history, Types, ApplyType
  <2>2. CASE ClearApplied
    BY <2>2, TypesOfState DEF ClearApplied, Types, ApplyType
  <2>3. CASE RecordApplied
    BY <2>3 DEF RecordApplied, history, NoApply
  <2>. QED BY <2>1, <2>2, <2>3
<1>2. apply.committed = dump /\ Kept /\ (turn => InTurn)
  BY <1>1 DEF Plans, Kept
<1>3. Behind' => Behind /\ apply.at # "exec" /\ UNCHANGED db
  BY <1>1, <1>2 DEF Behind
<1>4. Behind' => Queued \/ (pending.on /\ Promises(pending))
  BY <1>1, <1>2, <1>3 DEF Kept, Promised
<1>5. Behind' => Promised'
  BY <1>1, <1>3, <1>4 DEF Promised, Queued, Promises
<1>6. turn => queue = <<>> /\ ~pending.on /\ ~Queued
  BY <1>1, <1>2 DEF InTurn, Queued
<1>. QED BY <1>1, <1>2, <1>4, <1>5, <1>6 DEF Kept, InTurn

LEMMA PlansReload == TypeOK /\ Plans /\ Reload /\ ~crossed' => Kept' /\ (turn' => InTurn')
<1> SUFFICES ASSUME TypeOK, Plans, Reload, ~crossed' PROVE Kept'
  BY DEF Reload
<1>1. ~crossed /\ ~Waiting /\ apply' = NoApply /\ UNCHANGED <<db, dump, shared>>
  BY DEF Reload, files
<1>2. ~Behind
  BY <1>1, PromisedWaits DEF Plans, Kept
<1>. QED BY <1>1, <1>2 DEF Kept, Behind, NoApply

LEMMA PlansStep == TypeOK /\ Fresh /\ Plans /\ [Next]_vars => Plans'
<1> SUFFICES ASSUME TypeOK, Fresh, Plans, [Next]_vars PROVE Plans'
  OBVIOUS
<1>1. Defers'
  BY DefersStep DEF Plans
<1> DEFINE Goal == ~crossed' => Kept' /\ (turn' => InTurn')
<1>2. SUFFICES Goal
  BY <1>1 DEF Plans
<1> HIDE DEF Goal
<1>3. CASE Unplanned
  BY <1>3, UnplannedKeeps DEF Goal, Plans
<1>4. CASE Writes
  BY <1>4, PlansWrite DEF Goal
<1>5. CASE TurnStart
  BY <1>5, PlansTurnStart DEF Goal
<1>6. CASE TurnEnd
  BY <1>6, PlansTurnEnd DEF Goal
<1>7. ASSUME NEW f \in Flusher, WriteDump(f) PROVE Goal
  BY <1>7, PlansWriteDump DEF Goal
<1>8. CASE Deliver
  BY <1>8, PlansDeliver DEF Goal
<1>9. CASE StartApply
  BY <1>9, PlansStartApply DEF Goal
<1>10. CASE Checks
  BY <1>10, PlansCheck DEF Goal
<1>11. CASE ExecDump \/ ClearApplied \/ RecordApplied
  BY <1>11, PlansReplay DEF Goal
<1>12. CASE ExecThrows
  BY <1>12 DEF ExecThrows, Goal
<1>13. CASE Reload
  BY <1>13, PlansReload DEF Goal
<1>. QED
  BY <1>3, <1>4, <1>5, <1>6, <1>7, <1>8, <1>9, <1>10, <1>11, <1>12, <1>13, WriterDoes, StillSteps,
     CheckDoes, UnplannedSteps DEF Next, ApplyStep, FlushStep

LEMMA PlansInit == Init => Plans
<1> SUFFICES ASSUME Init PROVE Plans
  OBVIOUS
<1>1. /\ db \in {0, 1} /\ dump = 1 /\ turn = FALSE /\ apply = NoApply /\ pending = Nothing
  BY DEF Init
<1>. QED BY <1>1 DEF Plans, Defers, Kept, Behind, NoApply, Nothing

-----------------------------------------------------------------------------
(* What was told.  A replay that goes on has told no conflict, and one     *)
(* refused over a dump waits to be tried again.                            *)
OverADump == conflict = "a dump"

Told ==
  /\ OverADump /\ ~crossed => Waiting
  /\ apply.at \in {"exec", "clear", "baseline"} => ~OverADump

(* What a check tells.                                                     *)
LEMMA CheckTells ==
  CheckApply => \/ apply'.at \in {"exec", "baseline"} /\ ~OverADump'
                \/ apply' = NoApply /\ ~Replaceable /\ ~OverADump'
                \/ /\ apply' = NoApply /\ ~Replaceable /\ db # apply.committed
                   /\ apply.clean /\ db \in shared
<1> SUFFICES ASSUME CheckApply
             PROVE  \/ apply'.at \in {"exec", "baseline"} /\ ~OverADump'
                    \/ apply' = NoApply /\ ~Replaceable /\ ~OverADump'
                    \/ /\ apply' = NoApply /\ ~Replaceable /\ db # apply.committed
                       /\ apply.clean /\ db \in shared
  OBVIOUS
<1>1. "none" # "a dump" /\ "changes" # "a dump"
  OBVIOUS
<1>2. CASE conflict' = "none" /\ apply' = [NoApply EXCEPT !.at = "baseline", !.committed = db]
  <2>1. apply'.at = "baseline"
    BY <1>2 DEF NoApply
  <2>. QED BY <1>1, <1>2, <2>1 DEF OverADump
<1>3. CASE /\ conflict' = "none"
           /\ apply' = [NoApply EXCEPT !.at = "exec", !.committed = apply.committed, !.current = db]
  <2>1. apply'.at = "exec"
    BY <1>3 DEF NoApply
  <2>. QED BY <1>1, <1>3, <2>1 DEF OverADump
<1>4. CASE /\ apply' = NoApply /\ ~Replaceable /\ db # apply.committed
           /\ conflict' = IF apply.clean /\ db \in shared THEN "a dump" ELSE "changes"
  BY <1>1, <1>4 DEF OverADump
<1>. QED BY <1>2, <1>3, <1>4 DEF CheckApply

LEMMA ToldCheck == TypeOK /\ Plans /\ Told /\ CheckApply => Told'
<1> SUFFICES ASSUME TypeOK, Plans, Told, CheckApply PROVE Told'
  OBVIOUS
<1>1. /\ apply.at = "check" /\ UNCHANGED <<db, dump, shared, queue, pending, crossed>>
  BY CheckDoes DEF Checks
<1>2. CASE ~OverADump'
  BY <1>2 DEF Told
<1>3. CASE /\ apply' = NoApply /\ ~Replaceable /\ db # apply.committed
           /\ apply.clean /\ db \in shared
  <2>1. SUFFICES ASSUME ~crossed PROVE Waiting'
    BY <1>1, <1>3 DEF Told, NoApply
  <2>2. Behind /\ Promised
    BY <1>1, <1>3, <2>1 DEF Plans, Kept, Behind, Replaceable
  <2>3. Queued \/ pending.on
    BY <1>1, <1>3, <2>2 DEF Promised, Replaceable
  <2>4. queue \in Seq(Request)
    BY DEF TypeOK
  <2>5. Queued => queue # <<>>
    BY <2>4 DEF Queued
  <2>. QED BY <1>1, <2>3, <2>5 DEF Waiting
<1>. QED BY <1>2, <1>3, CheckTells

LEMMA ToldStep == TypeOK /\ Plans /\ Told /\ [Next]_vars => Told'
<1> SUFFICES ASSUME TypeOK, Plans, Told, [Next]_vars PROVE Told'
  OBVIOUS
<1>1. /\ queue \in Seq(Request) /\ apply \in ApplyType /\ NoApply.at = "idle"
  BY TypesOfState DEF Types, NoApply
<1>2. CASE UNCHANGED <<apply, queue, pending, crossed, conflict>>
  BY <1>2 DEF Told, Waiting, OverADump
<1>3. CASE UNCHANGED <<apply, queue, pending, conflict>> /\ crossed' = TRUE
  BY <1>3 DEF Told, OverADump
<1>4. CASE TurnStart
  <2>1. UNCHANGED <<apply, queue, pending, conflict>> /\ (crossed => crossed')
    BY <1>4 DEF TurnStart
  <2>. QED BY <2>1 DEF Told, Waiting, OverADump
<1>5. CASE TurnEnd
  <2>1. /\ UNCHANGED <<apply, conflict, crossed>> /\ (pending.on \/ queue # <<>> => queue' # <<>>)
    BY <1>1, <1>5 DEF TurnEnd, history
  <2>. QED BY <2>1 DEF Told, Waiting, OverADump
<1>6. ASSUME NEW f \in Flusher, WriteDump(f) PROVE Told'
  <2>1. UNCHANGED <<apply, queue, pending, conflict>> /\ (crossed => crossed')
    BY <1>6 DEF WriteDump
  <2>. QED BY <2>1 DEF Told, Waiting, OverADump
<1>7. CASE Deliver
  <2>1. UNCHANGED <<apply, pending, conflict>> /\ queue' # <<>>
    BY <1>1, <1>7 DEF Deliver
  <2>. QED BY <2>1 DEF Told, Waiting, OverADump
<1>8. CASE StartApply
  <2>1. UNCHANGED <<conflict, crossed>> /\ (pending'.on \/ apply'.at = "check")
    <3>1. CASE turn
      BY <1>8, <3>1 DEF StartApply, history
    <3>2. CASE ~turn
      BY <1>8, <3>2 DEF StartApply, history, NoApply
    <3>. QED BY <3>1, <3>2
  <2>2. apply'.at \notin {"exec", "clear", "baseline"}
    BY <1>8 DEF StartApply, NoApply
  <2>. QED BY <2>1, <2>2 DEF Told, Waiting, OverADump
<1>9. CASE CheckApply
  BY <1>9, ToldCheck
<1>10. CASE ExecDump \/ ClearApplied
  <2>1. /\ apply.at \in {"exec", "clear", "baseline"} /\ UNCHANGED conflict
    BY <1>10 DEF ExecDump, ClearApplied, history
  <2>. QED BY <2>1 DEF Told, OverADump
<1>11. CASE RecordApplied
  <2>1. apply.at \in {"exec", "clear", "baseline"} /\ UNCHANGED conflict
    BY <1>11 DEF RecordApplied, history
  <2>. QED BY <2>1 DEF Told, OverADump
<1>12. CASE ExecThrows
  <2>1. crossed' = TRUE /\ apply'.at = "idle"
    BY <1>1, <1>12 DEF ExecThrows
  <2>. QED BY <2>1 DEF Told
<1>13. CASE Reload
  <2>1. apply'.at = "idle" /\ UNCHANGED conflict /\ (crossed' <=> crossed \/ Waiting)
    BY <1>1, <1>13, TypeStep DEF Reload
  <2>. QED BY <2>1 DEF Told, OverADump
<1>14. CASE Still \/ Writes
  BY <1>2, <1>14 DEF Still, Writes
<1>15. ASSUME NEW f \in Flusher,
              TimerFires(f) \/ FlushAsked(f) \/ DumpDatabase(f) \/ ClearDirty(f) \/ RecordBaseline(f)
       PROVE  UNCHANGED <<apply, queue, pending, crossed, conflict>>
  BY <1>15 DEF TimerFires, FlushAsked, DumpDatabase, ClearDirty, RecordBaseline, history
<1>. QED
  BY <1>2, <1>4, <1>5, <1>6, <1>7, <1>8, <1>9, <1>10, <1>11, <1>12, <1>13, <1>14, <1>15, WriterDoes,
     StillSteps DEF Next, ApplyStep, FlushStep

(* RefusesOnlyChanges (db-sync.ts:411-420, agent-worker.ts:121-145): when  *)
(* nothing waits and nothing was overtaken, the last replay was not refused *)
(* over a database that has the content of a dump.                         *)
THEOREM OnlyChangesRefuse == Spec => []RefusesOnlyChanges
<1>1. Init => Told
  <2> SUFFICES ASSUME Init PROVE Told
    OBVIOUS
  <2>1. "none" # "a dump"
    OBVIOUS
  <2>2. ~OverADump
    BY <2>1 DEF Init, OverADump
  <2>. QED BY <2>2 DEF Told
<1>2. TypeOK /\ (Fresh /\ Held /\ Plans /\ Told) /\ [Next]_vars => (Fresh /\ Held /\ Plans /\ Told)'
  BY FreshStep, HeldStep, PlansStep, ToldStep
<1>3. Told => RefusesOnlyChanges
  BY DEF Told, RefusesOnlyChanges, OverADump
<1>. QED BY <1>1, <1>2, <1>3, ContentsInit, PlansInit, TypeCorrect, PTL DEF Spec
=============================================================================
