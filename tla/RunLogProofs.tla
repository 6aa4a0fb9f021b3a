----------------------------- MODULE RunLogProofs -----------------------------
(***************************************************************************)
(* Theorems about the run log and about the desktop's copy of it, for every*)
(* set of sessions and every bound:                                        *)
(*   RowsNeverCollide     no two rows of the table share a number          *)
(*   TurnsAreBounded      a marker bounds the rows of its turn             *)
(*   PausedRunsStayWhole  a paused run can be resumed from the table       *)
(*   CopyHasNoHole        the copy has the rows up to its cursor           *)
(***************************************************************************)
EXTENDS PeerLog, SequenceTheorems, FiniteSetTheorems, WellFoundedInduction, TLAPS

-----------------------------------------------------------------------------
(* What every reachable state is like: runs that began, rows of turns that *)
(* were taken, and memory that holds rows of running turns only.           *)
Runs == [session : Session, since : Nat \ {0}]
EventRow == [kind : {"event"}, run : Runs, turn : Nat \ {0}, no : Nat \ {0}]
LoggedRow == [seq : Nat \ {0}, of : EventRow]
TurnState == [no : Nat, phase : {"idle", "running", "pausing", "ending"},
              run : Runs \cup {NoRun}, next : Runs \cup {NoRun}]

Begun == {r \in Runs : r.since <= turn[r.session].no}
Events(table) == {c \in table : c.of.kind = "event"}
EndMarks(table) == {c \in table : c.of.kind = "web_turn_end"}
Bounded(table) == \E b \in Nat : \A c \in table : c.seq <= b

TypeInv ==
  /\ cursor \in Nat /\ logged \in Nat
  /\ waiting \in [Session -> Seq(LoggedRow)]
  /\ turn \in [Session -> TurnState]
  /\ \/ task = NoTask
     \/ \E s \in Session : task = EndMark(s)
     \/ \E s \in Session, rows \in Seq(LoggedRow) : rows # <<>> /\ task = Flush(s, rows)
  /\ \A c \in calls : c.seq \in Nat \ {0}
  /\ Bounded(calls)

(* A turn that runs has a run of its session, and the continuation is that *)
(* run or none.                                                            *)
TurnInv ==
  \A s \in Session :
    /\ turn[s].run # NoRun => turn[s].run \in Begun /\ turn[s].run.session = s
    /\ turn[s].next # NoRun => turn[s].next = turn[s].run
    /\ turn[s].phase # "idle" => turn[s].run # NoRun /\ turn[s].no > 0
    /\ turn[s].phase = "idle" => waiting[s] = <<>>
    /\ task = EndMark(s) => turn[s].phase = "ending" /\ waiting[s] = <<>>

(* Rows in memory: of the turn that runs, in the order they were logged.   *)
RowsFit(rows, s) ==
  /\ \A k \in DOMAIN rows : /\ rows[k].of.run = turn[s].run
                            /\ rows[k].of.turn = turn[s].no
                            /\ rows[k].of.no <= logged
  /\ \A j, k \in DOMAIN rows :
       j < k => rows[j].seq < rows[k].seq /\ rows[j].of.no < rows[k].of.no

MemoryInv ==
  /\ \A s \in Session : /\ RowsFit(waiting[s], s)
                        /\ \A k \in DOMAIN waiting[s] : waiting[s][k].seq <= cursor
  /\ task.op = "flush" =>
       /\ turn[task.session].phase # "idle"
       /\ RowsFit(task.rows, task.session)
       /\ \A k \in DOMAIN task.rows : \A c \in calls : c.seq < task.rows[k].seq

(* Rows in the table: their turns were taken, and the rows of a session    *)
(* that are still in memory come after all of them.                        *)
TableInv ==
  \A c \in Events(calls) :
    LET s == c.of.run.session
    IN /\ c.of \in EventRow
       /\ c.of.run \in Begun /\ c.seq <= cursor
       /\ c.of.turn <= turn[s].no /\ c.of.no <= logged
       /\ c.of.turn = turn[s].no /\ turn[s].phase # "idle" => c.of.run = turn[s].run
       /\ \A k \in DOMAIN waiting[s] : c.of.no < waiting[s][k].of.no
       /\ task.op = "flush" =>
            (task.session = s => \A k \in DOMAIN task.rows : c.of.no < task.rows[k].of.no)

OrderInv ==
  /\ \A c, d \in Events(calls) :
       c.of.run = d.of.run /\ c.seq < d.seq => c.of.no < d.of.no
  /\ task.op = "flush" =>
       \A j \in DOMAIN task.rows : \A k \in DOMAIN waiting[task.session] :
         task.rows[j].of.no < waiting[task.session][k].of.no

(* Markers: the later of two is of a later turn; the rows of a run are     *)
(* before the marker of their turn and after those of earlier turns; and a *)
(* run that ends a turn is not left for another one and taken up again.    *)
MarkOk(m) ==
  LET s == m.of.run.session
  IN /\ m.of.run \in Begun /\ m.of.turn \in Nat /\ m.of.from \in Nat /\ m.of.to \in Nat
     /\ m.of.to < m.seq /\ m.seq <= cursor
     /\ m.of.turn <= turn[s].no
     /\ turn[s].phase # "idle" /\ task # EndMark(s) => m.of.turn < turn[s].no

MarkInv ==
  /\ \A m \in EndMarks(calls) : MarkOk(m)
  /\ \A m, n \in EndMarks(calls) :
       m.of.run.session = n.of.run.session /\ m.seq < n.seq => m.of.turn < n.of.turn
  /\ \A m, n \in EndMarks(calls) :
       (m.of.run.session = n.of.run.session /\ m.seq < n.seq) =>
         (m.of.run = turn[m.of.run.session].run => n.of.run = m.of.run)
  /\ \A m, n, l \in EndMarks(calls) :
       (m.of.run.session = n.of.run.session /\ m.seq < n.seq /\ n.seq < l.seq) =>
         (m.of.run = l.of.run => n.of.run = m.of.run)

BoundInv ==
  /\ \A m \in EndMarks(calls), c \in Events(calls) :
       m.of.run.session = c.of.run.session /\ m.of.turn = c.of.turn => m.of.run = c.of.run
  /\ \A m \in EndMarks(calls), c \in Events(calls) :
       m.of.run = c.of.run => IF c.of.turn <= m.of.turn THEN c.seq <= m.of.to
                                                        ELSE c.seq > m.seq
  /\ TurnBounds

(* Every row that a run may replay is in the table.                        *)
Whole(run) == \A r \in written : r.run = run => \E c \in calls : c.of = r
WholeInv ==
  /\ \A r \in written : r \in EventRow /\ r.run \in Begun
  /\ \A run \in (paused \cup InUse) \ hit : Whole(run)

LogInv ==
  /\ TypeInv /\ TurnInv /\ MemoryInv /\ TableInv /\ OrderInv
  /\ NumbersAreUnique /\ MarkInv /\ BoundInv /\ WholeInv

-----------------------------------------------------------------------------
(* The greatest number of a table: it exists, as the numbers are bounded.  *)
LEMMA MaxSeqOf ==
  ASSUME NEW rows, \A r \in rows : r.seq \in Nat, Bounded(rows)
  PROVE  /\ MaxSeq(rows) \in Nat
         /\ \A r \in rows : r.seq <= MaxSeq(rows)
         /\ rows # {} => \E r \in rows : r.seq = MaxSeq(rows)
<1>1. CASE rows = {}
  BY <1>1 DEF MaxSeq
<1>2. CASE rows # {}
  <2>1. PICK b \in Nat : \A r \in rows : r.seq <= b
    BY DEF Bounded
  <2>. DEFINE Gaps == {b - r.seq : r \in rows}
  <2>2. Gaps \subseteq Nat /\ Gaps # {}
    BY <1>2, <2>1
  <2>. HIDE DEF Gaps
  <2>3. PICK g \in Gaps : \A h \in Gaps : ~(<<h, g>> \in OpToRel(<, Nat))
    BY <2>2, WFMin, NatLessThanWellFounded
  <2>4. \A h \in Gaps : ~(h < g)
    BY <2>2, <2>3 DEF OpToRel
  <2>5. PICK r \in rows : g = b - r.seq
    BY DEF Gaps
  <2>6. \A q \in rows : q.seq <= r.seq
    <3>1. SUFFICES ASSUME NEW q \in rows PROVE q.seq <= r.seq
      OBVIOUS
    <3>2. b - q.seq \in Gaps
      BY DEF Gaps
    <3>3. ~(b - q.seq < b - r.seq)
      BY <2>4, <2>5, <3>2
    <3>. QED BY <2>1, <3>3
  <2>7. r.seq \in SeqsOf(rows) /\ \A q \in SeqsOf(rows) : q <= r.seq
    BY <2>6 DEF SeqsOf
  <2>8. /\ MaxSeq(rows) \in SeqsOf(rows)
        /\ \A q \in SeqsOf(rows) : q <= MaxSeq(rows)
    BY <1>2, <2>7 DEF MaxSeq
  <2>. QED BY <2>8 DEF SeqsOf
<1>. QED BY <1>1, <1>2

(* Part of a bounded table is bounded.                                     *)
LEMMA PartBounded ==
  ASSUME NEW table, NEW part \in SUBSET table, Bounded(table)
  PROVE  Bounded(part)
  BY DEF Bounded

(* One more row leaves it bounded.                                         *)
LEMMA OneMoreBounded ==
  ASSUME NEW table, \A c \in table : c.seq \in Nat, Bounded(table), NEW r, r.seq \in Nat
  PROVE  Bounded(table \cup {r})
<1>1. PICK b \in Nat : \A c \in table : c.seq <= b
  BY DEF Bounded
<1>2. PICK a \in Nat : a >= b /\ a >= r.seq
  <2>1. CASE b >= r.seq
    BY <2>1
  <2>2. CASE r.seq >= b
    BY <2>2
  <2>. QED BY <2>1, <2>2
<1>3. \A c \in table \cup {r} : c.seq <= a
  BY <1>1, <1>2
<1>. QED BY <1>3 DEF Bounded

(* A batch that is moved keeps its rows and their order, and starts behind *)
(* the table.                                                              *)
LEMMA RekeyedOf ==
  ASSUME NEW rows \in Seq(LoggedRow), rows # <<>>, NEW max \in Nat,
         \A j, k \in DOMAIN rows : j < k => rows[j].seq < rows[k].seq
  PROVE  /\ rekeyed(rows, max) \in Seq(LoggedRow) /\ rekeyed(rows, max) # <<>>
         /\ DOMAIN rekeyed(rows, max) = DOMAIN rows
         /\ \A k \in DOMAIN rows : /\ rekeyed(rows, max)[k].of = rows[k].of
                                   /\ rekeyed(rows, max)[k].seq > max
         /\ \A j, k \in DOMAIN rows :
              j < k => rekeyed(rows, max)[j].seq < rekeyed(rows, max)[k].seq
<1>1. /\ Len(rows) \in Nat /\ DOMAIN rows = 1 .. Len(rows) /\ 1 \in DOMAIN rows
      /\ \A k \in DOMAIN rows : rows[k] \in LoggedRow
  <2>1. Len(rows) \in Nat /\ DOMAIN rows = 1 .. Len(rows) /\ Len(rows) # 0
    BY LenProperties, EmptySeq
  <2>2. \A k \in DOMAIN rows : rows[k] \in LoggedRow
    BY <2>1, ElementOfSeq
  <2>. QED BY <2>1, <2>2
<1>2. \A k \in DOMAIN rows : rows[k].seq \in Nat /\ rows[k].seq >= rows[1].seq /\ rows[k].seq > 0
  BY <1>1 DEF LoggedRow
<1>3. CASE rows[1].seq > max
  BY <1>1, <1>2, <1>3 DEF rekeyed
<1>4. CASE ~(rows[1].seq > max)
  <2>. DEFINE d == max + 1 - rows[1].seq
              moved == [k \in DOMAIN rows |-> [rows[k] EXCEPT !.seq = @ + d]]
  <2>1. rekeyed(rows, max) = moved
    BY <1>4 DEF rekeyed
  <2>2. d \in Nat /\ rows[1].seq + d = max + 1
    BY <1>1, <1>2, <1>4
  <2>3. \A k \in DOMAIN rows : /\ moved[k] \in LoggedRow
                               /\ moved[k].of = rows[k].of
                               /\ moved[k].seq = rows[k].seq + d
    <3>1. TAKE k \in DOMAIN rows
    <3>2. /\ rows[k] \in LoggedRow /\ moved[k] = [rows[k] EXCEPT !.seq = @ + d]
          /\ d \in Nat
      BY <1>1, <2>2
    <3>. HIDE DEF moved, d
    <3>. QED BY <3>2 DEF LoggedRow
  <2>4. DOMAIN moved = DOMAIN rows /\ moved = [k \in DOMAIN rows |-> moved[k]]
    OBVIOUS
  <2>. HIDE DEF moved, d
  <2>5. moved \in [1 .. Len(rows) -> LoggedRow]
    BY <1>1, <2>3, <2>4
  <2>6. moved \in Seq(LoggedRow)
    BY <1>1, <2>5, SeqDef
  <2>7. moved # <<>>
    BY <1>1, <2>4, EmptySeq
  <2>8. \A k \in DOMAIN rows : moved[k].seq > max
    BY <1>2, <2>2, <2>3
  <2>9. \A j, k \in DOMAIN rows : j < k => moved[j].seq < moved[k].seq
    BY <1>2, <2>2, <2>3
  <2>. QED BY <2>1, <2>3, <2>4, <2>6, <2>7, <2>8, <2>9
<1>. QED BY <1>3, <1>4

-----------------------------------------------------------------------------
(* The two sets of maybeTrim and what it keeps: no marker or row is new,   *)
(* and the rows of a run that stays paused or is in use stay, unless hit   *)
(* names the run.                                                          *)
LEMMA TrimOf ==
  ASSUME maybeTrim
  PROVE  /\ calls' \subseteq calls
         /\ paused' \subseteq paused /\ hit \subseteq hit'
         /\ \A run \in (paused' \cup InUse) \ hit' :
              \A c \in Events(calls) : c.of.run = run => c \in calls'
<1>1. PICK dead \in {{}, Dead}, cold \in {{}, Compactable} :
        LET aged == RunsOfAll(dead \cup cold)
            rest == WithoutRuns(calls, aged) \ UNION {OfSession(s) : s \in dead}
        IN \E size \in {{}, TooMany(rest)} :
             /\ calls' = WithoutRuns(rest, size)
             /\ paused' = paused \ RunsOfAll(dead)
             /\ hit' = hit \cup ((aged \cup size) \cap InUse)
  BY DEF maybeTrim
<1>. DEFINE aged == RunsOfAll(dead \cup cold)
            rest == WithoutRuns(calls, aged) \ UNION {OfSession(s) : s \in dead}
<1>2. PICK size \in {{}, TooMany(rest)} :
        /\ calls' = WithoutRuns(rest, size)
        /\ paused' = paused \ RunsOfAll(dead)
        /\ hit' = hit \cup ((aged \cup size) \cap InUse)
  BY <1>1
<1>3. \A run \in size : run \notin paused
  BY <1>2 DEF TooMany, pinned
<1>4. \A run \in aged : run \notin paused'
  <2>1. \A run \in RunsOfAll(cold) : run \notin paused
    BY DEF RunsOfAll, Compactable, pinned
  <2>2. aged = RunsOfAll(dead) \cup RunsOfAll(cold)
    BY DEF RunsOfAll
  <2>. QED BY <1>2, <2>1, <2>2
<1>5. rest \subseteq calls
  BY DEF WithoutRuns
<1>6. \A c \in Events(calls) : c.of.run \notin aged => c \in rest
  <2>1. \A s \in dead : \A c \in Events(calls) : c \notin OfSession(s)
    BY DEF Events, OfSession, MarkersOf, TombstonesOf
  <2>. QED BY <2>1 DEF Events, WithoutRuns
<1>. HIDE DEF aged, rest
<1>7. calls' \subseteq calls /\ paused' \subseteq paused /\ hit \subseteq hit'
  BY <1>2, <1>5 DEF WithoutRuns
<1>8. ASSUME NEW run \in (paused' \cup InUse) \ hit', NEW c \in Events(calls), c.of.run = run
      PROVE  c \in calls'
  <2>1. run \notin aged
    BY <1>2, <1>4, <1>8
  <2>2. run \notin size
    BY <1>2, <1>3, <1>7, <1>8
  <2>. QED BY <1>2, <1>6, <1>8, <2>1, <2>2 DEF Events, WithoutRuns
<1>. QED BY <1>7, <1>8

(* A marker or a tombstone takes the next number, if it is free.           *)
LEMMA InsertOf ==
  ASSUME NEW s \in Session, NEW of, insertMarker(s, of)
  PROVE  /\ cursor' = cursor + 1
         /\ \/ calls' = calls
            \/ /\ calls' = calls \cup {[seq |-> cursor + 1, of |-> of]}
               /\ \A c \in calls : c.seq # cursor + 1
  BY DEF insertMarker, Free, SeqsOf

(* The run a turn begins or takes up.                                      *)
Held(s) == IF turn[s].next # NoRun THEN turn[s].next ELSE resumableCheckpoint(s)
Fresh(s) == [session |-> s, since |-> turn[s].no + 1]

LEMMA StartOf ==
  ASSUME NEW s \in Session, startTurn(s)
  PROVE  /\ turn[s].phase = "idle"
         /\ turn' = [turn EXCEPT ![s] =
              [no |-> turn[s].no + 1, phase |-> "running", next |-> Held(s),
               run |-> IF Held(s) # NoRun THEN Held(s) ELSE Fresh(s)]]
         /\ UNCHANGED <<cursor, waiting, calls, paused, task, age, logged, upsets, written, hit>>
  BY DEF startTurn, Held, Fresh

(* The checkpoint a cold worker finds is the run of the last marker.       *)
LEMMA ResumableOf ==
  ASSUME TypeInv, MarkInv, NEW s \in Session, resumableCheckpoint(s) # NoRun
  PROVE  /\ resumableCheckpoint(s) \in paused
         /\ \E m \in EndMarks(calls) :
              /\ m.of.run = resumableCheckpoint(s) /\ m.of.run.session = s
              /\ \A n \in EndMarks(calls) : n.of.run.session = s => n.seq <= m.seq
<1>. DEFINE last == MarkersOf(calls, s)
            m == CHOOSE c \in last : c.seq = MaxSeq(last)
<1>1. last # {} /\ m.of.run \in paused /\ resumableCheckpoint(s) = m.of.run
  BY DEF resumableCheckpoint
<1>2. /\ \A r \in last : r.seq <= MaxSeq(last)
      /\ \E r \in last : r.seq = MaxSeq(last)
  BY <1>1, MaxSeqOf, PartBounded DEF MarkersOf, TypeInv
<1>3. m \in last /\ m.seq = MaxSeq(last)
  BY <1>2
<1>. QED BY <1>1, <1>2, <1>3 DEF MarkersOf, EndMarks

LEMMA HeldOf ==
  ASSUME TypeInv, TurnInv, MarkInv, NEW s \in Session, Held(s) # NoRun
  PROVE  /\ Held(s) \in Begun /\ Held(s).session = s
         /\ Held(s) \in paused \/ Held(s) = turn[s].next
         /\ \/ turn[s].run = Held(s)
            \/ \E m \in EndMarks(calls) :
                 /\ m.of.run = Held(s)
                 /\ \A n \in EndMarks(calls) : n.of.run.session = s => n.seq <= m.seq
<1>1. CASE turn[s].next # NoRun
  BY <1>1 DEF Held, TurnInv
<1>2. CASE turn[s].next = NoRun
  BY <1>2, ResumableOf DEF Held, MarkInv, MarkOk
<1>. QED BY <1>1, <1>2

-----------------------------------------------------------------------------
(* The steps of the log by what they change.                               *)
Sessionwise(s) ==
  startTurn(s) \/ log(s) \/ pause(s) \/ saveCheckpoint(s) \/ finish(s) \/ stop(s)
    \/ appendEvents(s) \/ writeTurnEnd(s) \/ turnEnded(s) \/ writeDelete(s)

LEMMA StepCases ==
  ASSUME LogNext
  PROVE  (\E s \in Session : Sessionwise(s)) \/ inserted \/ reload \/ ages \/ foreign
  BY DEF LogNext, Sessionwise

(* A row that is logged is the last of its session and of the counter.     *)
LEMMA LogsOf ==
  ASSUME TypeInv, TurnInv, NEW s \in Session, Logs(s), turn[s].phase # "idle"
  PROVE  /\ cursor' = cursor + 1 /\ logged' = logged + 1
         /\ NextRow(s) \in LoggedRow
         /\ waiting' \in [Session -> Seq(LoggedRow)]
         /\ \A u \in Session : u # s => waiting'[u] = waiting[u]
         /\ waiting'[s] = Append(waiting[s], NextRow(s))
<1>1. NextRow(s) \in LoggedRow
  <2>1. turn[s].run \in Runs /\ turn[s].no \in Nat \ {0} /\ cursor + 1 \in Nat \ {0}
        /\ logged + 1 \in Nat \ {0}
    BY DEF TypeInv, TurnInv, TurnState, Begun
  <2>. QED BY <2>1 DEF NextRow, LoggedRow, EventRow
<1>2. waiting[s] \in Seq(LoggedRow)
  BY DEF TypeInv
<1>3. Append(waiting[s], NextRow(s)) \in Seq(LoggedRow)
  BY <1>1, <1>2, AppendProperties
<1>. HIDE DEF NextRow
<1>. QED BY <1>1, <1>3 DEF Logs, TypeInv

(* An appended row, place by place.                                        *)
LEMMA AppendOf ==
  ASSUME NEW T, NEW q \in Seq(T), NEW r \in T
  PROVE  /\ DOMAIN Append(q, r) = DOMAIN q \cup {Len(q) + 1}
         /\ DOMAIN q = 1 .. Len(q) /\ Len(q) \in Nat
         /\ Append(q, r)[Len(q) + 1] = r
         /\ \A k \in DOMAIN q : Append(q, r)[k] = q[k] /\ q[k] \in T
<1>1. /\ Len(q) \in Nat /\ DOMAIN q = 1 .. Len(q)
      /\ \A k \in DOMAIN q : q[k] \in T
  BY LenProperties, ElementOfSeq
<1>2. /\ Append(q, r) \in Seq(T) /\ Len(Append(q, r)) = Len(q) + 1
      /\ \A k \in 1 .. Len(q) : Append(q, r)[k] = q[k]
      /\ Append(q, r)[Len(q) + 1] = r
  BY AppendProperties
<1>3. DOMAIN Append(q, r) = 1 .. Len(q) + 1
  BY <1>2, LenProperties
<1>. QED BY <1>1, <1>2, <1>3

(* Phases and counters of a turn move inside their type.                   *)
LEMMA TurnTyped ==
  ASSUME TypeInv, TurnInv, MarkInv, NEW s \in Session
  PROVE  /\ turn[s] \in TurnState
         /\ startTurn(s) => turn' \in [Session -> TurnState]
         /\ \A p \in {"idle", "running", "pausing", "ending"} :
              [turn EXCEPT ![s].phase = p] \in [Session -> TurnState]
<1>1. turn[s] \in TurnState
  BY DEF TypeInv
<1>2. ASSUME startTurn(s) PROVE turn' \in [Session -> TurnState]
  <2>1. Held(s) \in Runs \cup {NoRun}
    BY HeldOf DEF Begun
  <2>2. Fresh(s) \in Runs /\ turn[s].no + 1 \in Nat
    BY <1>1 DEF Fresh, Runs, TurnState
  <2>. HIDE DEF Held, Fresh
  <2>3. [no |-> turn[s].no + 1, phase |-> "running", next |-> Held(s),
         run |-> IF Held(s) # NoRun THEN Held(s) ELSE Fresh(s)] \in TurnState
    BY <2>1, <2>2 DEF TurnState
  <2>. QED BY <1>2, <2>3, StartOf DEF TypeInv
<1>3. ASSUME NEW p \in {"idle", "running", "pausing", "ending"}
      PROVE  [turn EXCEPT ![s].phase = p] \in [Session -> TurnState]
  BY <1>1 DEF TypeInv, TurnState
<1>. QED BY <1>1, <1>2, <1>3

TypeParts ==
  /\ cursor \in Nat /\ logged \in Nat
  /\ waiting \in [Session -> Seq(LoggedRow)]
  /\ turn \in [Session -> TurnState]
TaskOk ==
  \/ task = NoTask
  \/ \E s \in Session : task = EndMark(s)
  \/ \E s \in Session, rows \in Seq(LoggedRow) : rows # <<>> /\ task = Flush(s, rows)
TableOk == (\A c \in calls : c.seq \in Nat \ {0}) /\ Bounded(calls)

LEMMA TypeSplit == TypeInv <=> TypeParts /\ TaskOk /\ TableOk
  BY DEF TypeInv, TypeParts, TaskOk, TableOk

(* Rows of a flush.                                                        *)
LEMMA FlushOf ==
  ASSUME TypeInv, task.op = "flush"
  PROVE  /\ task.session \in Session /\ task.rows \in Seq(LoggedRow) /\ task.rows # <<>>
         /\ Len(task.rows) \in Nat \ {0} /\ DOMAIN task.rows = 1 .. Len(task.rows)
         /\ \A k \in DOMAIN task.rows : task.rows[k] \in LoggedRow
<1>1. PICK s \in Session, rows \in Seq(LoggedRow) : rows # <<>> /\ task = Flush(s, rows)
  BY DEF TypeInv, NoTask, EndMark
<1>2. task.session = s /\ task.rows = rows
  BY <1>1 DEF Flush
<1>3. Len(rows) \in Nat /\ DOMAIN rows = 1 .. Len(rows) /\ Len(rows) # 0
  BY <1>1, LenProperties, EmptySeq
<1>4. \A k \in DOMAIN rows : rows[k] \in LoggedRow
  BY <1>3, ElementOfSeq
<1>. QED BY <1>1, <1>2, <1>3, <1>4

(* A row of another process, a marker or a tombstone.                      *)
LEMMA AddTyped ==
  ASSUME TableOk, NEW r, r.seq \in Nat \ {0}, calls' = calls \/ calls' = calls \cup {r}
  PROVE  TableOk'
  BY OneMoreBounded DEF TableOk, Bounded

LEMMA TrimTyped ==
  ASSUME TableOk, calls' \subseteq calls
  PROVE  TableOk'
  BY DEF TableOk, Bounded

LEMMA InsertTyped ==
  ASSUME TypeInv, NEW s \in Session, NEW of, insertMarker(s, of)
  PROVE  TableOk' /\ cursor' \in Nat
<1>1. cursor + 1 \in Nat \ {0} /\ TableOk
  BY TypeSplit DEF TypeInv
<1>. DEFINE r == [seq |-> cursor + 1, of |-> of]
<1>2. r.seq = cursor + 1
  OBVIOUS
<1>3. calls' = calls \/ calls' = calls \cup {r}
  BY InsertOf
<1>. HIDE DEF r
<1>4. TableOk'
  BY <1>1, <1>2, <1>3, AddTyped
<1>. QED BY <1>1, <1>4, InsertOf

LEMMA InsertedTyped ==
  ASSUME TypeInv, MemoryInv, inserted
  PROVE  TableOk' /\ cursor' \in Nat /\ cursor' >= cursor
         /\ \A k \in DOMAIN task.rows : task.rows[k].seq <= cursor'
<1>. DEFINE last == task.rows[Len(task.rows)].seq
<1>1. task.op = "flush" /\ calls' = calls \cup SeqRange(task.rows)
      /\ cursor' = IF last > cursor THEN last ELSE cursor
  BY DEF inserted
<1>2. /\ Len(task.rows) \in Nat \ {0} /\ DOMAIN task.rows = 1 .. Len(task.rows)
      /\ \A k \in DOMAIN task.rows : task.rows[k].seq \in Nat \ {0}
  BY <1>1, FlushOf DEF LoggedRow
<1>3. \A k \in DOMAIN task.rows : task.rows[k].seq <= last
  BY <1>1, <1>2 DEF MemoryInv, RowsFit
<1>4. last \in Nat \ {0} /\ \A c \in calls : c.seq <= last
  <2>1. \A c \in calls : c.seq < last
    BY <1>1, <1>2 DEF MemoryInv
  <2>. QED BY <1>2, <2>1 DEF TypeInv
<1>. HIDE DEF last
<1>5. \A c \in calls' : c.seq \in Nat \ {0} /\ c.seq <= last
  BY <1>1, <1>2, <1>3, <1>4 DEF SeqRange, TypeInv
<1>6. cursor' \in Nat /\ cursor' >= cursor /\ last <= cursor'
  BY <1>1, <1>4 DEF TypeInv
<1>7. \A k \in DOMAIN task.rows : task.rows[k].seq <= cursor'
  BY <1>2, <1>3, <1>4, <1>6
<1>8. TableOk'
  BY <1>4, <1>5 DEF TableOk, Bounded
<1>. QED BY <1>6, <1>7, <1>8

LEMMA AppendEventsOf ==
  ASSUME TypeInv, MemoryInv, NEW s \in Session, appendEvents(s)
  PROVE  \E rows \in Seq(LoggedRow) :
           /\ task = NoTask /\ task' = Flush(s, rows) /\ rows # <<>>
           /\ waiting' = [waiting EXCEPT ![s] = <<>>] /\ waiting[s] # <<>>
           /\ UNCHANGED <<cursor, calls, paused, turn, age, logged, upsets, written, hit>>
           /\ DOMAIN rows = DOMAIN waiting[s]
           /\ \A k \in DOMAIN rows : rows[k].of = waiting[s][k].of
           /\ \A k \in DOMAIN rows : \A c \in calls : c.seq < rows[k].seq
           /\ \A j, k \in DOMAIN rows : j < k => rows[j].seq < rows[k].seq
<1>1. /\ MaxSeq(calls) \in Nat /\ \A c \in calls : c.seq <= MaxSeq(calls) /\ c.seq \in Nat
  BY MaxSeqOf DEF TypeInv
<1>2. /\ waiting[s] \in Seq(LoggedRow) /\ waiting[s] # <<>>
      /\ \A j, k \in DOMAIN waiting[s] : j < k => waiting[s][j].seq < waiting[s][k].seq
  BY DEF TypeInv, MemoryInv, RowsFit, appendEvents
<1>3. PICK rows : rows = rekeyed(waiting[s], MaxSeq(calls))
  OBVIOUS
<1>4. /\ rows \in Seq(LoggedRow) /\ rows # <<>> /\ DOMAIN rows = DOMAIN waiting[s]
      /\ \A k \in DOMAIN rows : rows[k].of = waiting[s][k].of /\ rows[k].seq > MaxSeq(calls)
      /\ \A j, k \in DOMAIN rows : j < k => rows[j].seq < rows[k].seq
  BY <1>1, <1>2, <1>3, RekeyedOf
<1>5. \A k \in DOMAIN rows : rows[k].seq \in Nat
  <2>1. \A k \in DOMAIN rows : rows[k] \in LoggedRow
    BY <1>4, LenProperties, ElementOfSeq
  <2>. QED BY <2>1 DEF LoggedRow
<1>6. \A k \in DOMAIN rows : \A c \in calls : c.seq < rows[k].seq
  BY <1>1, <1>4, <1>5
<1>. QED BY <1>2, <1>3, <1>4, <1>6 DEF appendEvents

-----------------------------------------------------------------------------
(* Types are kept.                                                         *)
LEMMA NextTypes ==
  ASSUME LogInv, LogNext
  PROVE  TypeInv'
<1>1. TypeInv /\ TurnInv /\ MarkInv /\ MemoryInv /\ TypeParts /\ TaskOk /\ TableOk
  BY TypeSplit DEF LogInv
<1>. SUFFICES TypeParts' /\ TaskOk' /\ TableOk'
  BY TypeSplit, PTL
<1>0. /\ UNCHANGED task => TaskOk'
      /\ task' = NoTask => TaskOk'
      /\ UNCHANGED calls => TableOk'
  BY <1>1 DEF TaskOk, TableOk, Bounded
<1>2. ASSUME NEW s \in Session, Sessionwise(s) PROVE TypeParts' /\ TaskOk' /\ TableOk'
  <2>1. turn[s] \in TurnState
    BY <1>1, TurnTyped
  <2>2. CASE startTurn(s)
    BY <1>0, <1>1, <2>2, TurnTyped, StartOf DEF TypeParts
  <2>3. CASE log(s)
    BY <1>0, <1>1, <2>3, LogsOf DEF log, TypeParts
  <2>4. CASE pause(s)
    <3>1. turn' \in [Session -> TurnState]
      BY <1>0, <1>1, <2>1, <2>4 DEF pause, TypeInv, TurnState
    <3>. QED BY <1>0, <1>1, <2>4, <3>1, LogsOf DEF pause, TypeParts
  <2>5. CASE saveCheckpoint(s)
    BY <1>0, <1>1, <2>5, TurnTyped DEF saveCheckpoint, TypeParts
  <2>6. CASE finish(s)
    <3>1. turn' \in [Session -> TurnState]
      BY <1>0, <1>1, <2>1, <2>6 DEF finish, TypeInv, TurnState
    <3>. QED BY <1>0, <1>1, <2>6, <3>1 DEF finish, TypeParts
  <2>7. CASE stop(s)
    BY <1>0, <1>1, <2>7, TurnTyped DEF stop, TypeParts
  <2>8. CASE appendEvents(s)
    <3>1. PICK rows \in Seq(LoggedRow) :
            /\ task' = Flush(s, rows) /\ rows # <<>>
            /\ waiting' = [waiting EXCEPT ![s] = <<>>]
            /\ UNCHANGED <<cursor, calls, turn, logged>>
      BY <1>0, <1>1, <2>8, AppendEventsOf
    <3>2. <<>> \in Seq(LoggedRow)
      BY EmptySeq
    <3>3. TaskOk'
      BY <3>1 DEF TaskOk
    <3>. QED BY <1>0, <1>1, <3>1, <3>2, <3>3 DEF TypeParts
  <2>9. CASE writeTurnEnd(s)
    <3>1. TableOk' /\ cursor' \in Nat
      BY <1>0, <1>1, <2>9, InsertTyped DEF writeTurnEnd
    <3>2. UNCHANGED <<waiting, logged>>
      BY <2>9 DEF writeTurnEnd
    <3>3. turn' \in [Session -> TurnState] /\ TaskOk'
      BY <1>0, <1>1, <2>9, TurnTyped DEF writeTurnEnd, TypeParts, TaskOk
    <3>. QED BY <1>1, <3>1, <3>2, <3>3 DEF TypeParts
  <2>10. CASE turnEnded(s)
    <3>1. TableOk'
      BY <1>0, <1>1, <2>10, TrimOf, TrimTyped DEF turnEnded
    <3>. QED BY <1>0, <1>1, <2>10, <3>1, TurnTyped DEF turnEnded, TypeParts
  <2>11. CASE writeDelete(s)
    <3>1. TableOk' /\ cursor' \in Nat
      BY <1>0, <1>1, <2>11, InsertTyped DEF writeDelete
    <3>. QED BY <1>0, <1>1, <2>11, <3>1 DEF writeDelete, TypeParts
  <2>. QED BY <1>2, <2>2, <2>3, <2>4, <2>5, <2>6, <2>7, <2>8, <2>9, <2>10, <2>11 DEF Sessionwise
<1>3. CASE inserted
  BY <1>0, <1>1, <1>3, InsertedTyped DEF inserted, TypeParts
<1>4. CASE reload
  <2>1. TableOk'
    BY <1>0, <1>1, <1>4, TrimOf, TrimTyped DEF reload
  <2>2. cursor' \in Nat
    <3>1. \A r \in calls' : r.seq \in Nat
      BY <2>1 DEF TableOk
    <3>2. Bounded(calls')
      BY <2>1 DEF TableOk, Bounded
    <3>. QED BY <1>4, <3>1, <3>2, MaxSeqOf DEF reload
  <2>3. waiting' \in [Session -> Seq(LoggedRow)]
    BY <1>4, EmptySeq DEF reload
  <2>4. turn' \in [Session -> TurnState]
    BY <1>0, <1>1, <1>4 DEF reload, NoTurnYet, TurnState, TypeParts
  <2>. QED BY <1>0, <1>1, <1>4, <2>1, <2>2, <2>3, <2>4 DEF reload, TypeParts
<1>5. CASE ages
  BY <1>0, <1>1, <1>5 DEF ages, TypeParts
<1>6. CASE foreign
  <2>1. MaxSeq(calls) \in Nat
    BY <1>1, MaxSeqOf DEF TypeInv
  <2>2. PICK r : r = [seq |-> MaxSeq(calls) + 1, of |-> [kind |-> "other", run |-> NoRun]]
    OBVIOUS
  <2>3. r.seq \in Nat \ {0} /\ calls' = calls \cup {r}
    BY <1>6, <2>1, <2>2 DEF foreign
  <2>4. TableOk'
    BY <1>0, <1>1, <2>3, AddTyped
  <2>. QED BY <1>0, <1>1, <1>6, <2>4 DEF foreign, TypeParts
<1>. QED
  BY <1>2, <1>3, <1>4, <1>5, <1>6, StepCases

(* A turn is counted up only, and runs that began stay begun.              *)
LEMMA BegunStays ==
  ASSUME LogInv, LogNext
  PROVE  /\ \A s \in Session : turn'[s].no \in Nat /\ turn'[s].no >= turn[s].no
         /\ Begun \subseteq Begun'
<1>1. TypeInv /\ turn \in [Session -> TurnState]
  BY DEF LogInv, TypeInv
<1>2. \A s \in Session : turn'[s].no \in Nat /\ turn'[s].no >= turn[s].no
  <2>1. \A s \in Session : turn[s].no \in Nat
    BY <1>1 DEF TurnState
  <2>2. ASSUME NEW s \in Session, Sessionwise(s)
        PROVE  \A u \in Session : turn'[u].no \in Nat /\ turn'[u].no >= turn[u].no
    <3>1. CASE startTurn(s)
      BY <1>1, <2>1, <3>1, StartOf
    <3>2. CASE ~startTurn(s)
      <4>1. \/ \E p : turn' = [turn EXCEPT ![s].phase = p]
            \/ turn' = [turn EXCEPT ![s].phase = "pausing", ![s].next = turn[s].run]
            \/ turn' = [turn EXCEPT ![s].phase = "ending", ![s].next = NoRun]
            \/ turn' = turn
        BY <2>2, <3>2, AppendEventsOf DEF Sessionwise, log, pause, saveCheckpoint, finish, stop,
             appendEvents, writeTurnEnd, turnEnded, writeDelete
      <4>2. \A u \in Session : turn'[u].no = turn[u].no
        BY <1>1, <4>1 DEF TurnState
      <4>. QED BY <2>1, <4>2
    <3>. QED BY <3>1, <3>2
  <2>3. CASE reload
    BY <1>1, <2>1, <2>3 DEF reload, NoTurnYet
  <2>4. CASE inserted \/ ages \/ foreign
    BY <2>1, <2>4 DEF inserted, ages, foreign
  <2>. QED BY <2>2, <2>3, <2>4, StepCases
<1>3. \A s \in Session : turn[s].no \in Nat
  BY <1>1 DEF TurnState
<1>. QED BY <1>2, <1>3 DEF Begun, Runs

(* Between the begin of two turns a session keeps its turn and its run, and *)
(* no turn is taken up that is over.                                        *)
LEMMA TurnChanges ==
  ASSUME TypeInv, NEW s \in Session, Sessionwise(s), ~startTurn(s)
  PROVE  \A u \in Session :
           /\ turn'[u].no = turn[u].no /\ turn'[u].run = turn[u].run
           /\ turn'[u].next \in {turn[u].next, turn[u].run, NoRun}
           /\ turn'[u].phase # "idle" => turn[u].phase # "idle"
<1>1. turn \in [Session -> TurnState]
  BY DEF TypeInv
<1>2. \/ turn[s].phase # "idle" /\ \E p : turn' = [turn EXCEPT ![s].phase = p]
      \/ turn' = [turn EXCEPT ![s].phase = "idle"]
      \/ turn[s].phase # "idle" /\ turn' = [turn EXCEPT ![s].phase = "pausing", ![s].next = turn[s].run]
      \/ turn[s].phase # "idle" /\ turn' = [turn EXCEPT ![s].phase = "ending", ![s].next = NoRun]
      \/ turn' = turn
  BY DEF Sessionwise, log, pause, saveCheckpoint, finish, stop, appendEvents,
     writeTurnEnd, turnEnded, writeDelete
<1>. QED BY <1>1, <1>2 DEF TurnState

LEMMA NothingFits ==
  ASSUME NEW s
  PROVE  RowsFit(<<>>, s) /\ RowsFit(<<>>, s)' /\ DOMAIN <<>> = {}
  BY EmptySeq DEF RowsFit

(* A session that begins a turn has a run of its own that began.           *)
LEMMA StartRun ==
  ASSUME TypeInv, TurnInv, MarkInv, NEW s \in Session, startTurn(s)
  PROVE  /\ turn'[s].run \in Begun' /\ turn'[s].run.session = s /\ turn'[s].run # NoRun
         /\ turn'[s].next # NoRun => turn'[s].next = turn'[s].run
         /\ turn'[s].no = turn[s].no + 1 /\ turn'[s].phase = "running"
         /\ \A u \in Session \ {s} : turn'[u] = turn[u]
         /\ turn[s].phase = "idle" /\ turn[s].no \in Nat
         /\ Begun \subseteq Begun'
<1>1. turn \in [Session -> TurnState] /\ turn[s].no \in Nat
  BY DEF TypeInv, TurnState
<1>2. PICK run : run = IF Held(s) # NoRun THEN Held(s) ELSE Fresh(s)
  OBVIOUS
<1>3. PICK t : t = [no |-> turn[s].no + 1, phase |-> "running", next |-> Held(s), run |-> run]
  OBVIOUS
<1>4. turn[s].phase = "idle" /\ turn' = [turn EXCEPT ![s] = t]
  BY <1>2, <1>3, StartOf
<1>5. /\ turn'[s] = t /\ \A u \in Session \ {s} : turn'[u] = turn[u]
      /\ t.no = turn[s].no + 1 /\ t.phase = "running" /\ t.run = run /\ t.next = Held(s)
  BY <1>1, <1>3, <1>4
<1>6. Begun \subseteq Begun'
  <2>1. \A u \in Session : turn[u].no \in Nat /\ turn'[u].no \in Nat /\ turn[u].no <= turn'[u].no
    BY <1>1, <1>5 DEF TurnState
  <2>. QED BY <2>1 DEF Begun, Runs
<1>7. Fresh(s) \in Begun' /\ Fresh(s).session = s /\ Fresh(s) # NoRun
  <2>1. Fresh(s) \in Runs /\ Fresh(s).session = s /\ Fresh(s).since = turn[s].no + 1
    BY <1>1 DEF Fresh, Runs
  <2>2. Fresh(s) # NoRun
    BY <1>1, <2>1 DEF NoRun
  <2>. QED BY <1>1, <1>5, <2>1, <2>2 DEF Begun
<1>8. Held(s) # NoRun => Held(s) \in Begun' /\ Held(s).session = s
  BY <1>6, HeldOf
<1>. QED BY <1>1, <1>2, <1>4, <1>5, <1>6, <1>7, <1>8

LEMMA NextTurns ==
  ASSUME LogInv, LogNext
  PROVE  TurnInv'
<1>1. TypeInv /\ TurnInv /\ MarkInv /\ MemoryInv /\ Begun \subseteq Begun'
  BY BegunStays DEF LogInv
<1>. USE <1>1
<1>2. ASSUME NEW s \in Session, startTurn(s) PROVE TurnInv'
  <2>1. UNCHANGED <<waiting, task>>
    BY <1>2, StartOf
  <2>. QED BY <1>2, <2>1, StartRun DEF TurnInv
<1>3. ASSUME NEW s \in Session, Sessionwise(s), ~startTurn(s) PROVE TurnInv'
  <2>1. ASSUME NEW u \in Session
        PROVE  /\ turn'[u].run # NoRun => turn'[u].run \in Begun' /\ turn'[u].run.session = u
               /\ turn'[u].next # NoRun => turn'[u].next = turn'[u].run
               /\ turn'[u].phase # "idle" => turn'[u].run # NoRun /\ turn'[u].no > 0
    BY <1>3, <2>1, TurnChanges DEF TurnInv
  <2>2. turn \in [Session -> TurnState]
    BY DEF TypeInv
  <2>3. CASE appendEvents(s)
    <3>1. \E rows : task' = Flush(s, rows) /\ waiting' = [waiting EXCEPT ![s] = <<>>]
      BY <2>3, AppendEventsOf
    <3>2. turn' = turn /\ \A u \in Session : task' # EndMark(u)
      BY <2>3, <3>1 DEF appendEvents, Flush, EndMark
    <3>3. \A u \in Session : waiting[u] = <<>> => waiting'[u] = <<>>
      BY <3>1 DEF TypeInv
    <3>. QED BY <2>1, <3>2, <3>3 DEF TurnInv
  <2>4. CASE log(s) \/ pause(s)
    <3>1. turn[s].phase = "running" /\ UNCHANGED task
      BY <2>4 DEF log, pause
    <3>2. \A u \in Session : u # s => waiting'[u] = waiting[u] /\ turn'[u] = turn[u]
      BY <2>2, <2>4, <3>1, LogsOf DEF log, pause
    <3>3. turn'[s].phase # "idle"
      BY <2>2, <2>4, <3>1 DEF log, pause, TurnState
    <3>. QED BY <2>1, <3>1, <3>2, <3>3 DEF TurnInv
  <2>5. CASE saveCheckpoint(s) \/ finish(s) \/ stop(s)
    <3>1. UNCHANGED <<waiting, task>> /\ turn[s].phase \in {"running", "pausing"}
      BY <2>5 DEF saveCheckpoint, finish, stop
    <3>2. turn'[s].phase = "ending" /\ \A u \in Session : u # s => turn'[u] = turn[u]
      BY <2>2, <2>5 DEF saveCheckpoint, finish, stop, TurnState
    <3>. QED BY <2>1, <3>1, <3>2 DEF TurnInv
  <2>6. CASE writeTurnEnd(s)
    <3>1. UNCHANGED waiting /\ turn[s].phase = "ending" /\ waiting[s] = <<>> /\ task = NoTask
      BY <2>6 DEF writeTurnEnd, flushedFirst
    <3>2. \/ task' = EndMark(s) /\ turn' = turn
          \/ task' = NoTask /\ turn' = [turn EXCEPT ![s].phase = "idle"]
      BY <2>6 DEF writeTurnEnd
    <3>3. \A u \in Session : NoTask # EndMark(u) /\ (EndMark(u) = EndMark(s) => u = s)
      BY DEF NoTask, EndMark
    <3>4. \A u \in Session : u # s => turn'[u] = turn[u]
      BY <2>2, <3>2
    <3>. QED BY <2>1, <2>2, <3>1, <3>2, <3>3, <3>4 DEF TurnInv
  <2>7. CASE turnEnded(s)
    <3>1. UNCHANGED waiting /\ task = EndMark(s) /\ task' = NoTask
          /\ turn' = [turn EXCEPT ![s].phase = "idle"]
      BY <2>7 DEF turnEnded
    <3>2. waiting[s] = <<>> /\ \A u \in Session : u # s => turn'[u] = turn[u]
      BY <2>2, <3>1 DEF TurnInv
    <3>3. \A u \in Session : NoTask # EndMark(u)
      BY DEF NoTask, EndMark
    <3>. QED BY <2>1, <3>1, <3>2, <3>3 DEF TurnInv
  <2>8. CASE writeDelete(s)
    BY <2>1, <2>8 DEF writeDelete, TurnInv
  <2>. QED BY <1>3, <2>3, <2>4, <2>5, <2>6, <2>7, <2>8 DEF Sessionwise
<1>4. CASE reload
  <2>1. \A u \in Session : turn'[u].run = NoRun /\ turn'[u].next = NoRun /\ turn'[u].phase = "idle"
                           /\ waiting'[u] = <<>>
    BY <1>4 DEF reload, NoTurnYet
  <2>2. \A u \in Session : task' # EndMark(u)
    BY <1>4 DEF reload, NoTask, EndMark
  <2>. QED BY <2>1, <2>2 DEF TurnInv
<1>5. CASE inserted
  <2>1. \A u \in Session : task' # EndMark(u)
    BY <1>5 DEF inserted, NoTask, EndMark
  <2>. QED BY <1>5, <2>1 DEF inserted, TurnInv
<1>6. CASE ages \/ foreign
  BY <1>6 DEF ages, foreign, TurnInv
<1>. QED BY <1>2, <1>3, <1>4, <1>5, <1>6, StepCases

-----------------------------------------------------------------------------
(* Rows in memory.                                                         *)
WaitOk(s) ==
  /\ RowsFit(waiting[s], s)
  /\ \A k \in DOMAIN waiting[s] : waiting[s][k].seq <= cursor
FlushOk ==
  task.op = "flush" =>
    /\ turn[task.session].phase # "idle"
    /\ RowsFit(task.rows, task.session)
    /\ \A k \in DOMAIN task.rows : \A c \in calls : c.seq < task.rows[k].seq

LEMMA MemorySplit == MemoryInv <=> (\A s \in Session : WaitOk(s)) /\ FlushOk
  BY DEF MemoryInv, WaitOk, FlushOk

LEMMA RowsFitKeeps ==
  ASSUME NEW s, NEW rows \in Seq(LoggedRow), RowsFit(rows, s), logged \in Nat, logged' \in Nat,
         logged <= logged', turn'[s].run = turn[s].run, turn'[s].no = turn[s].no
  PROVE  RowsFit(rows, s)'
<1>1. \A k \in DOMAIN rows : rows[k] \in LoggedRow
  BY LenProperties, ElementOfSeq
<1>2. \A k \in DOMAIN rows : rows[k].of.no \in Nat
  BY <1>1 DEF LoggedRow, EventRow
<1>. QED BY <1>2 DEF RowsFit

LEMMA WaitKeeps ==
  ASSUME TypeInv, TypeInv', NEW s \in Session, WaitOk(s), waiting'[s] \in {waiting[s], <<>>},
         logged <= logged', cursor <= cursor',
         turn'[s].run = turn[s].run, turn'[s].no = turn[s].no
  PROVE  WaitOk(s)'
<1>1. CASE waiting'[s] = <<>>
  BY <1>1, NothingFits DEF WaitOk
<1>2. CASE waiting'[s] = waiting[s]
  <2>1. waiting[s] \in Seq(LoggedRow) /\ \A k \in DOMAIN waiting[s] : waiting[s][k] \in LoggedRow
    BY LenProperties, ElementOfSeq DEF TypeInv
  <2>2. PICK rows : rows = waiting[s]
    OBVIOUS
  <2>3. RowsFit(rows, s)'
    BY <2>1, <2>2, RowsFitKeeps DEF TypeInv, WaitOk
  <2>4. \A k \in DOMAIN rows : rows[k].seq <= cursor'
    BY <2>1, <2>2 DEF WaitOk, TypeInv, LoggedRow
  <2>. QED BY <1>2, <2>2, <2>3, <2>4 DEF WaitOk, RowsFit
<1>. QED BY <1>1, <1>2

(* The row that is logged fits behind those that wait.                     *)
LEMMA LoggedFits ==
  ASSUME TypeInv, TypeInv', TurnInv, NEW s \in Session, WaitOk(s), log(s) \/ pause(s)
  PROVE  WaitOk(s)'
<1>1. Logs(s) /\ turn[s].phase = "running"
  BY DEF log, pause
<1>2. /\ waiting'[s] = Append(waiting[s], NextRow(s)) /\ NextRow(s) \in LoggedRow
      /\ cursor' = cursor + 1 /\ logged' = logged + 1
  BY <1>1, LogsOf
<1>3. turn'[s].run = turn[s].run /\ turn'[s].no = turn[s].no
  BY DEF log, pause, TypeInv, TurnState
<1>4. /\ NextRow(s).seq = cursor + 1 /\ NextRow(s).of.run = turn[s].run
      /\ NextRow(s).of.turn = turn[s].no /\ NextRow(s).of.no = logged + 1
  BY DEF NextRow
<1>5. PICK q, r, n : q = waiting[s] /\ r = NextRow(s) /\ n = Len(q) + 1
  OBVIOUS
<1>6. /\ DOMAIN Append(q, r) = DOMAIN q \cup {n} /\ DOMAIN q = 1 .. Len(q) /\ Len(q) \in Nat
      /\ Append(q, r)[n] = r
      /\ \A k \in DOMAIN q : Append(q, r)[k] = q[k] /\ q[k] \in LoggedRow
  <2>1. q \in Seq(LoggedRow)
    BY <1>5 DEF TypeInv
  <2>. QED BY <1>2, <1>5, <2>1, AppendOf
<1>7. \A k \in DOMAIN q : /\ q[k].seq \in Nat /\ q[k].seq <= cursor
                          /\ q[k].of.no \in Nat /\ q[k].of.no <= logged
                          /\ q[k].of.run = turn[s].run /\ q[k].of.turn = turn[s].no
  BY <1>5, <1>6 DEF WaitOk, RowsFit, LoggedRow, EventRow
<1>8. \A j, k \in DOMAIN q : j < k => q[j].seq < q[k].seq /\ q[j].of.no < q[k].of.no
  BY <1>5 DEF WaitOk, RowsFit
<1>9. cursor \in Nat /\ logged \in Nat
  BY DEF TypeInv
<1>. DEFINE a == Append(q, r)
<1>10. \A k \in DOMAIN a : /\ a[k].of.run = turn[s].run /\ a[k].of.turn = turn[s].no
                           /\ a[k].of.no <= logged + 1 /\ a[k].seq <= cursor + 1
  BY <1>4, <1>5, <1>6, <1>7, <1>9
<1>11. ASSUME NEW j \in DOMAIN a, NEW k \in DOMAIN a, j < k
       PROVE  a[j].seq < a[k].seq /\ a[j].of.no < a[k].of.no
  <2>1. j \in DOMAIN q
    BY <1>5, <1>6, <1>11
  <2>2. CASE k = n
    BY <1>4, <1>5, <1>6, <1>7, <1>9, <2>1, <2>2
  <2>3. CASE k \in DOMAIN q
    BY <1>6, <1>8, <1>11, <2>1, <2>3
  <2>. QED BY <1>6, <2>2, <2>3
<1>12. waiting'[s] = a
  BY <1>2, <1>5
<1>. HIDE DEF a
<1>. QED BY <1>2, <1>3, <1>10, <1>11, <1>12 DEF WaitOk, RowsFit

(* A flush that is under way fits as long as the table and its session     *)
(* stand still.                                                            *)
LEMMA FlushKeeps ==
  ASSUME TypeInv, TypeInv', FlushOk, UNCHANGED <<task, calls>>, logged <= logged',
         \A s \in Session : turn[s].phase # "idle" =>
           turn'[s].phase # "idle" /\ turn'[s].no = turn[s].no /\ turn'[s].run = turn[s].run
  PROVE  FlushOk'
<1>1. SUFFICES ASSUME task.op = "flush" PROVE FlushOk'
  BY DEF FlushOk
<1>2. task.session \in Session /\ task.rows \in Seq(LoggedRow)
  BY <1>1, FlushOf
<1>3. turn[task.session].phase # "idle" /\ RowsFit(task.rows, task.session)
  BY <1>1 DEF FlushOk
<1>4. RowsFit(task.rows, task.session)'
  <2>1. RowsFit(task.rows, task.session) /\ turn'[task.session].run = turn[task.session].run
        /\ turn'[task.session].no = turn[task.session].no /\ logged \in Nat /\ logged' \in Nat
    BY <1>2, <1>3 DEF TypeInv
  <2>2. PICK rows, s : rows = task.rows /\ s = task.session
    OBVIOUS
  <2>3. RowsFit(rows, s)'
    BY <1>2, <2>1, <2>2, RowsFitKeeps
  <2>4. task'.rows = rows /\ task'.session = s
    BY <2>2
  <2>. QED BY <2>3, <2>4 DEF RowsFit
<1>. QED BY <1>1, <1>2, <1>3, <1>4 DEF FlushOk

LEMMA NoFlush ==
  ASSUME \/ task' = NoTask
         \/ \E s : task' = EndMark(s)
  PROVE  FlushOk' /\ task'.op # "flush"
  BY DEF FlushOk, NoTask, EndMark

LEMMA NextMemory ==
  ASSUME LogInv, LogNext
  PROVE  MemoryInv'
<1>1. /\ TypeInv /\ TurnInv /\ MarkInv /\ MemoryInv /\ Begun \subseteq Begun' /\ TypeInv'
      /\ (\A s \in Session : WaitOk(s)) /\ FlushOk
      /\ turn \in [Session -> TurnState] /\ waiting \in [Session -> Seq(LoggedRow)]
      /\ cursor \in Nat /\ logged \in Nat
  BY BegunStays, NextTypes, MemorySplit DEF LogInv, TypeInv
<1>. USE <1>1
<1>. SUFFICES (\A u \in Session : WaitOk(u)') /\ FlushOk'
  BY DEF MemoryInv, WaitOk, FlushOk
<1>2. ASSUME NEW s \in Session, startTurn(s) PROVE (\A u \in Session : WaitOk(u)') /\ FlushOk'
  <2>1. UNCHANGED <<waiting, task, cursor, logged, calls>>
    BY <1>2, StartOf
  <2>2. \A u \in Session \ {s} : WaitOk(u)'
    BY <1>2, <2>1, StartRun, WaitKeeps
  <2>3. WaitOk(s)'
    BY <1>2, <2>1, StartRun, NothingFits DEF WaitOk, TurnInv
  <2>4. FlushOk'
    BY <1>2, <2>1, StartRun, FlushKeeps
  <2>. QED BY <2>2, <2>3, <2>4
<1>3. ASSUME NEW s \in Session, Sessionwise(s), ~startTurn(s)
      PROVE  (\A u \in Session : WaitOk(u)') /\ FlushOk'
  <2>1. \A u \in Session : turn'[u].no = turn[u].no /\ turn'[u].run = turn[u].run
    BY <1>3, TurnChanges
  <2>2. CASE log(s) \/ pause(s)
    <3>1. \A u \in Session : u # s => waiting'[u] = waiting[u]
      BY <2>2, LogsOf DEF log, pause
    <3>2. cursor' = cursor + 1 /\ logged' = logged + 1 /\ UNCHANGED <<task, calls>>
      BY <2>2 DEF log, pause, Logs
    <3>3. \A u \in Session \ {s} : WaitOk(u)'
      BY <2>1, <3>1, <3>2, WaitKeeps
    <3>4. WaitOk(s)'
      BY <2>2, LoggedFits
    <3>5. \A u \in Session : turn[u].phase # "idle" => turn'[u].phase # "idle"
      BY <2>2 DEF log, pause, TurnState
    <3>6. FlushOk'
      BY <2>1, <3>2, <3>5, FlushKeeps
    <3>. QED BY <3>3, <3>4, <3>6
  <2>3. CASE saveCheckpoint(s) \/ finish(s) \/ stop(s)
    <3>1. UNCHANGED <<waiting, cursor, logged, task, calls>>
      BY <2>3 DEF saveCheckpoint, finish, stop
    <3>2. \A u \in Session : turn[u].phase # "idle" => turn'[u].phase # "idle"
      BY <2>3 DEF saveCheckpoint, finish, stop, TurnState
    <3>3. \A u \in Session : WaitOk(u)'
      BY <2>1, <3>1, WaitKeeps
    <3>. QED BY <2>1, <3>1, <3>2, <3>3, FlushKeeps
  <2>4. CASE appendEvents(s)
    <3>1. PICK rows \in Seq(LoggedRow) :
           /\ task' = Flush(s, rows)
           /\ waiting' = [waiting EXCEPT ![s] = <<>>] /\ waiting[s] # <<>>
           /\ UNCHANGED <<cursor, calls, turn, logged>>
           /\ DOMAIN rows = DOMAIN waiting[s]
           /\ \A k \in DOMAIN rows : rows[k].of = waiting[s][k].of
           /\ \A k \in DOMAIN rows : \A c \in calls : c.seq < rows[k].seq
           /\ \A j, k \in DOMAIN rows : j < k => rows[j].seq < rows[k].seq
      BY <2>4, AppendEventsOf
    <3>2. \A u \in Session : WaitOk(u)'
      BY <2>1, <3>1, WaitKeeps
    <3>3. RowsFit(rows, s)'
      BY <3>1 DEF WaitOk, RowsFit
    <3>4. task'.session = s /\ task'.rows = rows
      BY <3>1 DEF Flush
    <3>5. turn'[s].phase # "idle"
      BY <3>1 DEF TurnInv
    <3>6. FlushOk'
      BY <3>1, <3>3, <3>4, <3>5 DEF FlushOk, RowsFit
    <3>. QED BY <3>2, <3>6
  <2>5. CASE writeTurnEnd(s) \/ writeDelete(s)
    <3>1. UNCHANGED <<waiting, logged>> /\ cursor' = cursor + 1
      BY <2>5 DEF writeTurnEnd, writeDelete, insertMarker
    <3>2. task' = NoTask \/ task' = EndMark(s)
      BY <2>5 DEF writeTurnEnd, writeDelete
    <3>3. \A u \in Session : WaitOk(u)'
      BY <2>1, <3>1, WaitKeeps
    <3>. QED BY <3>2, <3>3, NoFlush
  <2>6. CASE turnEnded(s)
    <3>1. UNCHANGED <<waiting, logged, cursor>> /\ task' = NoTask
      BY <2>6 DEF turnEnded
    <3>2. \A u \in Session : WaitOk(u)'
      BY <2>1, <3>1, WaitKeeps
    <3>. QED BY <3>1, <3>2, NoFlush
  <2>. QED BY <1>3, <2>2, <2>3, <2>4, <2>5, <2>6 DEF Sessionwise
<1>4. CASE reload
  BY <1>4, NothingFits, NoFlush DEF reload, WaitOk
<1>5. CASE inserted
  <2>1. UNCHANGED <<waiting, logged, turn>> /\ task' = NoTask
    BY <1>5 DEF inserted
  <2>2. cursor' >= cursor
    BY <1>5, InsertedTyped
  <2>3. \A u \in Session : WaitOk(u)'
    BY <2>1, <2>2, WaitKeeps
  <2>. QED BY <2>1, <2>3, NoFlush
<1>6. CASE ages
  <2>1. UNCHANGED <<waiting, logged, turn, cursor, task, calls>>
    BY <1>6 DEF ages
  <2>. QED BY <2>1, WaitKeeps, FlushKeeps
<1>7. CASE foreign
  <2>1. UNCHANGED <<waiting, logged, turn, cursor, task>> /\ task.op # "flush"
    BY <1>7 DEF foreign
  <2>2. FlushOk'
    BY <2>1 DEF FlushOk
  <2>. QED BY <2>1, <2>2, WaitKeeps
<1>. QED BY <1>2, <1>3, <1>4, <1>5, <1>6, <1>7, StepCases

-----------------------------------------------------------------------------
(* Rows in the table.                                                      *)
RowOk(c) ==
  LET s == c.of.run.session
  IN /\ c.of \in EventRow
     /\ c.of.run \in Begun /\ c.seq <= cursor
     /\ c.of.turn <= turn[s].no /\ c.of.no <= logged
     /\ c.of.turn = turn[s].no /\ turn[s].phase # "idle" => c.of.run = turn[s].run
BeforeWaiting(c) ==
  \A k \in DOMAIN waiting[c.of.run.session] : c.of.no < waiting[c.of.run.session][k].of.no
BeforeFlush(c) ==
  task.op = "flush" =>
    (task.session = c.of.run.session => \A k \in DOMAIN task.rows : c.of.no < task.rows[k].of.no)

LEMMA TableSplit ==
  TableInv <=> \A c \in Events(calls) : RowOk(c) /\ BeforeWaiting(c) /\ BeforeFlush(c)
  BY DEF TableInv, RowOk, BeforeWaiting, BeforeFlush

LEMMA RowTyped ==
  ASSUME NEW c, RowOk(c)
  PROVE  /\ c.of.run \in Begun /\ c.of.run.session \in Session /\ c.of.run # NoRun
         /\ c.of.turn \in Nat /\ c.of.no \in Nat
  BY DEF RowOk, EventRow, Begun, Runs, NoRun

(* A row stays what it is while its session keeps its turn or begins the   *)
(* next one.                                                               *)
TurnOn(s) ==
  \/ /\ turn'[s].no = turn[s].no
     /\ turn'[s].phase # "idle" => turn[s].phase # "idle" /\ turn'[s].run = turn[s].run
  \/ turn'[s].no = turn[s].no + 1

LEMMA RowKeeps ==
  ASSUME TypeInv, TypeInv', Begun \subseteq Begun', NEW c, RowOk(c), c.seq <= cursor',
         logged <= logged', TurnOn(c.of.run.session)
  PROVE  RowOk(c)'
<1>1. PICK s : s = c.of.run.session
  OBVIOUS
<1>2. s \in Session /\ c.of.turn \in Nat /\ c.of.no \in Nat
  BY <1>1, RowTyped
<1>3. turn[s].no \in Nat /\ logged \in Nat /\ logged' \in Nat
  BY <1>2 DEF TypeInv, TurnState
<1>. QED BY <1>1, <1>2, <1>3 DEF RowOk, TurnOn

(* The new rows of memory come after those of the table.                   *)
LEMMA BehindTable ==
  ASSUME TypeInv, TurnInv, NEW s \in Session, Logs(s), turn[s].phase # "idle",
         NEW c, RowOk(c), BeforeWaiting(c)
  PROVE  BeforeWaiting(c)'
<1>1. PICK u : u = c.of.run.session
  OBVIOUS
<1>2. u \in Session /\ c.of.no \in Nat /\ c.of.no <= logged /\ logged \in Nat
  BY <1>1, RowTyped DEF RowOk, TypeInv
<1>3. CASE u # s
  BY <1>1, <1>2, <1>3, LogsOf DEF BeforeWaiting
<1>4. CASE u = s
  <2>1. waiting'[s] = Append(waiting[s], NextRow(s)) /\ NextRow(s) \in LoggedRow
    BY LogsOf
  <2>2. NextRow(s).of.no = logged + 1
    BY DEF NextRow
  <2>3. PICK q, r, n : q = waiting[s] /\ r = NextRow(s) /\ n = Len(q) + 1
    OBVIOUS
  <2>4. q \in Seq(LoggedRow)
    BY <2>3 DEF TypeInv
  <2>5. /\ DOMAIN Append(q, r) = DOMAIN q \cup {n} /\ Append(q, r)[n] = r
        /\ \A k \in DOMAIN q : Append(q, r)[k] = q[k]
    BY <2>1, <2>3, <2>4, AppendOf
  <2>6. \A k \in DOMAIN q : c.of.no < q[k].of.no
    BY <1>1, <1>4, <2>3 DEF BeforeWaiting
  <2>7. \A k \in DOMAIN Append(q, r) : c.of.no < Append(q, r)[k].of.no
    BY <1>2, <2>2, <2>3, <2>5, <2>6
  <2>. QED BY <1>1, <1>4, <2>1, <2>3, <2>7 DEF BeforeWaiting
<1>. QED BY <1>3, <1>4

LEMMA WaitingKeeps ==
  ASSUME NEW c, BeforeWaiting(c),
         waiting'[c.of.run.session] \in {waiting[c.of.run.session], <<>>}
  PROVE  BeforeWaiting(c)'
  BY EmptySeq DEF BeforeWaiting

LEMMA FlushStays ==
  ASSUME NEW c, BeforeFlush(c), UNCHANGED task \/ task' = NoTask \/ \E s : task' = EndMark(s)
  PROVE  BeforeFlush(c)'
  BY DEF BeforeFlush, NoTask, EndMark

LEMMA NextTable ==
  ASSUME LogInv, LogNext
  PROVE  TableInv'
<1>1. /\ TypeInv /\ TurnInv /\ MarkInv /\ MemoryInv /\ Begun \subseteq Begun' /\ TypeInv'
      /\ OrderInv
      /\ \A c \in Events(calls) : RowOk(c) /\ BeforeWaiting(c) /\ BeforeFlush(c)
      /\ turn \in [Session -> TurnState] /\ waiting \in [Session -> Seq(LoggedRow)]
      /\ cursor \in Nat /\ logged \in Nat /\ \A c \in calls : c.seq \in Nat
  BY BegunStays, NextTypes, TableSplit DEF LogInv, TypeInv
<1>. USE <1>1
<1>. DEFINE Ok(c) == RowOk(c)' /\ BeforeWaiting(c)' /\ BeforeFlush(c)'
<1>. SUFFICES \A c \in Events(calls') : Ok(c)
  <2>1. (\A c \in Events(calls) : RowOk(c) /\ BeforeWaiting(c) /\ BeforeFlush(c))' => TableInv'
    BY TableSplit, PTL
  <2>. QED BY <2>1 DEF Events
<1>0. \A c \in Events(calls) : c.of.run.session \in Session /\ c.seq <= cursor /\ c.seq \in Nat
  BY RowTyped DEF RowOk, Events
<1>2. ASSUME NEW s \in Session, startTurn(s), NEW c \in Events(calls') PROVE Ok(c)
  <2>1. UNCHANGED <<waiting, task, cursor, logged, calls>>
    BY <1>2, StartOf
  <2>2. TurnOn(c.of.run.session)
    BY <1>0, <1>2, <2>1, StartRun DEF TurnOn
  <2>3. c \in Events(calls) /\ c.seq <= cursor' /\ logged <= logged'
    BY <1>0, <1>2, <2>1
  <2>4. RowOk(c)'
    BY <2>2, <2>3, RowKeeps
  <2>. QED BY <1>2, <2>1, <2>4, WaitingKeeps, FlushStays
<1>3. ASSUME NEW s \in Session, Sessionwise(s), ~startTurn(s), NEW c \in Events(calls') PROVE Ok(c)
  <2>1. \A u \in Session : /\ turn'[u].no = turn[u].no /\ turn'[u].run = turn[u].run
                           /\ turn'[u].phase # "idle" => turn[u].phase # "idle"
    BY <1>3, TurnChanges
  <2>2. c \in Events(calls)
    <3>1. CASE writeTurnEnd(s)
      <4>1. calls' = calls \/ calls' = calls \cup {[seq |-> cursor + 1, of |-> EndRow(s)]}
        BY <3>1, InsertOf DEF writeTurnEnd
      <4>2. EndRow(s).kind = "web_turn_end"
        BY DEF EndRow
      <4>. QED BY <1>3, <4>1, <4>2 DEF Events
    <3>2. CASE writeDelete(s)
      <4>1. PICK of : insertMarker(s, of) /\ of.kind = "web_session_delete"
        BY <3>2 DEF writeDelete
      <4>2. calls' = calls \/ calls' = calls \cup {[seq |-> cursor + 1, of |-> of]}
        BY <4>1, InsertOf
      <4>. QED BY <1>3, <4>1, <4>2 DEF Events
    <3>3. CASE turnEnded(s)
      BY <1>3, <3>3, TrimOf DEF turnEnded, Events
    <3>4. CASE ~(writeTurnEnd(s) \/ writeDelete(s) \/ turnEnded(s))
      <4>1. UNCHANGED calls
        BY <1>3, <3>4 DEF Sessionwise, log, pause, saveCheckpoint, finish, stop, appendEvents
      <4>. QED BY <1>3, <4>1
    <3>. QED BY <3>1, <3>2, <3>3, <3>4
  <2>0. TurnOn(c.of.run.session)
    BY <1>0, <2>1, <2>2 DEF TurnOn
  <2>3. CASE log(s) \/ pause(s)
    <3>1. /\ cursor' = cursor + 1 /\ logged' = logged + 1 /\ UNCHANGED task /\ Logs(s)
          /\ turn[s].phase # "idle"
      BY <2>3 DEF log, pause, Logs
    <3>2. c.seq <= cursor'
      BY <1>0, <2>2, <3>1
    <3>3. RowOk(c)'
      BY <1>0, <2>0, <2>2, <3>1, <3>2, RowKeeps
    <3>4. BeforeWaiting(c)'
      BY <2>2, <3>1, BehindTable
    <3>. QED BY <2>2, <3>1, <3>3, <3>4, FlushStays
  <2>4. CASE appendEvents(s)
    <3>1. PICK rows \in Seq(LoggedRow) :
           /\ task' = Flush(s, rows)
           /\ waiting' = [waiting EXCEPT ![s] = <<>>]
           /\ UNCHANGED <<cursor, calls, turn, logged>>
           /\ DOMAIN rows = DOMAIN waiting[s]
           /\ \A k \in DOMAIN rows : rows[k].of = waiting[s][k].of
      BY <2>4, AppendEventsOf
    <3>2. RowOk(c)'
      BY <1>0, <2>0, <2>2, <3>1, RowKeeps
    <3>3. BeforeWaiting(c)'
      BY <1>0, <2>2, <3>1, WaitingKeeps
    <3>4. task'.session = s /\ task'.rows = rows
      BY <3>1 DEF Flush
    <3>5. BeforeFlush(c)'
      BY <2>2, <3>1, <3>4 DEF BeforeWaiting, BeforeFlush
    <3>. QED BY <3>2, <3>3, <3>5
  <2>5. CASE ~(log(s) \/ pause(s) \/ appendEvents(s))
    <3>1. /\ UNCHANGED <<waiting, logged>> /\ cursor' \in {cursor, cursor + 1}
          /\ UNCHANGED task \/ task' = NoTask \/ task' = EndMark(s)
      BY <1>3, <2>5 DEF Sessionwise, saveCheckpoint, finish, stop, writeTurnEnd, writeDelete,
         turnEnded, insertMarker
    <3>2. c.seq <= cursor'
      BY <1>0, <2>2, <3>1
    <3>3. RowOk(c)'
      BY <1>0, <2>0, <2>2, <3>1, <3>2, RowKeeps
    <3>. QED BY <2>2, <3>1, <3>3, WaitingKeeps, FlushStays
  <2>. QED BY <2>3, <2>4, <2>5
<1>4. ASSUME reload, NEW c \in Events(calls') PROVE Ok(c)
  <2>1. c \in Events(calls) /\ c \in calls'
    BY <1>4, TrimOf DEF reload, Events
  <2>2. c.seq <= cursor'
    <3>1. (\A r \in calls' : r.seq \in Nat) /\ Bounded(calls')
      BY DEF TypeInv, Bounded
    <3>. QED BY <1>4, <2>1, <3>1, MaxSeqOf DEF reload
  <2>3. UNCHANGED logged /\ task' = NoTask /\ \A u \in Session : waiting'[u] = <<>>
        /\ turn'[u].no = turn[u].no /\ turn'[u].phase = "idle"
    BY <1>4 DEF reload, NoTurnYet
  <2>4. TurnOn(c.of.run.session) /\ logged <= logged'
    BY <1>0, <2>1, <2>3 DEF TurnOn
  <2>5. RowOk(c)'
    BY <2>1, <2>2, <2>4, RowKeeps
  <2>. QED BY <1>0, <2>1, <2>3, <2>5, WaitingKeeps, FlushStays
<1>5. ASSUME inserted, NEW c \in Events(calls') PROVE Ok(c)
  <2>1. /\ calls' = calls \cup SeqRange(task.rows) /\ task.op = "flush"
        /\ UNCHANGED <<waiting, logged, turn>> /\ task' = NoTask
    BY <1>5 DEF inserted
  <2>2. cursor' \in Nat /\ cursor' >= cursor /\ \A k \in DOMAIN task.rows : task.rows[k].seq <= cursor'
    BY <1>5, InsertedTyped
  <2>3. CASE c \in calls
    <3>1. c \in Events(calls) /\ c.seq <= cursor'
      BY <1>0, <1>5, <2>2, <2>3 DEF Events
    <3>2. RowOk(c)'
      BY <2>1, <3>1, RowKeeps DEF TurnOn
    <3>. QED BY <2>1, <3>1, <3>2, WaitingKeeps, FlushStays
  <2>4. CASE c \in SeqRange(task.rows)
    <3>1. PICK k \in DOMAIN task.rows : c = task.rows[k]
      BY <2>4 DEF SeqRange
    <3>2. PICK s : s = task.session
      OBVIOUS
    <3>3. s \in Session /\ c \in LoggedRow
      BY <2>1, <3>1, <3>2, FlushOf
    <3>4. c.of.run = turn[s].run /\ c.of.turn = turn[s].no /\ c.of.no <= logged
      BY <2>1, <3>1, <3>2 DEF MemoryInv, RowsFit
    <3>5. c.of \in EventRow /\ c.of.run # NoRun
      BY <3>3 DEF LoggedRow, EventRow, Runs, NoRun
    <3>6. c.of.run \in Begun /\ c.of.run.session = s
      BY <3>3, <3>4, <3>5 DEF TurnInv
    <3>7. turn[s].no \in Nat
      BY <3>3 DEF TurnState
    <3>8. RowOk(c)'
      BY <2>1, <2>2, <3>1, <3>4, <3>5, <3>6, <3>7 DEF RowOk
    <3>9. BeforeWaiting(c)'
      BY <2>1, <3>1, <3>2, <3>6 DEF OrderInv, BeforeWaiting
    <3>10. BeforeFlush(c)'
      BY <2>1 DEF BeforeFlush, NoTask
    <3>. QED BY <3>8, <3>9, <3>10
  <2>. QED BY <1>5, <2>1, <2>3, <2>4 DEF Events
<1>6. ASSUME ages, NEW c \in Events(calls') PROVE Ok(c)
  <2>1. UNCHANGED <<waiting, logged, turn, cursor, task, calls>>
    BY <1>6 DEF ages
  <2>. QED BY <1>0, <1>6, <2>1, RowKeeps, WaitingKeeps, FlushStays DEF TurnOn
<1>7. ASSUME foreign, NEW c \in Events(calls') PROVE Ok(c)
  <2>1. UNCHANGED <<waiting, logged, turn, cursor, task>> /\ c \in Events(calls)
    BY <1>7 DEF foreign, Events
  <2>. QED BY <1>0, <2>1, RowKeeps, WaitingKeeps, FlushStays DEF TurnOn
<1>. QED BY <1>2, <1>3, <1>4, <1>5, <1>6, <1>7, StepCases

-----------------------------------------------------------------------------
(* Numbers and the order of the rows of a run.                             *)
LEMMA NextOrder ==
  ASSUME LogInv, LogNext
  PROVE  OrderInv'
<1>1. /\ TypeInv /\ TurnInv /\ MarkInv /\ MemoryInv /\ OrderInv /\ TableInv
      /\ turn \in [Session -> TurnState] /\ waiting \in [Session -> Seq(LoggedRow)]
      /\ logged \in Nat
  BY DEF LogInv, TypeInv
<1>. USE <1>1
<1>. DEFINE Rows == \A c, d \in Events(calls) :
                      c.of.run = d.of.run /\ c.seq < d.seq => c.of.no < d.of.no
            Pending == task.op = "flush" =>
                         \A j \in DOMAIN task.rows : \A k \in DOMAIN waiting[task.session] :
                           task.rows[j].of.no < waiting[task.session][k].of.no
<1>0. Rows /\ Pending
  BY DEF OrderInv
<1>. SUFFICES Rows' /\ Pending'
  BY DEF OrderInv
<1>2. Events(calls') \subseteq Events(calls) => Rows'
  BY <1>0 DEF Events
<1>3. /\ UNCHANGED <<task, waiting>> => Pending'
      /\ task'.op # "flush" => Pending'
      /\ task' = NoTask => task'.op # "flush"
      /\ \A s : task' = EndMark(s) => task'.op # "flush"
  <2>1. ASSUME UNCHANGED <<task, waiting>> PROVE Pending'
    <3>1. task' = task /\ waiting' = waiting
      BY <2>1
    <3>. QED BY <1>0, <3>1
  <2>2. (task' = NoTask => task'.op # "flush") /\ \A s : task' = EndMark(s) => task'.op # "flush"
    BY DEF NoTask, EndMark
  <2>. QED BY <2>1, <2>2
<1>4. ASSUME NEW s \in Session, Sessionwise(s) PROVE Rows' /\ Pending'
  <2>1. Events(calls') \subseteq Events(calls)
    <3>1. CASE writeTurnEnd(s)
      <4>1. calls' = calls \/ calls' = calls \cup {[seq |-> cursor + 1, of |-> EndRow(s)]}
        BY <3>1, InsertOf DEF writeTurnEnd
      <4>2. EndRow(s).kind = "web_turn_end"
        BY DEF EndRow
      <4>. QED BY <4>1, <4>2 DEF Events
    <3>2. CASE writeDelete(s)
      <4>1. PICK of : insertMarker(s, of) /\ of.kind = "web_session_delete"
        BY <3>2 DEF writeDelete
      <4>2. calls' = calls \/ calls' = calls \cup {[seq |-> cursor + 1, of |-> of]}
        BY <4>1, InsertOf
      <4>. QED BY <4>1, <4>2 DEF Events
    <3>3. CASE turnEnded(s)
      BY <3>3, TrimOf DEF turnEnded, Events
    <3>4. CASE ~(writeTurnEnd(s) \/ writeDelete(s) \/ turnEnded(s))
      <4>1. UNCHANGED calls
        BY <1>4, <3>4, StartOf DEF Sessionwise, log, pause, saveCheckpoint, finish, stop, appendEvents
      <4>. QED BY <4>1
    <3>. QED BY <3>1, <3>2, <3>3, <3>4
  <2>2. CASE log(s) \/ pause(s)
    <3>1. /\ UNCHANGED task /\ Logs(s) /\ turn[s].phase # "idle"
      BY <2>2 DEF log, pause
    <3>2. SUFFICES ASSUME task.op = "flush" PROVE Pending'
      BY <1>2, <2>1, <3>1
    <3>3. PICK u, rows : u = task.session /\ rows = task.rows
      OBVIOUS
    <3>4. u \in Session /\ \A j \in DOMAIN rows : rows[j] \in LoggedRow
      BY <3>2, <3>3, FlushOf
    <3>5. \A j \in DOMAIN rows : rows[j].of.no \in Nat /\ rows[j].of.no <= logged
      BY <3>2, <3>3, <3>4 DEF MemoryInv, RowsFit, LoggedRow, EventRow
    <3>6. CASE u # s
      BY <1>0, <3>1, <3>2, <3>3, <3>4, <3>6, LogsOf
    <3>7. CASE u = s
      <4>1. waiting'[s] = Append(waiting[s], NextRow(s)) /\ NextRow(s) \in LoggedRow
        BY <3>1, LogsOf
      <4>2. NextRow(s).of.no = logged + 1
        BY DEF NextRow
      <4>3. PICK q, r, n : q = waiting[s] /\ r = NextRow(s) /\ n = Len(q) + 1
        OBVIOUS
      <4>4. q \in Seq(LoggedRow)
        BY <4>3
      <4>5. /\ DOMAIN Append(q, r) = DOMAIN q \cup {n} /\ Append(q, r)[n] = r
            /\ \A k \in DOMAIN q : Append(q, r)[k] = q[k]
        BY <4>1, <4>3, <4>4, AppendOf
      <4>6. \A j \in DOMAIN rows : \A k \in DOMAIN q : rows[j].of.no < q[k].of.no
        BY <1>0, <3>2, <3>3, <3>7, <4>3
      <4>7. \A j \in DOMAIN rows : \A k \in DOMAIN Append(q, r) :
              rows[j].of.no < Append(q, r)[k].of.no
        BY <3>5, <4>2, <4>3, <4>5, <4>6
      <4>. QED BY <3>1, <3>3, <3>7, <4>1, <4>3, <4>7
    <3>. QED BY <3>6, <3>7
  <2>3. CASE appendEvents(s)
    <3>1. \E rows : task' = Flush(s, rows) /\ waiting' = [waiting EXCEPT ![s] = <<>>]
      BY <2>3, AppendEventsOf
    <3>2. task'.session = s /\ waiting'[s] = <<>>
      BY <3>1 DEF Flush
    <3>3. Pending'
      BY <3>2, EmptySeq
    <3>. QED BY <1>2, <2>1, <3>3
  <2>4. CASE ~(log(s) \/ pause(s) \/ appendEvents(s))
    <3>1. UNCHANGED waiting /\ (UNCHANGED task \/ task' = NoTask \/ task' = EndMark(s))
      BY <1>4, <2>4, StartOf DEF Sessionwise, saveCheckpoint, finish, stop, writeTurnEnd,
         writeDelete, turnEnded
    <3>. QED BY <1>2, <1>3, <2>1, <3>1
  <2>. QED BY <2>2, <2>3, <2>4
<1>5. CASE inserted
  <2>1. calls' = calls \cup SeqRange(task.rows) /\ task.op = "flush" /\ task' = NoTask
    BY <1>5 DEF inserted
  <2>2. PICK s, rows : s = task.session /\ rows = task.rows
    OBVIOUS
  <2>3. /\ s \in Session /\ Len(rows) \in Nat /\ DOMAIN rows = 1 .. Len(rows)
        /\ \A k \in DOMAIN rows : rows[k] \in LoggedRow
    BY <2>1, <2>2, FlushOf
  <2>4. /\ \A k \in DOMAIN rows : rows[k].of.run = turn[s].run
        /\ \A j, k \in DOMAIN rows :
             j < k => rows[j].seq < rows[k].seq /\ rows[j].of.no < rows[k].of.no
        /\ \A k \in DOMAIN rows : \A c \in calls : c.seq < rows[k].seq
    BY <2>1, <2>2 DEF MemoryInv, RowsFit
  <2>5. \A k \in DOMAIN rows : /\ rows[k].of.run.session = s /\ rows[k].seq \in Nat
                               /\ rows[k].of.no \in Nat
    <3>1. \A k \in DOMAIN rows : rows[k].of.run \in Runs /\ rows[k].seq \in Nat /\ rows[k].of.no \in Nat
      BY <2>3 DEF LoggedRow, EventRow
    <3>2. \A r \in Runs : r # NoRun
      BY DEF Runs, NoRun
    <3>. QED BY <2>3, <2>4, <3>1, <3>2 DEF TurnInv
  <2>6. \A c \in Events(calls) : c.seq \in Nat
    BY DEF Events, TypeInv
  <2>7. ASSUME NEW c \in Events(calls'), NEW d \in Events(calls'),
               c.of.run = d.of.run, c.seq < d.seq
        PROVE  c.of.no < d.of.no
    <3>1. CASE c \in calls /\ d \in calls
      BY <1>0, <2>7, <3>1 DEF Events
    <3>2. ASSUME NEW k \in DOMAIN rows, d = rows[k], c \in calls PROVE c.of.no < d.of.no
      <4>1. c \in Events(calls) /\ c.of.run.session = s
        BY <2>5, <2>7, <3>2 DEF Events
      <4>. QED BY <2>1, <2>2, <3>2, <4>1 DEF TableInv
    <3>3. ASSUME NEW j \in DOMAIN rows, c = rows[j], d \in calls PROVE FALSE
      <4>1. d.seq < c.seq /\ d.seq \in Nat /\ c.seq \in Nat
        BY <2>4, <2>5, <3>3 DEF TypeInv
      <4>. QED BY <2>7, <4>1
    <3>4. ASSUME NEW j \in DOMAIN rows, NEW k \in DOMAIN rows, c = rows[j], d = rows[k]
          PROVE  c.of.no < d.of.no
      <4>1. j < k
        BY <2>3, <2>4, <2>5, <2>7, <3>4
      <4>. QED BY <2>4, <3>4, <4>1
    <3>5. (c \in calls \/ \E j \in DOMAIN rows : c = rows[j])
          /\ (d \in calls \/ \E k \in DOMAIN rows : d = rows[k])
      BY <2>1, <2>2, <2>7 DEF Events, SeqRange
    <3>. QED BY <3>1, <3>2, <3>3, <3>4, <3>5
  <2>. QED BY <1>3, <2>1, <2>7
<1>6. CASE reload
  <2>1. Events(calls') \subseteq Events(calls) /\ task' = NoTask
    BY <1>6, TrimOf DEF reload, Events
  <2>. QED BY <1>2, <1>3, <2>1
<1>7. CASE ages
  BY <1>2, <1>3, <1>7 DEF ages
<1>8. CASE foreign
  <2>1. Events(calls') \subseteq Events(calls) /\ UNCHANGED <<task, waiting>>
    BY <1>8 DEF foreign, Events
  <2>. QED BY <1>2, <1>3, <2>1
<1>. QED BY <1>4, <1>5, <1>6, <1>7, <1>8, StepCases

(* No two rows share a number.                                             *)
OneNumber == \A c, d \in calls : c.seq = d.seq => c = d

LEMMA FlushIsNew ==
  TypeInv /\ MemoryInv =>
    (task.op = "flush" => SeqsOf(SeqRange(task.rows)) \cap SeqsOf(calls) = {})
<1>1. SUFFICES ASSUME TypeInv, MemoryInv, task.op = "flush"
               PROVE  SeqsOf(SeqRange(task.rows)) \cap SeqsOf(calls) = {}
  OBVIOUS
<1>2. \A k \in DOMAIN task.rows : task.rows[k].seq \in Nat
  BY <1>1, FlushOf DEF LoggedRow
<1>3. \A k \in DOMAIN task.rows : \A c \in calls : c.seq # task.rows[k].seq
  BY <1>1, <1>2 DEF MemoryInv, TypeInv
<1>. QED BY <1>3 DEF SeqsOf, SeqRange

LEMMA NextNumbers ==
  ASSUME LogInv, LogNext
  PROVE  NumbersAreUnique'
<1>1. TypeInv /\ MemoryInv /\ TypeInv' /\ MemoryInv' /\ OneNumber
      /\ cursor \in Nat /\ \A c \in calls : c.seq \in Nat
  BY NextTypes, NextMemory DEF LogInv, TypeInv, NumbersAreUnique, OneNumber
<1>. USE <1>1
<1>2. OneNumber' => NumbersAreUnique'
  <2>1. (task.op = "flush" => SeqsOf(SeqRange(task.rows)) \cap SeqsOf(calls) = {})'
    BY FlushIsNew, PTL
  <2>. QED BY <2>1 DEF OneNumber, NumbersAreUnique
<1>. SUFFICES OneNumber'
  BY <1>2
<1>3. calls' \subseteq calls => OneNumber'
  BY DEF OneNumber
<1>4. ASSUME NEW r, calls' = calls \cup {r}, \A c \in calls : c.seq # r.seq PROVE OneNumber'
  BY <1>4 DEF OneNumber
<1>5. ASSUME NEW s \in Session, Sessionwise(s) PROVE OneNumber'
  <2>1. ASSUME NEW of, insertMarker(s, of) PROVE OneNumber'
    <3>1. PICK r : r = [seq |-> cursor + 1, of |-> of]
      OBVIOUS
    <3>2. r.seq = cursor + 1
      BY <3>1
    <3>3. calls' = calls \/ (calls' = calls \cup {r} /\ \A c \in calls : c.seq # cursor + 1)
      BY <2>1, <3>1, InsertOf
    <3>. QED BY <1>3, <1>4, <3>2, <3>3
  <2>2. CASE writeTurnEnd(s) \/ writeDelete(s)
    BY <2>1, <2>2 DEF writeTurnEnd, writeDelete
  <2>3. CASE turnEnded(s)
    BY <1>3, <2>3, TrimOf DEF turnEnded
  <2>4. CASE ~(writeTurnEnd(s) \/ writeDelete(s) \/ turnEnded(s))
    <3>1. UNCHANGED calls
      BY <1>5, <2>4, StartOf DEF Sessionwise, log, pause, saveCheckpoint, finish, stop, appendEvents
    <3>. QED BY <1>3, <3>1
  <2>. QED BY <2>2, <2>3, <2>4
<1>6. CASE inserted
  <2>1. calls' = calls \cup SeqRange(task.rows) /\ task.op = "flush"
    BY <1>6 DEF inserted
  <2>2. PICK s, rows : s = task.session /\ rows = task.rows
    OBVIOUS
  <2>3. /\ Len(rows) \in Nat /\ DOMAIN rows = 1 .. Len(rows)
        /\ \A k \in DOMAIN rows : rows[k].seq \in Nat
    BY <2>1, <2>2, FlushOf DEF LoggedRow
  <2>4. /\ \A j, k \in DOMAIN rows : j < k => rows[j].seq < rows[k].seq
        /\ \A k \in DOMAIN rows : \A c \in calls : c.seq < rows[k].seq
    BY <2>1, <2>2 DEF MemoryInv, RowsFit
  <2>5. \A j, k \in DOMAIN rows : rows[j].seq = rows[k].seq => j = k
    BY <2>3, <2>4
  <2>6. \A k \in DOMAIN rows : \A c \in calls : c.seq # rows[k].seq
    BY <2>3, <2>4
  <2>7. calls' = calls \cup {rows[k] : k \in DOMAIN rows}
    BY <2>1, <2>2 DEF SeqRange
  <2>. QED BY <2>5, <2>6, <2>7 DEF OneNumber
<1>7. CASE reload
  BY <1>3, <1>7, TrimOf DEF reload
<1>8. CASE ages
  BY <1>3, <1>8 DEF ages
<1>9. CASE foreign
  <2>1. MaxSeq(calls) \in Nat /\ \A c \in calls : c.seq <= MaxSeq(calls)
    BY MaxSeqOf DEF TypeInv
  <2>2. PICK r : r = [seq |-> MaxSeq(calls) + 1, of |-> [kind |-> "other", run |-> NoRun]]
    OBVIOUS
  <2>3. r.seq = MaxSeq(calls) + 1 /\ calls' = calls \cup {r}
    BY <1>9, <2>2 DEF foreign
  <2>4. \A c \in calls : c.seq # r.seq
    BY <2>1, <2>3
  <2>. QED BY <1>4, <2>3, <2>4
<1>. QED BY <1>5, <1>6, <1>7, <1>8, <1>9, StepCases

-----------------------------------------------------------------------------
(* Markers.                                                                *)
LEMMA MarkedUpToOf ==
  ASSUME TypeInv, NEW run, run.session \in Session
  PROVE  \/ /\ MarkedUpTo(calls, run) = 0
            /\ \A n \in EndMarks(calls) : n.of.run.session # run.session
         \/ \E m \in EndMarks(calls) :
              /\ m.of.run.session = run.session
              /\ \A n \in EndMarks(calls) : n.of.run.session = run.session => n.seq <= m.seq
              /\ MarkedUpTo(calls, run) = IF m.of.run = run THEN m.of.to ELSE 0
<1>. DEFINE last == MarkersOf(calls, run.session)
            m == CHOOSE c \in last : c.seq = MaxSeq(last)
<1>1. CASE last = {}
  BY <1>1 DEF MarkedUpTo, MarkersOf, EndMarks
<1>2. CASE last # {}
  <2>1. /\ \A r \in last : r.seq <= MaxSeq(last)
        /\ \E r \in last : r.seq = MaxSeq(last)
    BY <1>2, MaxSeqOf, PartBounded DEF MarkersOf, TypeInv
  <2>2. m \in last /\ m.seq = MaxSeq(last)
    BY <2>1
  <2>3. MarkedUpTo(calls, run) = IF m.of.run = run THEN m.of.to ELSE 0
    BY <1>2 DEF MarkedUpTo
  <2>. QED BY <2>1, <2>2, <2>3 DEF MarkersOf, EndMarks
<1>. QED BY <1>1, <1>2

(* The marker of a turn: it is the last of its session, behind all rows of *)
(* its run, and starts where the last marker of that run ended.            *)
LEMMA EndRowOf ==
  ASSUME TypeInv, TurnInv, TableInv, MarkInv, NEW s \in Session, writeTurnEnd(s)
  PROVE  /\ EndRow(s).kind = "web_turn_end" /\ EndRow(s).run = turn[s].run
         /\ turn[s].run \in Begun /\ turn[s].run.session = s
         /\ EndRow(s).turn = turn[s].no /\ turn[s].no \in Nat
         /\ EndRow(s).from = MarkedUpTo(calls, turn[s].run) /\ EndRow(s).from \in Nat
         /\ EndRow(s).to \in Nat /\ EndRow(s).to <= cursor
         /\ \A c \in Events(calls) : c.of.run = turn[s].run => c.seq <= EndRow(s).to
         /\ turn[s].phase = "ending" /\ task = NoTask /\ task # EndMark(s)
<1>1. turn[s].phase = "ending" /\ task = NoTask /\ task # EndMark(s)
  BY DEF writeTurnEnd, NoTask, EndMark
<1>2. turn[s].run \in Begun /\ turn[s].run.session = s /\ turn[s].no \in Nat
  BY <1>1 DEF TurnInv, TypeInv, TurnState
<1>3. MarkedUpTo(calls, turn[s].run) \in Nat
  BY <1>2, MarkedUpToOf DEF MarkInv, MarkOk
<1>. DEFINE mine == RowsOf(calls, turn[s].run)
<1>4. /\ MaxSeq(mine) \in Nat
      /\ \A r \in mine : r.seq <= MaxSeq(mine)
      /\ mine # {} => \E r \in mine : r.seq = MaxSeq(mine)
      /\ mine = {} => MaxSeq(mine) = 0
  <2>1. mine \subseteq calls
    BY DEF RowsOf
  <2>2. Bounded(mine) /\ \A r \in mine : r.seq \in Nat
    BY <2>1, PartBounded DEF TypeInv
  <2>. HIDE DEF mine
  <2>. QED BY <2>2, MaxSeqOf DEF MaxSeq
<1>5. \A r \in mine : r.seq <= cursor
  BY DEF RowsOf, TableInv, Events
<1>6. MaxSeq(mine) <= cursor
  BY <1>4, <1>5 DEF TypeInv
<1>7. \A c \in Events(calls) : c.of.run = turn[s].run => c \in mine
  BY DEF RowsOf, Events
<1>8. /\ EndRow(s).kind = "web_turn_end" /\ EndRow(s).run = turn[s].run
      /\ EndRow(s).turn = turn[s].no /\ EndRow(s).from = MarkedUpTo(calls, turn[s].run)
      /\ EndRow(s).to = MaxSeq(mine)
  BY DEF EndRow
<1>. HIDE DEF mine, EndRow
<1>. QED BY <1>1, <1>2, <1>3, <1>4, <1>6, <1>7, <1>8

MarkTurnOn(s) ==
  \/ /\ turn'[s].no = turn[s].no
     /\ (turn'[s].phase # "idle" /\ task' # EndMark(s)) =>
          (turn[s].phase # "idle" /\ task # EndMark(s))
  \/ turn'[s].no = turn[s].no + 1

LEMMA MarkKeeps ==
  ASSUME TypeInv, TypeInv', Begun \subseteq Begun', NEW m, MarkOk(m), m.seq <= cursor',
         MarkTurnOn(m.of.run.session)
  PROVE  MarkOk(m)'
<1>1. PICK s : s = m.of.run.session
  OBVIOUS
<1>2. s \in Session /\ m.of.turn \in Nat
  BY <1>1 DEF MarkOk, Begun, Runs
<1>3. turn[s].no \in Nat
  BY <1>2 DEF TypeInv, TurnState
<1>. QED BY <1>1, <1>2, <1>3 DEF MarkOk, MarkTurnOn

LEMMA NextMarkTurns ==
  ASSUME LogInv, LogNext
  PROVE  \A s \in Session : MarkTurnOn(s)
<1>1. TypeInv /\ TurnInv /\ MarkInv /\ MemoryInv /\ turn \in [Session -> TurnState]
  BY DEF LogInv, TypeInv
<1>2. ASSUME NEW s \in Session, startTurn(s) PROVE \A u \in Session : MarkTurnOn(u)
  <2>1. UNCHANGED task
    BY <1>2, StartOf
  <2>. QED BY <1>1, <1>2, <2>1, StartRun DEF MarkTurnOn
<1>3. ASSUME NEW s \in Session, Sessionwise(s), ~startTurn(s) PROVE \A u \in Session : MarkTurnOn(u)
  <2>1. \A u \in Session : /\ turn'[u].no = turn[u].no
                           /\ turn'[u].phase # "idle" => turn[u].phase # "idle"
    BY <1>1, <1>3, TurnChanges
  <2>2. CASE turnEnded(s)
    <3>1. task = EndMark(s) /\ turn'[s].phase = "idle"
      BY <1>1, <2>2 DEF turnEnded, TurnState
    <3>2. \A u \in Session : u # s => task # EndMark(u)
      BY <3>1 DEF EndMark
    <3>. QED BY <2>1, <3>1, <3>2 DEF MarkTurnOn
  <2>3. CASE ~turnEnded(s)
    <3>1. UNCHANGED task \/ task = NoTask
      BY <1>3, <2>3 DEF Sessionwise, log, pause, saveCheckpoint, finish, stop, appendEvents,
         writeTurnEnd, writeDelete
    <3>2. \A u \in Session : NoTask # EndMark(u)
      BY DEF NoTask, EndMark
    <3>. QED BY <2>1, <3>1, <3>2 DEF MarkTurnOn
  <2>. QED BY <2>2, <2>3
<1>4. CASE reload
  BY <1>4 DEF reload, NoTurnYet, MarkTurnOn
<1>5. CASE inserted
  <2>1. \A u \in Session : task # EndMark(u)
    BY <1>5 DEF inserted, EndMark
  <2>. QED BY <1>5, <2>1 DEF inserted, MarkTurnOn
<1>6. CASE ages \/ foreign
  BY <1>6 DEF ages, foreign, MarkTurnOn
<1>. QED BY <1>2, <1>3, <1>4, <1>5, <1>6, StepCases

(* The marker that a turn leaves, if its number is free.                   *)
LEMMA NewMarkOf ==
  ASSUME TypeInv, TurnInv, TableInv, MarkInv, NEW s \in Session, writeTurnEnd(s)
  PROVE  \E x : /\ x.seq = cursor + 1 /\ x.of = EndRow(s)
                /\ EndMarks(calls') \subseteq EndMarks(calls) \cup {x}
                /\ Events(calls') \subseteq Events(calls)
                /\ x \in EndMarks(calls') => turn' = turn /\ task' = EndMark(s)
                /\ cursor' = cursor + 1
                /\ \A u \in Session : turn'[u].run = turn[u].run /\ turn'[u].no = turn[u].no
<1>1. PICK x : x = [seq |-> cursor + 1, of |-> EndRow(s)]
  OBVIOUS
<1>2. x.seq = cursor + 1 /\ x.of = EndRow(s) /\ x.of.kind = "web_turn_end"
  BY <1>1, EndRowOf
<1>3. cursor' = cursor + 1 /\ (calls' = calls \/ calls' = calls \cup {x})
  BY <1>1, InsertOf DEF writeTurnEnd
<1>4. /\ EndMarks(calls') \subseteq EndMarks(calls) \cup {x}
      /\ Events(calls') \subseteq Events(calls)
  BY <1>2, <1>3 DEF EndMarks, Events
<1>5. CASE Free
  <2>1. turn' = turn /\ task' = EndMark(s)
    BY <1>5 DEF writeTurnEnd
  <2>. QED BY <1>2, <1>3, <1>4, <2>1
<1>6. CASE ~Free
  <2>1. calls' = calls /\ turn' = [turn EXCEPT ![s].phase = "idle"]
    BY <1>6 DEF writeTurnEnd, insertMarker
  <2>2. \A u \in Session : turn'[u].run = turn[u].run /\ turn'[u].no = turn[u].no
    BY <2>1 DEF TypeInv, TurnState
  <2>3. x \notin EndMarks(calls)
    <3>1. \A m \in EndMarks(calls) : m.seq <= cursor
      BY DEF MarkInv, MarkOk
    <3>. QED BY <1>2, <3>1 DEF TypeInv
  <2>. QED BY <1>2, <1>3, <1>4, <2>1, <2>2, <2>3
<1>. QED BY <1>5, <1>6

LEMMA NextMarks ==
  ASSUME LogInv, LogNext
  PROVE  MarkInv'
<1>1. /\ TypeInv /\ TurnInv /\ MarkInv /\ MemoryInv /\ TableInv /\ NumbersAreUnique
      /\ Begun \subseteq Begun' /\ TypeInv'
      /\ turn \in [Session -> TurnState] /\ cursor \in Nat
      /\ \A s \in Session : MarkTurnOn(s)
  BY BegunStays, NextTypes, NextMarkTurns DEF LogInv, TypeInv
<1>. USE <1>1
<1>2. /\ \A m \in EndMarks(calls) :
           /\ MarkOk(m) /\ m.seq \in Nat /\ m.seq <= cursor /\ m \in calls
           /\ m.of.turn \in Nat /\ m.of.run \in Begun /\ m.of.run.session \in Session
           /\ m.of.run # NoRun
  BY DEF MarkInv, MarkOk, Begun, Runs, NoRun, TypeInv, EndMarks
<1>3. \A m, n \in EndMarks(calls) :
        m.of.run.session = n.of.run.session /\ m.seq < n.seq => m.of.turn < n.of.turn
  BY DEF MarkInv
<1>4. \A m, n \in EndMarks(calls) :
        (m.of.run.session = n.of.run.session /\ m.seq < n.seq) =>
          (m.of.run = turn[m.of.run.session].run => n.of.run = m.of.run)
  BY DEF MarkInv
<1>5. \A m, n, l \in EndMarks(calls) :
        (m.of.run.session = n.of.run.session /\ m.seq < n.seq /\ n.seq < l.seq) =>
          (m.of.run = l.of.run => n.of.run = m.of.run)
  BY DEF MarkInv
<1>6. \A m \in EndMarks(calls) : m.seq <= cursor' => MarkOk(m)'
  BY <1>2, MarkKeeps
<1>. DEFINE Upper(m, n) == m.of.run.session = n.of.run.session /\ m.seq < n.seq
<1>7. ASSUME NEW s \in Session, writeTurnEnd(s) PROVE MarkInv'
  <2>1. PICK x : /\ x.seq = cursor + 1 /\ x.of = EndRow(s)
                 /\ EndMarks(calls') \subseteq EndMarks(calls) \cup {x}
                 /\ x \in EndMarks(calls') => turn' = turn /\ task' = EndMark(s)
                 /\ cursor' = cursor + 1
                 /\ \A u \in Session : turn'[u].run = turn[u].run /\ turn'[u].no = turn[u].no
    BY <1>7, NewMarkOf
  <2>2. /\ x.of.run = turn[s].run /\ turn[s].run \in Begun /\ turn[s].run.session = s
        /\ x.of.turn = turn[s].no /\ turn[s].no \in Nat
        /\ x.of.from \in Nat /\ x.of.to \in Nat /\ x.of.to <= cursor
        /\ turn[s].phase # "idle" /\ task # EndMark(s)
    BY <1>7, <2>1, EndRowOf
  <2>3. \A m \in EndMarks(calls) : m.seq < x.seq /\ ~(x.seq < m.seq) /\ m.seq <= cursor'
    BY <1>2, <2>1
  <2>4. \A m \in EndMarks(calls) : m.of.run.session = s => m.of.turn < x.of.turn
    BY <1>2, <2>2 DEF MarkOk
  <2>5. x \in EndMarks(calls') => MarkOk(x)'
    <3>1. SUFFICES ASSUME x \in EndMarks(calls') PROVE MarkOk(x)'
      OBVIOUS
    <3>2. turn' = turn /\ task' = EndMark(s) /\ cursor' = cursor + 1
      BY <2>1, <3>1
    <3>3. x.of.run.session = s /\ x.of.run \in Begun'
      BY <2>2
    <3>4. x.of.to < x.seq /\ x.seq <= cursor' /\ x.of.turn <= turn'[s].no
      BY <2>1, <2>2, <3>2
    <3>. QED BY <2>2, <3>2, <3>3, <3>4 DEF MarkOk
  <2>6. \A m \in EndMarks(calls') : MarkOk(m)'
    BY <1>6, <2>1, <2>3, <2>5
  <2>7. \A m, n \in EndMarks(calls') : Upper(m, n) => m.of.turn < n.of.turn
    BY <1>3, <2>1, <2>2, <2>3, <2>4
  <2>8. \A m, n \in EndMarks(calls') :
          Upper(m, n) => (m.of.run = turn'[m.of.run.session].run => n.of.run = m.of.run)
    BY <1>2, <1>4, <2>1, <2>2, <2>3
  <2>9. \A m, n, l \in EndMarks(calls') :
          (Upper(m, n) /\ n.seq < l.seq) => (m.of.run = l.of.run => n.of.run = m.of.run)
    <3>1. SUFFICES ASSUME NEW m \in EndMarks(calls'), NEW n \in EndMarks(calls'),
                          NEW l \in EndMarks(calls'), Upper(m, n), n.seq < l.seq,
                          m.of.run = l.of.run
                   PROVE  n.of.run = m.of.run
      OBVIOUS
    <3>2. m \in EndMarks(calls) /\ n \in EndMarks(calls)
      BY <2>1, <2>3, <3>1
    <3>3. CASE l \in EndMarks(calls)
      BY <1>5, <3>1, <3>2, <3>3
    <3>4. CASE l = x
      BY <1>4, <2>2, <3>1, <3>2, <3>4
    <3>. QED BY <2>1, <3>1, <3>3, <3>4
  <2>. QED BY <2>6, <2>7, <2>8, <2>9 DEF MarkInv
<1>8. ASSUME EndMarks(calls') \subseteq EndMarks(calls),
             \A m \in EndMarks(calls') : m.seq <= cursor',
             \A s \in Session : \/ turn'[s].run = NoRun
                                \/ turn'[s].run = turn[s].run
                                \/ \A m, n \in EndMarks(calls) :
                                     (Upper(m, n) /\ m.of.run.session = s) =>
                                       (m.of.run = turn'[s].run => n.of.run = m.of.run)
      PROVE  MarkInv'
  <2>1. \A m \in EndMarks(calls') : MarkOk(m)'
    BY <1>6, <1>8
  <2>2. \A m, n \in EndMarks(calls') :
          Upper(m, n) => (m.of.run = turn'[m.of.run.session].run => n.of.run = m.of.run)
    BY <1>2, <1>4, <1>8
  <2>. QED BY <1>3, <1>5, <1>8, <2>1, <2>2 DEF MarkInv
<1>9. ASSUME NEW s \in Session, startTurn(s) PROVE MarkInv'
  <2>1. UNCHANGED <<cursor, calls>>
    BY <1>9, StartOf
  <2>2. \A u \in Session \ {s} : turn'[u] = turn[u]
    BY <1>9, StartRun
  <2>3. turn'[s].run = IF Held(s) # NoRun THEN Held(s) ELSE Fresh(s)
    BY <1>9, StartOf
  <2>4. CASE Held(s) = NoRun
    <3>1. \A m \in EndMarks(calls) : m.of.run # Fresh(s)
      <4>1. SUFFICES ASSUME NEW m \in EndMarks(calls), m.of.run = Fresh(s) PROVE FALSE
        OBVIOUS
      <4>2. Fresh(s).session = s /\ Fresh(s).since = turn[s].no + 1 /\ turn[s].no \in Nat
        BY DEF Fresh, TurnState
      <4>3. Fresh(s).since <= turn[s].no
        BY <1>2, <4>1, <4>2 DEF Begun
      <4>. QED BY <4>2, <4>3
    <3>. QED BY <1>2, <1>8, <2>1, <2>2, <2>3, <2>4, <3>1
  <2>5. CASE Held(s) # NoRun /\ turn[s].run = Held(s)
    BY <1>2, <1>8, <2>1, <2>2, <2>3, <2>5
  <2>6. CASE Held(s) # NoRun /\ turn[s].run # Held(s)
    <3>1. PICK l \in EndMarks(calls) :
            /\ l.of.run = Held(s)
            /\ \A n \in EndMarks(calls) : n.of.run.session = s => n.seq <= l.seq
      BY <2>6, HeldOf
    <3>2. ASSUME NEW m \in EndMarks(calls), NEW n \in EndMarks(calls), Upper(m, n),
                 m.of.run.session = s, m.of.run = Held(s)
          PROVE  n.of.run = m.of.run
      <4>1. CASE n.seq = l.seq
        <5>1. n = l
          BY <1>2, <4>1 DEF NumbersAreUnique
        <5>. QED BY <3>1, <3>2, <5>1
      <4>2. CASE n.seq < l.seq
        BY <1>5, <3>1, <3>2, <4>2
      <4>3. n.seq <= l.seq /\ n.seq \in Nat /\ l.seq \in Nat
        BY <1>2, <3>1, <3>2
      <4>. QED BY <4>1, <4>2, <4>3
    <3>3. turn'[s].run = Held(s)
      BY <2>3, <2>6
    <3>4. \A u \in Session : \/ turn'[u].run = turn[u].run
                             \/ \A m, n \in EndMarks(calls) :
                                     (Upper(m, n) /\ m.of.run.session = u) =>
                                       (m.of.run = turn'[u].run => n.of.run = m.of.run)
      BY <2>2, <3>2, <3>3
    <3>5. \A m \in EndMarks(calls') : m.seq <= cursor'
      BY <1>2, <2>1
    <3>6. EndMarks(calls') \subseteq EndMarks(calls)
      BY <2>1
    <3>. HIDE DEF Upper
    <3>. QED BY <1>8, <3>4, <3>5, <3>6
  <2>. QED BY <2>4, <2>5, <2>6
<1>10. ASSUME NEW s \in Session, Sessionwise(s), ~startTurn(s), ~writeTurnEnd(s) PROVE MarkInv'
  <2>1. \A u \in Session : turn'[u].run = turn[u].run
    BY <1>10, TurnChanges
  <2>2. cursor' \in {cursor, cursor + 1}
    BY <1>10 DEF Sessionwise, log, pause, Logs, saveCheckpoint, finish, stop, appendEvents,
       writeDelete, insertMarker, turnEnded
  <2>3. EndMarks(calls') \subseteq EndMarks(calls)
    <3>1. CASE writeDelete(s)
      <4>1. PICK of : insertMarker(s, of) /\ of.kind = "web_session_delete"
        BY <3>1 DEF writeDelete
      <4>2. calls' = calls \/ calls' = calls \cup {[seq |-> cursor + 1, of |-> of]}
        BY <4>1, InsertOf
      <4>. QED BY <4>1, <4>2 DEF EndMarks
    <3>2. CASE turnEnded(s)
      BY <3>2, TrimOf DEF turnEnded, EndMarks
    <3>3. CASE ~(writeDelete(s) \/ turnEnded(s))
      <4>1. UNCHANGED calls
        BY <1>10, <3>3 DEF Sessionwise, log, pause, saveCheckpoint, finish, stop, appendEvents
      <4>. QED BY <4>1
    <3>. QED BY <3>1, <3>2, <3>3
  <2>4. \A m \in EndMarks(calls') : m.seq <= cursor'
    BY <1>2, <2>2, <2>3
  <2>. HIDE DEF Upper
  <2>. QED BY <1>8, <2>1, <2>3, <2>4
<1>11. CASE reload
  <2>1. EndMarks(calls') \subseteq EndMarks(calls)
    BY <1>11, TrimOf DEF reload, EndMarks
  <2>2. \A m \in EndMarks(calls') : m.seq <= cursor'
    <3>1. (\A r \in calls' : r.seq \in Nat) /\ Bounded(calls')
      BY DEF TypeInv, Bounded
    <3>. QED BY <1>11, <3>1, MaxSeqOf DEF reload, EndMarks
  <2>3. \A u \in Session : turn'[u].run = NoRun
    BY <1>11 DEF reload, NoTurnYet
  <2>. HIDE DEF Upper
  <2>. QED BY <1>8, <2>1, <2>2, <2>3
<1>12. CASE inserted
  <2>1. calls' = calls \cup SeqRange(task.rows) /\ task.op = "flush" /\ turn' = turn
    BY <1>12 DEF inserted
  <2>2. \A k \in DOMAIN task.rows : task.rows[k].of.kind = "event"
    BY <2>1, FlushOf DEF LoggedRow, EventRow
  <2>3. EndMarks(calls') \subseteq EndMarks(calls)
    BY <2>1, <2>2 DEF SeqRange, EndMarks
  <2>4. cursor' \in Nat /\ cursor' >= cursor
    BY <1>12, InsertedTyped
  <2>5. \A m \in EndMarks(calls') : m.seq <= cursor'
    BY <1>2, <2>3, <2>4
  <2>. HIDE DEF Upper
  <2>. QED BY <1>8, <2>1, <2>3, <2>5
<1>13. CASE ages \/ foreign
  <2>1. turn' = turn /\ cursor' = cursor /\ EndMarks(calls') \subseteq EndMarks(calls)
    BY <1>13 DEF ages, foreign, EndMarks
  <2>2. \A m \in EndMarks(calls') : m.seq <= cursor'
    BY <1>2, <2>1
  <2>. HIDE DEF Upper
  <2>. QED BY <1>8, <2>1, <2>2
<1>. QED BY <1>7, <1>9, <1>10, <1>11, <1>12, <1>13, StepCases DEF Sessionwise

-----------------------------------------------------------------------------
(* Rows against markers.                                                   *)
SameRun(table) ==
  \A m \in EndMarks(table), c \in Events(table) :
    m.of.run.session = c.of.run.session /\ m.of.turn = c.of.turn => m.of.run = c.of.run
Apart(table) ==
  \A m \in EndMarks(table), c \in Events(table) :
    m.of.run = c.of.run => IF c.of.turn <= m.of.turn THEN c.seq <= m.of.to ELSE c.seq > m.seq
Ended(table, c) ==
  \E k \in EndMarks(table) :
    k.of.run.session = c.of.run.session /\ k.of.turn = c.of.turn
Bounds(table) ==
  \A m \in EndMarks(table), c \in Events(table) :
    m.of.run = c.of.run /\ Ended(table, c) =>
      ((m.of.from < c.seq /\ c.seq <= m.of.to) <=> c.of.turn = m.of.turn)

LEMMA BoundSplit ==
  BoundInv <=> SameRun(calls) /\ Apart(calls) /\ Bounds(calls)
<1>1. TurnBounds <=> Bounds(calls)
  BY DEF TurnBounds, Bounds, Ended, EndMarks, Events, RowsOf, MarkersOf
<1>. QED BY <1>1 DEF BoundInv, SameRun, Apart

LEMMA BoundSplitNext ==
  ASSUME SameRun(calls'), Apart(calls'), Bounds(calls')
  PROVE  BoundInv'
<1>1. TurnBounds'
  BY DEF TurnBounds, Bounds, Ended, EndMarks, Events, RowsOf, MarkersOf
<1>. QED BY <1>1 DEF BoundInv, SameRun, Apart, EndMarks, Events

LEMMA FewerBounds ==
  ASSUME NEW table, NEW part, EndMarks(part) \subseteq EndMarks(table),
         Events(part) \subseteq Events(table),
         SameRun(table), Apart(table), Bounds(table)
  PROVE  SameRun(part) /\ Apart(part) /\ Bounds(part)
  BY DEF SameRun, Apart, Bounds, Ended

LEMMA NextBounds ==
  ASSUME LogInv, LogNext
  PROVE  BoundInv'
<1>1. /\ TypeInv /\ TurnInv /\ MarkInv /\ MemoryInv /\ TableInv /\ NumbersAreUnique
      /\ SameRun(calls) /\ Apart(calls) /\ Bounds(calls)
      /\ turn \in [Session -> TurnState] /\ cursor \in Nat
  BY BoundSplit DEF LogInv, TypeInv
<1>. USE <1>1
<1>. SUFFICES SameRun(calls') /\ Apart(calls') /\ Bounds(calls')
  BY BoundSplitNext
<1>2. \A m \in EndMarks(calls) :
        /\ m.seq \in Nat /\ m.seq <= cursor /\ m \in calls /\ m.of.to < m.seq
        /\ m.of.turn \in Nat /\ m.of.to \in Nat /\ m.of.from \in Nat
        /\ m.of.run.session \in Session
        /\ m.of.turn <= turn[m.of.run.session].no
        /\ (turn[m.of.run.session].phase # "idle" /\ task # EndMark(m.of.run.session)) =>
             m.of.turn < turn[m.of.run.session].no
  BY DEF MarkInv, MarkOk, Begun, Runs, TypeInv, EndMarks
<1>3. \A c \in Events(calls) :
        /\ c.seq \in Nat \ {0} /\ c.seq <= cursor /\ c.of.turn \in Nat
        /\ c.of.run.session \in Session
        /\ c.of.turn <= turn[c.of.run.session].no
        /\ (c.of.turn = turn[c.of.run.session].no /\ turn[c.of.run.session].phase # "idle") =>
             c.of.run = turn[c.of.run.session].run
  BY DEF TableInv, EventRow, Begun, Runs, TypeInv, Events
<1>4. \A s \in Session : turn[s].no \in Nat
  BY DEF TurnState
<1>5. ASSUME NEW s \in Session, writeTurnEnd(s)
      PROVE  SameRun(calls') /\ Apart(calls') /\ Bounds(calls')
  <2>1. PICK x : /\ x.seq = cursor + 1 /\ x.of = EndRow(s)
                 /\ EndMarks(calls') \subseteq EndMarks(calls) \cup {x}
                 /\ Events(calls') \subseteq Events(calls)
    BY <1>5, NewMarkOf
  <2>2. PICK R : R = turn[s].run
    OBVIOUS
  <2>3. /\ x.of.run = R /\ R.session = s
        /\ x.of.turn = turn[s].no /\ x.of.from = MarkedUpTo(calls, R)
        /\ x.of.from \in Nat /\ x.of.to \in Nat /\ x.of.to <= cursor
        /\ \A c \in Events(calls) : c.of.run = R => c.seq <= x.of.to
        /\ turn[s].phase # "idle" /\ task # EndMark(s)
    BY <1>5, <2>1, <2>2, EndRowOf
  <2>4. \A m \in EndMarks(calls) : m.of.run.session = s => m.of.turn < x.of.turn
    BY <1>2, <2>3
  <2>5. SameRun(calls')
    <3>1. SUFFICES ASSUME NEW m \in EndMarks(calls'), NEW c \in Events(calls'),
                          m.of.run.session = c.of.run.session, m.of.turn = c.of.turn
                   PROVE  m.of.run = c.of.run
      BY DEF SameRun
    <3>2. CASE m = x
      BY <1>3, <2>1, <2>2, <2>3, <3>1, <3>2
    <3>. QED BY <2>1, <3>1, <3>2 DEF SameRun
  <2>6. Apart(calls')
    <3>1. SUFFICES ASSUME NEW m \in EndMarks(calls'), NEW c \in Events(calls'),
                          m.of.run = c.of.run
                   PROVE  IF c.of.turn <= m.of.turn THEN c.seq <= m.of.to ELSE c.seq > m.seq
      BY DEF Apart
    <3>2. CASE m = x
      BY <1>3, <2>1, <2>3, <3>1, <3>2
    <3>. QED BY <2>1, <3>1, <3>2 DEF Apart
  <2>7. ASSUME NEW m \in EndMarks(calls), NEW c \in Events(calls),
               m.of.run = c.of.run, c.of.turn = x.of.turn, c.of.run.session = s
        PROVE  ~(m.of.from < c.seq /\ c.seq <= m.of.to) /\ c.of.turn # m.of.turn
    <3>1. m.of.turn < c.of.turn /\ m.of.turn \in Nat /\ c.of.turn \in Nat
      BY <1>2, <1>3, <2>4, <2>7
    <3>2. c.seq > m.seq
      BY <2>7, <3>1 DEF Apart
    <3>. QED BY <1>2, <1>3, <3>1, <3>2
  <2>8. ASSUME NEW c \in Events(calls), c.of.run = R, c.of.turn = x.of.turn
        PROVE  x.of.from < c.seq /\ c.seq <= x.of.to
    <3>1. c.seq <= x.of.to
      BY <2>3, <2>8
    <3>2. CASE MarkedUpTo(calls, R) = 0
      BY <1>3, <2>3, <3>1, <3>2
    <3>3. CASE MarkedUpTo(calls, R) # 0
      <4>1. PICK l \in EndMarks(calls) : l.of.run = R /\ MarkedUpTo(calls, R) = l.of.to
        BY <2>3, <3>3, MarkedUpToOf
      <4>2. c.seq > l.seq
        <5>1. l.of.turn < c.of.turn /\ l.of.turn \in Nat /\ c.of.turn \in Nat
          BY <1>2, <1>3, <2>3, <2>4, <2>8, <4>1
        <5>. QED BY <2>8, <4>1, <5>1 DEF Apart
      <4>. QED BY <1>2, <1>3, <2>3, <3>1, <4>1, <4>2
    <3>. QED BY <3>2, <3>3
  <2>9. ASSUME NEW c \in Events(calls), c.of.run = R, NEW k \in EndMarks(calls),
               k.of.run.session = s, k.of.turn = c.of.turn
        PROVE  ~(x.of.from < c.seq) /\ c.of.turn # x.of.turn
    <3>1. k.of.run = R
      BY <2>3, <2>9 DEF SameRun
    <3>2. PICK l \in EndMarks(calls) :
            /\ l.of.run.session = s
            /\ \A n \in EndMarks(calls) : n.of.run.session = s => n.seq <= l.seq
            /\ MarkedUpTo(calls, R) = IF l.of.run = R THEN l.of.to ELSE 0
      BY <2>3, <2>9, MarkedUpToOf
    <3>3. k.seq <= l.seq /\ k.seq \in Nat /\ l.seq \in Nat /\ l.of.turn \in Nat /\ k.of.turn \in Nat
      BY <1>2, <2>9, <3>2
    <3>4. l.of.run = R /\ k.of.turn <= l.of.turn
      <4>1. CASE k.seq = l.seq
        <5>1. k = l
          BY <1>2, <4>1 DEF NumbersAreUnique
        <5>. QED BY <3>1, <3>3, <5>1
      <4>2. CASE k.seq < l.seq
        <5>1. k.of.turn < l.of.turn
          BY <2>9, <3>2, <4>2 DEF MarkInv
        <5>2. l.of.run = k.of.run
          BY <2>2, <2>9, <3>1, <3>2, <4>2 DEF MarkInv
        <5>. QED BY <3>1, <3>3, <5>1, <5>2
      <4>. QED BY <3>3, <4>1, <4>2
    <3>5. c.seq <= l.of.to
      BY <2>9, <3>4 DEF Apart
    <3>6. c.of.turn # x.of.turn
      <4>1. k.of.turn < x.of.turn /\ k.of.turn \in Nat /\ x.of.turn \in Nat
        BY <1>2, <1>4, <2>3, <2>4, <2>9
      <4>. QED BY <2>9, <4>1
    <3>7. x.of.from = l.of.to
      BY <2>3, <3>2, <3>4
    <3>. QED BY <1>2, <1>3, <3>5, <3>6, <3>7
  <2>10. ASSUME NEW m \in EndMarks(calls'), NEW c \in Events(calls'),
                m.of.run = c.of.run, Ended(calls', c)
         PROVE  (m.of.from < c.seq /\ c.seq <= m.of.to) <=> c.of.turn = m.of.turn
    <3>1. c \in Events(calls) /\ (m \in EndMarks(calls) \/ m = x)
      BY <2>1, <2>10
    <3>2. PICK k \in EndMarks(calls') : k.of.run.session = c.of.run.session /\ k.of.turn = c.of.turn
      BY <2>10 DEF Ended
    <3>3. CASE k = x /\ m \in EndMarks(calls)
      <4>1. c.of.turn = x.of.turn /\ c.of.run.session = s
        BY <2>3, <3>2, <3>3
      <4>. QED BY <2>7, <2>10, <3>1, <3>3, <4>1
    <3>4. CASE k = x /\ m = x
      <4>1. c.of.turn = x.of.turn /\ c.of.run = R
        BY <2>3, <2>10, <3>2, <3>4
      <4>. QED BY <2>8, <3>1, <3>4, <4>1
    <3>5. CASE k \in EndMarks(calls) /\ m \in EndMarks(calls)
      <4>1. Ended(calls, c)
        BY <3>2, <3>5 DEF Ended
      <4>. QED BY <2>10, <3>1, <3>5, <4>1 DEF Bounds
    <3>6. CASE k \in EndMarks(calls) /\ m = x
      <4>1. c.of.run = R /\ k.of.run.session = s
        BY <2>3, <2>10, <3>2, <3>6
      <4>. QED BY <2>9, <3>1, <3>2, <3>6, <4>1
    <3>. QED BY <2>1, <3>1, <3>3, <3>4, <3>5, <3>6
  <2>. QED BY <2>5, <2>6, <2>10 DEF Bounds
<1>6. CASE inserted
  <2>1. calls' = calls \cup SeqRange(task.rows) /\ task.op = "flush"
    BY <1>6 DEF inserted
  <2>2. PICK s, rows : s = task.session /\ rows = task.rows
    OBVIOUS
  <2>3. s \in Session /\ \A k \in DOMAIN rows : rows[k] \in LoggedRow
    BY <2>1, <2>2, FlushOf
  <2>4. /\ turn[s].phase # "idle"
        /\ \A k \in DOMAIN rows : /\ rows[k].of.run = turn[s].run
                                  /\ rows[k].of.turn = turn[s].no
                                  /\ \A c \in calls : c.seq < rows[k].seq
    BY <2>1, <2>2 DEF MemoryInv, RowsFit
  <2>5. turn[s].run.session = s /\ task # EndMark(s)
    BY <2>1, <2>3, <2>4 DEF TurnInv, EndMark
  <2>6. EndMarks(calls') = EndMarks(calls)
    <3>1. \A k \in DOMAIN rows : rows[k].of.kind = "event"
      BY <2>3 DEF LoggedRow, EventRow
    <3>. QED BY <2>1, <2>2, <3>1 DEF SeqRange, EndMarks
  <2>7. \A m \in EndMarks(calls) : m.of.run.session = s => m.of.turn < turn[s].no
    BY <1>2, <2>4, <2>5
  <2>8. \A c \in Events(calls') : c \in Events(calls) \/ \E k \in DOMAIN rows : c = rows[k]
    BY <2>1, <2>2 DEF Events, SeqRange
  <2>9. ASSUME NEW m \in EndMarks(calls), NEW k \in DOMAIN rows,
               m.of.run.session = rows[k].of.run.session
        PROVE  /\ m.of.turn < rows[k].of.turn /\ m.of.turn \in Nat /\ rows[k].of.turn \in Nat
               /\ rows[k].seq > m.seq
    <3>1. m.of.turn < turn[s].no /\ turn[s].no \in Nat /\ m.of.turn \in Nat
      BY <1>2, <1>4, <2>3, <2>4, <2>5, <2>7, <2>9
    <3>2. m.seq < rows[k].seq
      BY <1>2, <2>4
    <3>. QED BY <2>4, <3>1, <3>2
  <2>10. SameRun(calls')
    BY <2>6, <2>8, <2>9 DEF SameRun
  <2>11. Apart(calls')
    <3>1. SUFFICES ASSUME NEW m \in EndMarks(calls), NEW c \in Events(calls'),
                          m.of.run = c.of.run
                   PROVE  IF c.of.turn <= m.of.turn THEN c.seq <= m.of.to ELSE c.seq > m.seq
      BY <2>6 DEF Apart
    <3>2. CASE c \in Events(calls)
      BY <3>1, <3>2 DEF Apart
    <3>3. ASSUME NEW k \in DOMAIN rows, c = rows[k]
          PROVE  ~(c.of.turn <= m.of.turn) /\ c.seq > m.seq
      BY <2>9, <3>1, <3>3
    <3>. QED BY <2>8, <3>2, <3>3
  <2>12. Bounds(calls')
    <3>1. SUFFICES ASSUME NEW m \in EndMarks(calls), NEW c \in Events(calls'),
                          m.of.run = c.of.run, Ended(calls', c)
                   PROVE  (m.of.from < c.seq /\ c.seq <= m.of.to) <=> c.of.turn = m.of.turn
      BY <2>6 DEF Bounds
    <3>2. PICK e \in EndMarks(calls) : e.of.run.session = c.of.run.session /\ e.of.turn = c.of.turn
      BY <2>6, <3>1 DEF Ended
    <3>3. ASSUME NEW k \in DOMAIN rows, c = rows[k] PROVE FALSE
      BY <2>9, <3>2, <3>3
    <3>4. c \in Events(calls) /\ Ended(calls, c)
      BY <2>8, <3>2, <3>3 DEF Ended
    <3>. QED BY <3>1, <3>4 DEF Bounds
  <2>. QED BY <2>10, <2>11, <2>12
<1>7. ASSUME EndMarks(calls') \subseteq EndMarks(calls), Events(calls') \subseteq Events(calls)
      PROVE  SameRun(calls') /\ Apart(calls') /\ Bounds(calls')
  BY <1>7, FewerBounds
<1>8. ASSUME NEW s \in Session, Sessionwise(s), ~writeTurnEnd(s)
      PROVE  SameRun(calls') /\ Apart(calls') /\ Bounds(calls')
  <2>1. CASE writeDelete(s)
    <3>1. PICK of : insertMarker(s, of) /\ of.kind = "web_session_delete"
      BY <2>1 DEF writeDelete
    <3>2. calls' = calls \/ calls' = calls \cup {[seq |-> cursor + 1, of |-> of]}
      BY <3>1, InsertOf
    <3>. QED BY <1>7, <3>1, <3>2 DEF EndMarks, Events
  <2>2. CASE turnEnded(s)
    BY <1>7, <2>2, TrimOf DEF turnEnded, EndMarks, Events
  <2>3. CASE ~(writeDelete(s) \/ turnEnded(s))
    <3>1. UNCHANGED calls
      BY <1>8, <2>3, StartOf DEF Sessionwise, log, pause, saveCheckpoint, finish, stop, appendEvents
    <3>. QED BY <1>7, <3>1
  <2>. QED BY <2>1, <2>2, <2>3
<1>9. CASE reload
  BY <1>7, <1>9, TrimOf DEF reload, EndMarks, Events
<1>10. CASE ages \/ foreign
  BY <1>7, <1>10 DEF ages, foreign, EndMarks, Events
<1>. QED BY <1>5, <1>6, <1>8, <1>9, <1>10, StepCases

-----------------------------------------------------------------------------
(* The rows of runs that are paused or in use.                             *)
Untold(run) == \A r \in written : r.run # run
Kept == (paused \cup InUse) \ hit

LEMMA NextWhole ==
  ASSUME LogInv, LogNext
  PROVE  WholeInv'
<1>1. /\ TypeInv /\ TurnInv /\ MarkInv /\ MemoryInv
      /\ Begun \subseteq Begun'
      /\ turn \in [Session -> TurnState]
      /\ \A r \in written : r \in EventRow /\ r.run \in Begun
      /\ \A run \in Kept : Whole(run)
  BY BegunStays DEF LogInv, TypeInv, WholeInv, Kept
<1>. USE <1>1
<1>2. Untold(NoRun)
  BY DEF Untold, Begun, Runs, NoRun
<1>3. ASSUME UNCHANGED written,
             \A run \in Kept' : run \in Kept \/ Untold(run),
             \A run \in Kept' : \A c \in Events(calls) : c.of.run = run => c \in calls'
      PROVE  WholeInv'
  <2>1. \A r \in written' : r \in EventRow /\ r.run \in Begun'
    BY <1>3
  <2>2. ASSUME NEW run \in Kept', NEW r \in written', r.run = run
        PROVE  \E c \in calls' : c.of = r
    <3>1. r \in written /\ run \in Kept
      BY <1>3, <2>2 DEF Untold
    <3>2. PICK c \in calls : c.of = r
      BY <2>2, <3>1 DEF Whole
    <3>3. c \in Events(calls) /\ c.of.run = run
      BY <2>2, <3>1, <3>2 DEF Events, EventRow
    <3>. QED BY <1>3, <2>2, <3>2, <3>3
  <2>. QED BY <2>1, <2>2 DEF WholeInv, Whole, Kept
<1>4. calls \subseteq calls' =>
        \A run \in Kept' : \A c \in Events(calls) : c.of.run = run => c \in calls'
  BY DEF Events
<1>5. InUse = {turn[s].run : s \in {k \in Session : turn[k].phase \in {"running", "pausing"}}}
                \cup {turn[s].next : s \in Session}
  BY DEF InUse
<1>6. InUse' = {turn'[s].run : s \in {k \in Session : turn'[k].phase \in {"running", "pausing"}}}
                \cup {turn'[s].next : s \in Session}
  BY DEF InUse
<1>7. ASSUME NEW s \in Session, startTurn(s) PROVE WholeInv'
  <2>1. UNCHANGED <<calls, paused, written, hit>>
    BY <1>7, StartOf
  <2>2. /\ turn'[s].run = IF Held(s) # NoRun THEN Held(s) ELSE Fresh(s)
        /\ turn'[s].next = Held(s)
    BY <1>7, StartOf
  <2>3. \A u \in Session \ {s} : turn'[u] = turn[u]
    BY <1>7, StartRun
  <2>4. Held(s) = NoRun \/ Held(s) \in paused \cup InUse
    BY <1>5, HeldOf
  <2>5. Untold(Fresh(s))
    <3>1. Fresh(s).session = s /\ Fresh(s).since = turn[s].no + 1 /\ turn[s].no \in Nat
      BY DEF Fresh, TurnState
    <3>2. Fresh(s) \notin Begun
      BY <3>1 DEF Begun
    <3>. QED BY <3>2 DEF Untold
  <2>6. \A run \in InUse' : run \in InUse \/ run = Held(s) \/ run = Fresh(s)
    BY <1>5, <1>6, <2>2, <2>3
  <2>7. \A run \in Kept' : run \in Kept \/ Untold(run)
    BY <1>2, <2>1, <2>4, <2>5, <2>6 DEF Kept
  <2>. QED BY <1>3, <1>4, <2>1, <2>7
<1>8. ASSUME NEW s \in Session, log(s) \/ stop(s) \/ appendEvents(s) \/ writeTurnEnd(s) \/ writeDelete(s)
      PROVE  WholeInv'
  <2>1. UNCHANGED <<paused, written, hit>>
    BY <1>8 DEF log, stop, appendEvents, writeTurnEnd, writeDelete
  <2>2. calls \subseteq calls'
    BY <1>8 DEF log, stop, appendEvents, writeTurnEnd, writeDelete, insertMarker
  <2>3. turn' = turn \/ \E p \in {"ending", "idle"} : turn' = [turn EXCEPT ![s].phase = p]
    BY <1>8 DEF log, stop, appendEvents, writeTurnEnd, writeDelete
  <2>4. \A u \in Session : /\ turn'[u].run = turn[u].run /\ turn'[u].next = turn[u].next
                           /\ turn'[u].phase \in {"running", "pausing"} => turn'[u].phase = turn[u].phase
    BY <2>3 DEF TurnState
  <2>5. InUse' \subseteq InUse
    BY <1>5, <1>6, <2>4
  <2>. QED BY <1>3, <1>4, <2>1, <2>2, <2>5 DEF Kept
<1>9. ASSUME NEW s \in Session, pause(s) \/ saveCheckpoint(s) \/ finish(s) PROVE WholeInv'
  <2>1. UNCHANGED <<calls, written, hit>>
    BY <1>9 DEF pause, saveCheckpoint, finish
  <2>2. turn[s].phase \in {"running", "pausing"} /\ paused' \subseteq paused \cup {turn[s].run}
    BY <1>9 DEF pause, saveCheckpoint, finish
  <2>3. \A u \in Session \ {s} : turn'[u] = turn[u]
    BY <1>9 DEF pause, saveCheckpoint, finish
  <2>4. /\ turn'[s].run = turn[s].run
        /\ turn'[s].next \in {turn[s].next, turn[s].run, NoRun}
    BY <1>9 DEF pause, saveCheckpoint, finish, TurnState
  <2>5. turn[s].run \in InUse
    BY <1>5, <2>2
  <2>6. InUse' \subseteq InUse \cup {NoRun}
    BY <1>5, <1>6, <2>3, <2>4, <2>5
  <2>7. \A run \in Kept' : run \in Kept \/ Untold(run)
    BY <1>2, <2>1, <2>2, <2>5, <2>6 DEF Kept
  <2>. QED BY <1>3, <1>4, <2>1, <2>7
<1>10. ASSUME maybeTrim, UNCHANGED written, InUse' \subseteq InUse \cup {NoRun} PROVE WholeInv'
  <2>1. /\ paused' \subseteq paused /\ hit \subseteq hit'
        /\ \A run \in (paused' \cup InUse) \ hit' :
             \A c \in Events(calls) : c.of.run = run => c \in calls'
    BY <1>10, TrimOf
  <2>2. \A run \in Kept' : run \in Kept \/ Untold(run)
    BY <1>2, <1>10, <2>1 DEF Kept
  <2>3. ASSUME NEW run \in Kept', NEW c \in Events(calls), c.of.run = run
        PROVE  c \in calls' \/ Untold(run)
    <3>1. CASE run = NoRun
      BY <1>2, <3>1
    <3>2. CASE run # NoRun
      BY <1>10, <2>1, <2>3, <3>2 DEF Kept
    <3>. QED BY <3>1, <3>2
  <2>4. \A r \in written' : r \in EventRow /\ r.run \in Begun'
    BY <1>10
  <2>5. ASSUME NEW run \in Kept', NEW r \in written', r.run = run
        PROVE  \E c \in calls' : c.of = r
    <3>1. r \in written /\ run \in Kept /\ ~Untold(run)
      BY <1>10, <2>2, <2>5 DEF Untold
    <3>2. PICK c \in calls : c.of = r
      BY <2>5, <3>1 DEF Whole
    <3>3. c \in Events(calls) /\ c.of.run = run
      BY <2>5, <3>1, <3>2 DEF Events, EventRow
    <3>. QED BY <2>3, <2>5, <3>1, <3>2, <3>3
  <2>. QED BY <2>4, <2>5 DEF WholeInv, Whole, Kept
<1>11. ASSUME NEW s \in Session, turnEnded(s) PROVE WholeInv'
  <2>1. maybeTrim /\ UNCHANGED written /\ turn' = [turn EXCEPT ![s].phase = "idle"]
    BY <1>11 DEF turnEnded
  <2>2. \A u \in Session : /\ turn'[u].run = turn[u].run /\ turn'[u].next = turn[u].next
                           /\ turn'[u].phase \in {"running", "pausing"} => turn'[u].phase = turn[u].phase
    BY <2>1 DEF TurnState
  <2>. QED BY <1>5, <1>6, <1>10, <2>1, <2>2
<1>12. CASE reload
  <2>1. \A u \in Session : turn'[u].next = NoRun /\ turn'[u].phase = "idle"
    BY <1>12 DEF reload, NoTurnYet
  <2>2. InUse' \subseteq {NoRun}
    BY <1>6, <2>1
  <2>. QED BY <1>10, <1>12, <2>2 DEF reload
<1>13. CASE inserted
  <2>1. /\ calls' = calls \cup SeqRange(task.rows) /\ task.op = "flush"
        /\ written' = written \cup {r.of : r \in SeqRange(task.rows)}
        /\ UNCHANGED <<turn, paused, hit>>
    BY <1>13 DEF inserted
  <2>2. PICK s, rows : s = task.session /\ rows = task.rows
    OBVIOUS
  <2>3. s \in Session /\ \A k \in DOMAIN rows : rows[k] \in LoggedRow
    BY <2>1, <2>2, FlushOf
  <2>4. turn[s].phase # "idle" /\ \A k \in DOMAIN rows : rows[k].of.run = turn[s].run
    BY <2>1, <2>2 DEF MemoryInv, RowsFit
  <2>5. \A k \in DOMAIN rows : rows[k].of \in EventRow /\ rows[k].of.run \in Begun
    BY <2>3, <2>4 DEF TurnInv, LoggedRow
  <2>6. Kept' = Kept
    BY <2>1 DEF Kept, InUse
  <2>7. \A r \in written' : r \in written \/ \E k \in DOMAIN rows : r = rows[k].of /\ rows[k] \in calls'
    BY <2>1, <2>2 DEF SeqRange
  <2>8. \A r \in written' : r \in EventRow /\ r.run \in Begun'
    BY <2>5, <2>7
  <2>9. \A run \in Kept' : \A r \in written' : r.run = run => \E c \in calls' : c.of = r
    BY <2>1, <2>6, <2>7 DEF Whole
  <2>. QED BY <2>8, <2>9 DEF WholeInv, Whole, Kept
<1>14. CASE ages \/ foreign
  <2>1. UNCHANGED <<turn, paused, hit, written>> /\ calls \subseteq calls'
    BY <1>14 DEF ages, foreign
  <2>2. Kept' = Kept
    BY <2>1 DEF Kept, InUse
  <2>. QED BY <1>3, <1>4, <2>1, <2>2
<1>. QED BY <1>7, <1>8, <1>9, <1>11, <1>12, <1>13, <1>14, StepCases DEF Sessionwise

-----------------------------------------------------------------------------
(* An empty log.                                                           *)
LEMMA InitLog == LogInit => LogInv
<1>. SUFFICES ASSUME LogInit PROVE LogInv
  OBVIOUS
<1>1. /\ cursor = 0 /\ calls = {} /\ paused = {} /\ task = NoTask /\ logged = 0
      /\ written = {} /\ hit = {}
      /\ \A s \in Session : waiting[s] = <<>> /\ turn[s] = NoTurnYet
  BY DEF LogInit
<1>2. /\ turn \in [Session -> TurnState] /\ waiting \in [Session -> Seq(LoggedRow)]
  BY EmptySeq DEF LogInit, NoTurnYet, TurnState
<1>3. TypeInv
  BY <1>1, <1>2 DEF TypeInv, Bounded
<1>4. TurnInv
  BY <1>1 DEF TurnInv, NoTurnYet, NoTask, EndMark
<1>5. task.op # "flush"
  BY <1>1 DEF NoTask
<1>6. MemoryInv
  BY <1>1, <1>5, NothingFits DEF MemoryInv
<1>7. TableInv /\ OrderInv /\ NumbersAreUnique /\ MarkInv /\ BoundInv
  BY <1>1, <1>5 DEF TableInv, OrderInv, NumbersAreUnique, MarkInv, BoundInv, TurnBounds,
     Events, EndMarks
<1>8. WholeInv
  BY <1>1 DEF WholeInv, Whole
<1>. QED BY <1>3, <1>4, <1>6, <1>7, <1>8 DEF LogInv

LEMMA LogInvKept == LogInv /\ [LogNext]_logVars => LogInv'
<1>1. ASSUME LogInv, LogNext PROVE LogInv'
  BY <1>1, NextTypes, NextTurns, NextMemory, NextTable, NextOrder, NextNumbers, NextMarks,
     NextBounds, NextWhole DEF LogInv
<1>2. ASSUME LogInv, UNCHANGED logVars PROVE LogInv'
  BY <1>2 DEF logVars, LogInv, TypeInv, TurnInv, MemoryInv, RowsFit, TableInv, OrderInv,
     NumbersAreUnique, MarkInv, MarkOk, BoundInv, TurnBounds, WholeInv, Whole, InUse, Begun,
     Events, EndMarks, Bounded, RowsOf, MarkersOf
<1>. QED BY <1>1, <1>2

LEMMA LogAlways == LogSpec => []LogInv
  BY InitLog, LogInvKept, PTL DEF LogSpec

(* Whatever the order in which sessions flush, and although another process *)
(* writes to the table: no two of its rows share a number, and no batch of  *)
(* rows meets a number that is taken (appendEvents).                        *)
THEOREM RowsNeverCollide == LogSpec => []NumbersAreUnique
<1>1. LogInv => NumbersAreUnique
  BY DEF LogInv
<1>. QED BY <1>1, LogAlways, PTL

(* The numbers that the marker of a turn names hold the rows of that turn   *)
(* and of no other turn that ended, over pauses, resumed runs, lost markers *)
(* and reloads (writeTurnEnd).                                              *)
THEOREM TurnsAreBounded == LogSpec => []TurnBounds
<1>1. LogInv => TurnBounds
  BY DEF LogInv, BoundInv
<1>. QED BY <1>1, LogAlways, PTL

(* A paused run finds every row it wrote, in the order it was logged,       *)
(* unless a trim met it while it was still in use (maybeTrim).              *)
THEOREM PausedRunsStayWhole == LogSpec => []PausedIsWhole
<1>1. LogInv => PausedIsWhole
  BY DEF LogInv, WholeInv, Whole, OrderInv, PausedIsWhole, RowsOf, Events
<1>. QED BY <1>1, LogAlways, PTL

-----------------------------------------------------------------------------
(* The stream to the desktop (PeerLog). What a row is to it: a waiting row *)
(* is sound when its batch will be written under the numbers it has, and   *)
(* live when it is or will be in the table under its number.               *)
Behind(n) == \A c \in calls : c.seq < n
Sound(s) == waiting[s] # <<>> /\ Behind(waiting[s][1].seq)
Batch == IF task.op = "flush" THEN SeqRange(task.rows) ELSE {}
Unstored == Batch \cup UNION {SeqRange(waiting[s]) : s \in {t \in Session : Sound(t)}}
Live == calls \cup Unstored
Reached(n) == n <= cursor \/ \E c \in calls : n <= c.seq

(* The marker that is inserted and not posted.                             *)
LastMarkers(s) == {m \in MarkersOf(calls, s) : \A n \in MarkersOf(calls, s) : n.seq <= m.seq}
ToPost == IF task.op = "mark" THEN LastMarkers(task.session) ELSE {}

(* Rows on the port, the window of the table on it, the batch on its way.  *)
Posted(p) == {p[k].row : k \in {j \in DOMAIN p : p[j].what = "row"}}
Window(p) == UNION {p[k].rows : k \in {j \in DOMAIN p : p[j].what = "rows"}}
Sending == IF up # <<>> /\ up[1].op = "log-batch" THEN up[1].events ELSE {}
Ascending(p) ==
  \A j, k \in DOMAIN p : (p[j].what = "row" /\ p[k].what = "row" /\ j < k) =>
    p[j].row.seq < p[k].row.seq

IsSeq(p) == p \in Seq(SeqRange(p))
Plain(m) == m.what \in {"row", "nobody"}
NoAnswer(p) == \A k \in DOMAIN p : Plain(p[k])
Told(p, what) ==
  \E k \in DOMAIN p : p[k].what = what /\ \A j \in DOMAIN p : j # k => Plain(p[j])

-----------------------------------------------------------------------------
(* What a message that is posted or heard does to the port.                *)
LEMMA SeqOf ==
  ASSUME NEW p, IsSeq(p)
  PROVE  /\ Len(p) \in Nat /\ DOMAIN p = 1 .. Len(p)
         /\ p # <<>> => /\ Head(p) = p[1] /\ Len(p) > 0
                        /\ DOMAIN Tail(p) = 1 .. Len(p) - 1
                        /\ \A k \in 1 .. Len(p) - 1 : Tail(p)[k] = p[k + 1]
         /\ p # <<>> => IsSeq(Tail(p))
<1>. DEFINE S == SeqRange(p)
<1>1. p \in Seq(S)
  BY DEF IsSeq
<1>. HIDE DEF S
<1>2. Len(p) \in Nat /\ DOMAIN p = 1 .. Len(p)
  BY <1>1, LenProperties
<1>3. ASSUME p # <<>>
      PROVE  /\ Head(p) = p[1] /\ Len(p) > 0 /\ Tail(p) \in Seq(S)
             /\ DOMAIN Tail(p) = 1 .. Len(p) - 1
             /\ \A k \in 1 .. Len(p) - 1 : Tail(p)[k] = p[k + 1]
  <2>1. Len(p) > 0
    BY <1>1, <1>2, <1>3, EmptySeq
  <2>2. Tail(p) \in Seq(S) /\ Len(Tail(p)) = Len(p) - 1
    BY <1>1, <1>3, HeadTailProperties
  <2>3. DOMAIN Tail(p) = 1 .. Len(p) - 1
    BY <2>2, LenProperties
  <2>4. \A k \in 1 .. Len(p) - 1 : Tail(p)[k] = p[k + 1]
    BY <1>1, <1>3, <2>2, HeadTailProperties
  <2>5. Head(p) = p[1]
    BY <1>1
  <2>. QED BY <2>1, <2>2, <2>3, <2>4, <2>5
<1>4. ASSUME p # <<>> PROVE IsSeq(Tail(p))
  <2>1. /\ Tail(p) \in Seq(S) /\ DOMAIN Tail(p) = 1 .. Len(p) - 1
        /\ Len(p) - 1 \in Nat /\ Len(Tail(p)) = Len(p) - 1
    BY <1>1, <1>2, <1>3, <1>4, HeadTailProperties
  <2>. DEFINE q == Tail(p)
  <2>2. q \in Seq(S) /\ DOMAIN q = 1 .. Len(q) /\ Len(q) \in Nat
    BY <2>1
  <2>. HIDE DEF q
  <2>3. q = [k \in 1 .. Len(q) |-> q[k]]
    BY <2>2, SeqDef
  <2>4. q \in [1 .. Len(q) -> SeqRange(q)]
    BY <2>2, <2>3 DEF SeqRange
  <2>5. IsSeq(q)
    BY <2>2, <2>4, SeqDef DEF IsSeq
  <2>. QED BY <2>5 DEF q
<1>. QED BY <1>2, <1>3, <1>4

LEMMA PostOf ==
  ASSUME NEW p, IsSeq(p), NEW m
  PROVE  /\ IsSeq(Append(p, m))
         /\ Len(p) \in Nat /\ DOMAIN p = 1 .. Len(p)
         /\ DOMAIN Append(p, m) = DOMAIN p \cup {Len(p) + 1}
         /\ Append(p, m)[Len(p) + 1] = m
         /\ \A k \in DOMAIN p : Append(p, m)[k] = p[k]
<1>. DEFINE S == SeqRange(p) \cup {m}
<1>1. Len(p) \in Nat /\ DOMAIN p = 1 .. Len(p) /\ \A k \in DOMAIN p : p[k] \in S
  BY SeqOf DEF SeqRange
<1>2. p = [k \in 1 .. Len(p) |-> p[k]]
  BY <1>1, SeqDef DEF IsSeq
<1>3. p \in Seq(S)
  BY <1>1, <1>2, SeqDef
<1>4. m \in S
  OBVIOUS
<1>. DEFINE q == Append(p, m)
<1>. HIDE DEF S
<1>5. /\ DOMAIN q = DOMAIN p \cup {Len(p) + 1}
      /\ q[Len(p) + 1] = m
      /\ \A k \in DOMAIN p : q[k] = p[k]
  BY <1>3, <1>4, AppendOf
<1>6. q \in Seq(S) /\ Len(q) = Len(p) + 1 /\ DOMAIN q = 1 .. Len(q)
  BY <1>3, <1>4, AppendProperties, LenProperties
<1>. HIDE DEF q
<1>7. q = [k \in 1 .. Len(q) |-> q[k]] /\ Len(q) \in Nat
  BY <1>1, <1>6, SeqDef
<1>8. q \in [1 .. Len(q) -> SeqRange(q)]
  BY <1>6, <1>7 DEF SeqRange
<1>9. IsSeq(q)
  BY <1>7, <1>8, SeqDef DEF IsSeq
<1>. QED BY <1>1, <1>5, <1>9 DEF q

(* A post at the end.                                                      *)
LEMMA PostKinds ==
  ASSUME NEW p, IsSeq(p), NEW m
  PROVE  LET q == Append(p, m)
         IN /\ Plain(m) /\ NoAnswer(p) => NoAnswer(q)
            /\ \A w : Plain(m) /\ Told(p, w) => Told(q, w)
            /\ \A w : Plain(m) /\ Told(q, w) => Told(p, w) \/ Plain([what |-> w])
            /\ NoAnswer(p) => Told(q, m.what)
            /\ Posted(q) = Posted(p) \cup (IF m.what = "row" THEN {m.row} ELSE {})
            /\ Window(q) = Window(p) \cup (IF m.what = "rows" THEN m.rows ELSE {})
            /\ Ascending(p) /\ (m.what = "row" => \A r \in Posted(p) : r.seq < m.row.seq) =>
                 Ascending(q)
<1>. DEFINE q == Append(p, m)
            n == Len(p) + 1
<1>1. /\ n \in Nat /\ DOMAIN p = 1 .. n - 1 /\ DOMAIN q = DOMAIN p \cup {n} /\ q[n] = m
      /\ \A k \in DOMAIN p : q[k] = p[k]
  BY PostOf
<1>2. n \notin DOMAIN p /\ \A k \in DOMAIN p : k \in Nat /\ k < n
  BY <1>1
<1>. HIDE DEF q, n
<1>3. Plain(m) /\ NoAnswer(p) => NoAnswer(q)
  BY <1>1 DEF NoAnswer
<1>4. ASSUME NEW w, Plain(m), Told(p, w) PROVE Told(q, w)
  BY <1>1, <1>2, <1>4 DEF Told
<1>5. NoAnswer(p) => Told(q, m.what)
  BY <1>1, <1>2 DEF Told, NoAnswer
<1>9. ASSUME NEW w, Plain(m), Told(q, w) PROVE Told(p, w) \/ Plain([what |-> w])
  <2>1. PICK k \in DOMAIN q : q[k].what = w /\ \A j \in DOMAIN q : j # k => Plain(q[j])
    BY <1>9 DEF Told
  <2>2. CASE k = n
    BY <1>1, <1>9, <2>1, <2>2 DEF Plain
  <2>3. CASE k # n
    BY <1>1, <2>1, <2>3 DEF Told
  <2>. QED BY <2>2, <2>3
<1>6. Posted(q) = Posted(p) \cup (IF m.what = "row" THEN {m.row} ELSE {})
  BY <1>1, <1>2 DEF Posted
<1>7. Window(q) = Window(p) \cup (IF m.what = "rows" THEN m.rows ELSE {})
  BY <1>1, <1>2 DEF Window
<1>8. ASSUME Ascending(p), m.what = "row" => \A r \in Posted(p) : r.seq < m.row.seq
      PROVE  Ascending(q)
  <2>1. ASSUME NEW j \in DOMAIN q, NEW k \in DOMAIN q,
               q[j].what = "row", q[k].what = "row", j < k
        PROVE  q[j].row.seq < q[k].row.seq
    <3>1. j \in DOMAIN p
      BY <1>1, <1>2, <2>1
    <3>2. CASE k \in DOMAIN p
      BY <1>1, <1>8, <2>1, <3>1, <3>2 DEF Ascending
    <3>3. CASE k = n
      <4>1. p[j].row \in Posted(p)
        BY <1>1, <2>1, <3>1 DEF Posted
      <4>. QED BY <1>1, <1>8, <2>1, <3>1, <3>3, <4>1
    <3>. QED BY <1>1, <3>2, <3>3
  <2>. QED BY <2>1 DEF Ascending
<1>. QED BY <1>3, <1>4, <1>5, <1>6, <1>7, <1>8, <1>9 DEF q

(* The first message is heard.                                             *)
LEMMA HearKinds ==
  ASSUME NEW p, IsSeq(p), p # <<>>
  PROVE  LET q == Tail(p)
             m == Head(p)
         IN /\ NoAnswer(p) => Plain(m) /\ NoAnswer(q)
            /\ \A w : Plain(m) /\ Told(p, w) => Told(q, w) \/ Plain([what |-> w])
            /\ \A w : ~Plain(m) /\ Told(p, w) => m.what = w /\ NoAnswer(q)
            /\ Posted(p) = Posted(q) \cup (IF m.what = "row" THEN {m.row} ELSE {})
            /\ Window(p) = Window(q) \cup (IF m.what = "rows" THEN m.rows ELSE {})
            /\ Ascending(p) => /\ Ascending(q)
                               /\ m.what = "row" => \A r \in Posted(q) : m.row.seq < r.seq
<1>. DEFINE q == Tail(p)
            m == Head(p)
            n == Len(p)
<1>1. /\ n \in Nat \ {0} /\ DOMAIN p = 1 .. n /\ m = p[1] /\ DOMAIN q = 1 .. n - 1
      /\ \A k \in 1 .. n - 1 : q[k] = p[k + 1]
  BY SeqOf
<1>. HIDE DEF q, m, n
<1>2. /\ 1 \in DOMAIN p
      /\ \A k \in DOMAIN q : k \in Nat /\ k + 1 \in DOMAIN p /\ k + 1 # 1 /\ q[k] = p[k + 1]
      /\ \A k \in DOMAIN p : k \in Nat /\ (k # 1 => k - 1 \in DOMAIN q /\ p[k] = q[k - 1])
  <2>1. \A k \in DOMAIN p : k # 1 => k - 1 \in 1 .. n - 1 /\ (k - 1) + 1 = k
    BY <1>1
  <2>2. \A k \in DOMAIN q : k \in Nat /\ k + 1 \in DOMAIN p /\ k + 1 # 1 /\ q[k] = p[k + 1]
    BY <1>1
  <2>3. ASSUME NEW k \in DOMAIN p, k # 1
        PROVE  k - 1 \in DOMAIN q /\ p[k] = q[k - 1]
    BY <1>1, <2>1, <2>3
  <2>4. 1 \in DOMAIN p /\ \A k \in DOMAIN p : k \in Nat
    BY <1>1
  <2>. QED BY <2>2, <2>3, <2>4
<1>3. NoAnswer(p) => Plain(m) /\ NoAnswer(q)
  BY <1>1, <1>2 DEF NoAnswer
<1>4. ASSUME NEW w, Plain(m), Told(p, w) PROVE Told(q, w) \/ Plain([what |-> w])
  <2>1. PICK k \in DOMAIN p : p[k].what = w /\ \A j \in DOMAIN p : j # k => Plain(p[j])
    BY <1>4 DEF Told
  <2>2. CASE k = 1
    BY <1>1, <1>4, <2>1, <2>2 DEF Plain
  <2>3. CASE k # 1
    <3>1. k - 1 \in DOMAIN q /\ q[k - 1].what = w
      BY <1>2, <2>1, <2>3
    <3>2. \A j \in DOMAIN q : j # k - 1 => Plain(q[j])
      BY <1>2, <2>1
    <3>. QED BY <3>1, <3>2 DEF Told
  <2>. QED BY <2>2, <2>3
<1>5. ASSUME NEW w, ~Plain(m), Told(p, w) PROVE m.what = w /\ NoAnswer(q)
  <2>1. PICK k \in DOMAIN p : p[k].what = w /\ \A j \in DOMAIN p : j # k => Plain(p[j])
    BY <1>5 DEF Told
  <2>2. k = 1
    BY <1>1, <1>2, <1>5, <2>1
  <2>3. \A j \in DOMAIN q : Plain(q[j])
    BY <1>2, <2>1, <2>2
  <2>. QED BY <1>1, <2>1, <2>2, <2>3 DEF NoAnswer
<1>6. Posted(p) = Posted(q) \cup (IF m.what = "row" THEN {m.row} ELSE {})
  <2>1. ASSUME NEW r \in Posted(p), ~(m.what = "row" /\ r = m.row) PROVE r \in Posted(q)
    <3>1. PICK k \in DOMAIN p : p[k].what = "row" /\ r = p[k].row
      BY DEF Posted
    <3>2. k # 1
      BY <1>1, <2>1, <3>1
    <3>3. k - 1 \in DOMAIN q /\ p[k] = q[k - 1]
      BY <1>2, <3>2
    <3>. QED BY <3>1, <3>3 DEF Posted
  <2>2. ASSUME NEW r \in Posted(q) PROVE r \in Posted(p)
    BY <1>2 DEF Posted
  <2>3. m.what = "row" => m.row \in Posted(p)
    BY <1>1, <1>2 DEF Posted
  <2>. QED BY <2>1, <2>2, <2>3
<1>7. Window(p) = Window(q) \cup (IF m.what = "rows" THEN m.rows ELSE {})
  <2>1. ASSUME NEW r \in Window(p), ~(m.what = "rows" /\ r \in m.rows) PROVE r \in Window(q)
    <3>1. PICK k \in DOMAIN p : p[k].what = "rows" /\ r \in p[k].rows
      BY DEF Window
    <3>2. k # 1
      BY <1>1, <2>1, <3>1
    <3>3. k - 1 \in DOMAIN q /\ p[k] = q[k - 1]
      BY <1>2, <3>2
    <3>. QED BY <3>1, <3>3 DEF Window
  <2>2. ASSUME NEW r \in Window(q) PROVE r \in Window(p)
    BY <1>2 DEF Window
  <2>3. m.what = "rows" => m.rows \subseteq Window(p)
    BY <1>1, <1>2 DEF Window
  <2>. QED BY <2>1, <2>2, <2>3
<1>8. ASSUME Ascending(p)
      PROVE  /\ Ascending(q)
             /\ m.what = "row" => \A r \in Posted(q) : m.row.seq < r.seq
  <2>1. \A j, k \in DOMAIN q : j < k => j + 1 < k + 1
    BY <1>2
  <2>2. Ascending(q)
    BY <1>2, <1>8, <2>1 DEF Ascending
  <2>3. ASSUME m.what = "row", NEW r \in Posted(q) PROVE m.row.seq < r.seq
    <3>1. PICK k \in DOMAIN q : q[k].what = "row" /\ r = q[k].row
      BY DEF Posted
    <3>2. k + 1 \in DOMAIN p /\ 1 < k + 1 /\ p[k + 1] = q[k]
      BY <1>1, <1>2
    <3>. QED BY <1>1, <1>2, <1>8, <2>3, <3>1, <3>2 DEF Ascending
  <2>. QED BY <2>2, <2>3
<1>. QED BY <1>3, <1>4, <1>5, <1>6, <1>7, <1>8 DEF q, m

LEMMA NothingTold ==
  ASSUME NEW p, NoAnswer(p)
  PROVE  Window(p) = {} /\ ~Told(p, "rows") /\ ~Told(p, "max")
  BY DEF NoAnswer, Window, Told, Plain

-----------------------------------------------------------------------------
(* The lowest rows of a set: with a row every lower one, and some row when *)
(* there is one.                                                           *)
LEMMA LowestOf ==
  ASSUME NEW rows, IsFiniteSet(rows), \A r \in rows : r.seq \in Nat, NEW n \in Nat
  PROVE  /\ Lowest(rows, n) \subseteq rows
         /\ \A e \in Lowest(rows, n), r \in rows : r.seq <= e.seq => r \in Lowest(rows, n)
         /\ n > 0 /\ rows # {} => Lowest(rows, n) # {}
<1>. DEFINE Under(r) == {q \in rows : q.seq < r.seq}
<1>1. \A r \in rows : IsFiniteSet(Under(r)) /\ Cardinality(Under(r)) \in Nat
  BY FS_Subset, FS_CardinalityType
<1>2. ASSUME NEW e \in Lowest(rows, n), NEW r \in rows, r.seq <= e.seq
      PROVE  r \in Lowest(rows, n)
  <2>1. e \in rows /\ Cardinality(Under(e)) < n
    BY DEF Lowest
  <2>2. Under(r) \subseteq Under(e)
    BY <1>2, <2>1
  <2>3. Cardinality(Under(r)) <= Cardinality(Under(e))
    BY <1>1, <2>1, <2>2, FS_Subset
  <2>4. Cardinality(Under(r)) < n
    BY <1>1, <2>1, <2>3
  <2>. QED BY <2>4 DEF Lowest
<1>3. ASSUME n > 0, rows # {} PROVE Lowest(rows, n) # {}
  <2>. DEFINE N == SeqsOf(rows)
  <2>1. N # {} /\ N \subseteq Nat
    BY <1>3 DEF SeqsOf
  <2>. HIDE DEF N
  <2>2. PICK a \in N : \A b \in N : ~(<<b, a>> \in OpToRel(<, Nat))
    BY <2>1, WFMin, NatLessThanWellFounded
  <2>3. \A b \in N : ~(b < a)
    BY <2>1, <2>2 DEF OpToRel
  <2>4. PICK r \in rows : r.seq = a
    BY DEF N, SeqsOf
  <2>5. Under(r) = {}
    BY <2>3, <2>4 DEF N, SeqsOf
  <2>6. Cardinality(Under(r)) = 0
    BY <2>5, FS_EmptySet
  <2>7. r \in Lowest(rows, n)
    BY <1>3, <2>6 DEF Lowest
  <2>. QED BY <2>7
<1>4. Lowest(rows, n) \subseteq rows
  BY DEF Lowest
<1>. QED BY <1>2, <1>3, <1>4

(* The table is finite: its numbers are bounded, and no two are the same.  *)
LEMMA TableFinite ==
  ASSUME LogInv
  PROVE  IsFiniteSet(calls)
<1>1. (\A c \in calls : c.seq \in Nat) /\ Bounded(calls)
  BY DEF LogInv, TypeInv
<1>2. PICK b \in Nat : \A c \in calls : c.seq <= b
  BY <1>1 DEF Bounded
<1>. DEFINE N == SeqsOf(calls)
            f == [c \in calls |-> c.seq]
<1>3. N \in SUBSET Nat /\ \A n \in N : n <= b
  BY <1>1, <1>2 DEF SeqsOf
<1>4. f \in [calls -> N]
  BY DEF SeqsOf
<1>5. \A c, d \in calls : f[c] = f[d] => c = d
  BY DEF LogInv, NumbersAreUnique
<1>. HIDE DEF N, f
<1>6. f \in Injection(calls, N)
  BY <1>4, <1>5 DEF Injection, IsInjective
<1>7. IsFiniteSet(N)
  BY <1>3, FS_BoundedSetOfNaturals
<1>. QED BY <1>6, <1>7, FS_Injection

(* Rows that wait or are being inserted, one by one.                       *)
LEMMA WaitingOf ==
  ASSUME LogInv, NEW s \in Session
  PROVE  /\ waiting[s] \in Seq(LoggedRow)
         /\ \A r \in SeqRange(waiting[s]) : r.seq \in Nat \ {0} /\ r.seq <= cursor
         /\ Sound(s) => \A r \in SeqRange(waiting[s]) : Behind(r.seq)
         /\ waiting[s] # <<>> => waiting[s][1] \in SeqRange(waiting[s])
<1>1. /\ waiting[s] \in Seq(LoggedRow)
      /\ \A k \in DOMAIN waiting[s] : waiting[s][k].seq <= cursor
      /\ \A j, k \in DOMAIN waiting[s] : j < k => waiting[s][j].seq < waiting[s][k].seq
      /\ \A c \in calls : c.seq \in Nat
  BY DEF LogInv, TypeInv, MemoryInv, RowsFit
<1>2. /\ DOMAIN waiting[s] = 1 .. Len(waiting[s]) /\ Len(waiting[s]) \in Nat
      /\ waiting[s] # <<>> => 1 \in DOMAIN waiting[s]
  BY <1>1, LenProperties, EmptySeq
<1>3. \A k \in DOMAIN waiting[s] : waiting[s][k] \in LoggedRow
  BY <1>1, <1>2, ElementOfSeq
<1>4. \A k \in DOMAIN waiting[s] :
        waiting[s][k].seq \in Nat \ {0} /\ waiting[s][1].seq <= waiting[s][k].seq
  BY <1>1, <1>2, <1>3 DEF LoggedRow
<1>5. Sound(s) => \A k \in DOMAIN waiting[s] : Behind(waiting[s][k].seq)
  BY <1>1, <1>2, <1>4 DEF Sound, Behind
<1>. QED BY <1>1, <1>2, <1>4, <1>5 DEF SeqRange

LEMMA UnstoredOf ==
  ASSUME LogInv, NEW r \in Unstored
  PROVE  r.seq \in Nat \ {0} /\ Behind(r.seq)
<1>1. CASE r \in Batch
  <2>1. task.op = "flush" /\ r \in SeqRange(task.rows)
    BY <1>1 DEF Batch
  <2>2. PICK k \in DOMAIN task.rows : r = task.rows[k]
    BY <2>1 DEF SeqRange
  <2>3. r \in LoggedRow
    BY <2>1, <2>2, FlushOf DEF LogInv
  <2>. QED BY <2>1, <2>2, <2>3 DEF LogInv, MemoryInv, Behind, LoggedRow
<1>2. CASE r \notin Batch
  <2>1. PICK s \in Session : Sound(s) /\ r \in SeqRange(waiting[s])
    BY <1>2 DEF Unstored
  <2>. QED BY <2>1, WaitingOf
<1>. QED BY <1>1, <1>2

LEMMA LiveTyped ==
  ASSUME LogInv
  PROVE  \A r \in Live : r.seq \in Nat
  BY UnstoredOf DEF Live, LogInv, TypeInv

-----------------------------------------------------------------------------
(* One message or request is under way at a time, so that the stream is    *)
(* always at one of these stages.                                          *)
Quiet == up = <<>> /\ down = <<>>
Off == ~ship.on /\ ship = Closed /\ asked = NoAsk /\ NoAnswer(port) /\ Quiet
New == ship.on /\ ~ship.ready /\ ship.cursor = 0 /\ ~ship.inflight /\ ship.backfill
AsksMax == New /\ asked.what = "max" /\ NoAnswer(port) /\ Quiet
ToldMax == New /\ asked = NoAsk /\ Told(port, "max") /\ Quiet
Greets == New /\ asked = NoAsk /\ NoAnswer(port) /\ down = <<>>
            /\ \E m \in SeqRange(up) : up = <<m>> /\ m.op = "log-handshake"
Greeted == New /\ asked = NoAsk /\ NoAnswer(port) /\ up = <<>>
             /\ \E m \in SeqRange(down) : down = <<m>> /\ m.op = "log-cursor" /\ m.upTo = desk.cursor
Ready == ship.on /\ ship.ready
Idle == Ready /\ ~ship.inflight /\ ship.cursor = desk.cursor
          /\ asked = NoAsk /\ NoAnswer(port) /\ Quiet
Awaits == Ready /\ ship.inflight /\ ship.cursor = desk.cursor
AsksRows == Awaits /\ asked.what = "rows" /\ asked.after = desk.cursor
              /\ NoAnswer(port) /\ Quiet
ToldRows == Awaits /\ asked = NoAsk /\ Told(port, "rows") /\ Quiet
Sends == Awaits /\ asked = NoAsk /\ NoAnswer(port) /\ down = <<>>
           /\ \E m \in SeqRange(up) : up = <<m>> /\ m.op = "log-batch"
Acks == Ready /\ ship.inflight /\ ship.cursor <= desk.cursor
          /\ asked = NoAsk /\ NoAnswer(port) /\ up = <<>>
          /\ \E m \in SeqRange(down) : down = <<m>> /\ m.op = "log-ack" /\ m.upTo = desk.cursor
Refuses == Awaits /\ asked = NoAsk /\ NoAnswer(port) /\ up = <<>>
             /\ \E m \in SeqRange(down) : down = <<m>> /\ m.op = "log-error"
Stage == \/ Off \/ AsksMax \/ ToldMax \/ Greets \/ Greeted
         \/ Idle \/ AsksRows \/ ToldRows \/ Sends \/ Acks \/ Refuses

ShipShape(c) ==
  DOMAIN c = {"on", "cursor", "ready", "inflight", "pending", "backfill", "due"}
Rows(rows) == IsFiniteSet(rows) /\ \A r \in rows : r.seq \in Nat
Shape ==
  /\ ShipShape(ship) /\ ship.cursor \in Nat /\ Rows(ship.pending)
  /\ IsSeq(port) /\ (\A r \in Posted(port) : r.seq \in Nat) /\ Rows(Window(port))
  /\ Rows(Sending)
  /\ desk = [cursor |-> desk.cursor, rows |-> desk.rows, trimmed |-> desk.trimmed]
  /\ desk.cursor \in Nat /\ desk.trimmed \in Nat
  /\ \A r \in desk.rows : r.seq \in Nat /\ r.seq <= desk.cursor
  /\ blurred \in BOOLEAN
  /\ DOMAIN age = Session

(* The numbers: those above the counter have no gap and are of another     *)
(* process, the counter was not set ahead of every row, and the marker     *)
(* that waits for its post is the last row but for those.                  *)
NumInv ==
  /\ \A c \in calls : \A n \in cursor + 1 .. c.seq : \E d \in calls : d.seq = n
  /\ \A c \in calls : c.of.kind = "other" \/ c.seq <= cursor
  /\ \/ cursor = 0 \/ \E c \in calls : c.seq >= cursor
     \/ \E s \in Session : \E r \in SeqRange(waiting[s]) : r.seq >= cursor
     \/ \E r \in Batch : r.seq >= cursor
  /\ \A r \in Batch : r.seq <= cursor
  /\ task.op = "mark" =>
       /\ age[task.session] # "dead"
       /\ \E m \in ToPost : \A c \in calls : c.seq <= m.seq \/ c.of.kind = "other"

(* The desktop holds every live row up to its cursor.                      *)
DeskInv ==
  /\ Reached(desk.cursor)
  /\ \A r \in Live : desk.trimmed < r.seq /\ r.seq <= desk.cursor => r \in desk.rows

(* Rows come to the page in the order of their numbers.                    *)
PortInv ==
  /\ \A p \in ship.pending \cup Posted(port) : p.seq <= cursor
  /\ Ascending(port)
  /\ \A p \in ship.pending, q \in Posted(port) : p.seq < q.seq
  /\ \A m \in ToPost : \A p \in ship.pending \cup Posted(port) : p.seq < m.seq

(* A row that the desktop lacks is on its way, and no batch or window has  *)
(* a hole.                                                                 *)
Gapless(rows) ==
  \A e \in rows : /\ Reached(e.seq)
                  /\ \A r \in Live : desk.cursor < r.seq /\ r.seq <= e.seq => r \in rows
OnTheWay == Sending \cup ship.pending \cup Posted(port)
Coming == \A r \in Live : r.seq > desk.cursor => r \in OnTheWay \cup ToPost
Flow ==
  /\ ship.on => \A r \in Unstored : r \in OnTheWay \/ (ship.ready /\ r.seq <= desk.cursor)
  /\ Gapless(Sending)
  /\ Gapless(Window(port)) /\ \A e \in Window(port) : e.seq > desk.cursor
  /\ Told(port, "rows") /\ Window(port) = {} => Coming
  /\ ship.ready /\ ~ship.backfill => Coming

StreamInv == NumInv /\ DeskInv /\ PortInv /\ Flow
PeerInv == Shape /\ Stage /\ (~blurred => StreamInv)

-----------------------------------------------------------------------------
(* What a step of the worker does to the rows: a row that is new to the    *)
(* stream is ahead of every number in use, and posted or about to be.      *)
Ahead(r) == r.seq > cursor /\ Behind(r.seq)
NewPost ==
  \E r : /\ port' = Append(port, [what |-> "row", row |-> r])
         /\ r.seq \in Nat /\ r.seq <= cursor' /\ (r.seq > cursor \/ r \in ToPost)
         /\ ToPost' = {}
Worked ==
  /\ cursor <= cursor'
  /\ \A n \in Nat : Reached(n) => Reached(n)'
  /\ \A r \in Live' :
       r \in Live \/ (Ahead(r) /\ (ship.on => r \in Posted(port') \cup ToPost'))
  /\ \A r \in Unstored' : r \in Unstored \/ r \in Posted(port')
  /\ \A r \in ToPost : r \in Live' => r \in ToPost' \cup Posted(port')
  /\ \A m \in ToPost' : m \in ToPost \/ m.seq > cursor
  /\ port' = port \/ NewPost

LEMMA AheadOf ==
  ASSUME LogInv, NEW r, Ahead(r), r.seq \in Nat, NEW n \in Nat, Reached(n)
  PROVE  n < r.seq
  BY DEF Ahead, Reached, Behind, LogInv, TypeInv

LEMMA MarkersTyped ==
  ASSUME LogInv, NEW s
  PROVE  \A m \in MarkersOf(calls, s) : m \in calls /\ m.seq \in Nat /\ m.seq <= cursor
  BY DEF LogInv, TypeInv, MarkInv, MarkOk, EndMarks, MarkersOf

LEMMA PostedRow ==
  ASSUME IsSeq(port), NEW r, port' = Append(port, [what |-> "row", row |-> r])
  PROVE  Posted(port') = Posted(port) \cup {r}
  BY PostKinds

(* A trim keeps rows of another process, and the markers of a session that *)
(* is not past the last tier.                                              *)
LEMMA TrimKeeps ==
  ASSUME maybeTrim
  PROVE  /\ \A c \in calls : c.of.kind = "other" => c \in calls'
         /\ \A s \in Session : age[s] # "dead" => MarkersOf(calls, s) \subseteq calls'
<1>1. PICK dead \in {{}, Dead}, cold \in {{}, Compactable} :
        LET aged == RunsOfAll(dead \cup cold)
            rest == WithoutRuns(calls, aged) \ UNION {OfSession(s) : s \in dead}
        IN \E size \in {{}, TooMany(rest)} : calls' = WithoutRuns(rest, size)
  BY DEF maybeTrim
<1>. DEFINE aged == RunsOfAll(dead \cup cold)
            rest == WithoutRuns(calls, aged) \ UNION {OfSession(s) : s \in dead}
<1>2. PICK size : calls' = WithoutRuns(rest, size)
  BY <1>1
<1>3. \A c \in calls : c.of.kind = "other" => c \in rest
  BY DEF WithoutRuns, OfSession, MarkersOf, TombstonesOf
<1>4. ASSUME NEW s \in Session, age[s] # "dead", NEW m \in MarkersOf(calls, s)
      PROVE  m \in rest
  <2>1. m \in calls /\ m.of.kind = "web_turn_end" /\ m.of.run.session = s
    BY DEF MarkersOf
  <2>2. \A t \in dead : m \notin OfSession(t)
    BY <1>4, <2>1 DEF Dead, OfSession, MarkersOf, TombstonesOf
  <2>. QED BY <2>1, <2>2 DEF WithoutRuns
<1>5. \A s \in Session : \A m \in MarkersOf(calls, s) : m.of.kind # "event"
  BY DEF MarkersOf
<1>. HIDE DEF rest
<1>. QED BY <1>2, <1>3, <1>4, <1>5 DEF WithoutRuns

(* A row is logged and posted.                                             *)
LEMMA LogWorked ==
  ASSUME LogInv, IsSeq(port), NumInv, NEW s \in Session, LogRow(s), ~blurred'
  PROVE  NumInv' /\ Worked
<1>1. /\ Logs(s) /\ turn[s].phase = "running" /\ UNCHANGED <<calls, task, age>>
      /\ task.op # "mark"
  BY DEF LogRow, log, pause, Blur
<1>2. /\ cursor' = cursor + 1 /\ NextRow(s) \in LoggedRow /\ cursor \in Nat
      /\ \A u \in Session : u # s => waiting'[u] = waiting[u]
      /\ waiting'[s] = Append(waiting[s], NextRow(s))
  BY <1>1, LogsOf DEF LogInv, TypeInv
<1>3. NextRow(s).seq = cursor + 1 /\ port' = Append(port, [what |-> "row", row |-> NextRow(s)])
  BY DEF NextRow, LogRow
<1>. DEFINE row == NextRow(s)
<1>. HIDE DEF row
<1>4. /\ SeqRange(waiting'[s]) = SeqRange(waiting[s]) \cup {row}
      /\ waiting'[s] # <<>>
      /\ waiting'[s][1] = IF waiting[s] = <<>> THEN row ELSE waiting[s][1]
  <2>1. /\ DOMAIN waiting'[s] = DOMAIN waiting[s] \cup {Len(waiting[s]) + 1}
        /\ DOMAIN waiting[s] = 1 .. Len(waiting[s]) /\ Len(waiting[s]) \in Nat
        /\ waiting'[s][Len(waiting[s]) + 1] = row
        /\ \A k \in DOMAIN waiting[s] : waiting'[s][k] = waiting[s][k]
    BY <1>2, WaitingOf, AppendOf DEF row
  <2>2. SeqRange(waiting'[s]) = SeqRange(waiting[s]) \cup {row}
    BY <2>1 DEF SeqRange
  <2>3. waiting'[s] # <<>>
    BY <1>2, WaitingOf, AppendProperties DEF row
  <2>4. waiting[s] = <<>> => Len(waiting[s]) = 0
    OBVIOUS
  <2>5. waiting[s] # <<>> => 1 \in DOMAIN waiting[s]
    BY <2>1, WaitingOf, EmptySeq
  <2>. QED BY <2>1, <2>2, <2>3, <2>4, <2>5
<1>5. row.seq = cursor + 1 /\ Posted(port') = Posted(port) \cup {row}
  BY <1>3, PostedRow DEF row
<1>6. Batch' = Batch /\ ToPost = {} /\ ToPost' = {}
  BY <1>1 DEF Batch, ToPost
<1>7. \A n \in Nat : Behind(n)' = Behind(n)
  BY <1>1 DEF Behind
<1>8. ASSUME NEW r \in Unstored'
      PROVE  r \in Unstored \/ (r = row /\ Behind(cursor + 1))
  <2>1. CASE r \in Batch'
    BY <1>6, <2>1 DEF Unstored
  <2>2. CASE r \notin Batch'
    <3>1. PICK u \in Session : Sound(u)' /\ r \in SeqRange(waiting'[u])
      BY <2>2 DEF Unstored
    <3>2. CASE u # s
      <4>1. Sound(u)
        BY <1>1, <1>2, <3>1, <3>2 DEF Sound, Behind
      <4>. QED BY <1>2, <3>1, <3>2, <4>1 DEF Unstored
    <3>3. CASE u = s /\ waiting[s] # <<>>
      <4>1. waiting'[s][1] = waiting[s][1] /\ Behind(waiting[s][1].seq)
        BY <1>1, <1>4, <3>1, <3>3 DEF Sound, Behind
      <4>2. Sound(s)
        BY <3>3, <4>1 DEF Sound
      <4>3. waiting[s][1].seq \in Nat /\ waiting[s][1].seq <= cursor
        BY <3>3, WaitingOf
      <4>4. Behind(cursor + 1)
        BY <1>2, <4>1, <4>3 DEF Behind, LogInv, TypeInv
      <4>. QED BY <1>4, <3>1, <3>3, <4>2, <4>4 DEF Unstored
    <3>4. CASE u = s /\ waiting[s] = <<>>
      <4>1. waiting'[s][1] = row /\ SeqRange(waiting[s]) = {}
        BY <1>4, <3>4 DEF SeqRange
      <4>2. Behind(cursor + 1)
        BY <1>1, <1>5, <3>1, <3>4, <4>1 DEF Sound, Behind
      <4>. QED BY <1>4, <3>1, <3>4, <4>1, <4>2
    <3>. QED BY <3>2, <3>3, <3>4
  <2>. QED BY <2>1, <2>2
<1>9. NumInv'
  <2>1. (\A c \in calls : \A n \in cursor + 1 .. c.seq : \E d \in calls : d.seq = n)'
    <3>1. \A c \in calls : c.seq \in Nat
      BY DEF LogInv, TypeInv
    <3>2. \A c \in calls : \A n \in cursor + 2 .. c.seq : n \in cursor + 1 .. c.seq
      BY <1>2, <3>1
    <3>3. cursor' + 1 = cursor + 2
      BY <1>2
    <3>. QED BY <1>1, <3>2, <3>3 DEF NumInv
  <2>2. (\A c \in calls : c.of.kind = "other" \/ c.seq <= cursor)'
    BY <1>1, <1>2 DEF NumInv, LogInv, TypeInv
  <2>3. row \in SeqRange(waiting'[s]) /\ row.seq >= cursor'
    BY <1>2, <1>4, <1>5
  <2>4. (\A r \in Batch : r.seq <= cursor)'
    <3>1. \A r \in Batch : r.seq \in Nat
      BY UnstoredOf DEF Unstored
    <3>. QED BY <1>2, <1>6, <3>1 DEF NumInv
  <2>. QED BY <1>1, <2>1, <2>2, <2>3, <2>4 DEF NumInv
<1>10. \A n \in Nat : Reached(n) => Reached(n)'
  BY <1>1, <1>2 DEF Reached
<1>11. \A r \in Live' : r \in Live \/ (Ahead(r) /\ r \in Posted(port'))
  BY <1>1, <1>2, <1>5, <1>8 DEF Live, Ahead
<1>12. NewPost
  <2>1. /\ port' = Append(port, [what |-> "row", row |-> row])
        /\ row.seq \in Nat /\ row.seq <= cursor' /\ row.seq > cursor
    BY <1>2, <1>3 DEF row
  <2>. QED BY <1>6, <2>1 DEF NewPost
<1>13. \A r \in Unstored' : r \in Unstored \/ r \in Posted(port')
  BY <1>5, <1>8
<1>14. cursor <= cursor'
  BY <1>2
<1>. QED BY <1>6, <1>9, <1>10, <1>11, <1>12, <1>13, <1>14 DEF Worked

(* The marker of a turn is posted, after a trim that it survives.          *)
LEMMA TurnEndWorked ==
  ASSUME LogInv, IsSeq(port), NumInv, NEW s \in Session, TurnEndRow(s)
  PROVE  NumInv' /\ Worked
<1>1. /\ task.op = "mark" /\ task.session = s /\ task'.op = "none" /\ maybeTrim
      /\ UNCHANGED <<cursor, waiting, age>>
  BY DEF TurnEndRow, turnEnded, EndMark, NoTask
<1>2. PICK m \in ToPost : \A c \in calls : c.seq <= m.seq \/ c.of.kind = "other"
  BY <1>1 DEF NumInv
<1>3. /\ ToPost = LastMarkers(s) /\ m \in MarkersOf(calls, s)
      /\ \A n \in MarkersOf(calls, s) : n.seq <= m.seq
  BY <1>1, <1>2 DEF ToPost, LastMarkers
<1>4. calls' \subseteq calls /\ m \in calls' /\ \A c \in calls : c.of.kind = "other" => c \in calls'
  BY <1>1, <1>3, TrimOf, TrimKeeps DEF NumInv
<1>5. /\ cursor \in Nat /\ \A c \in calls : c.seq \in Nat
      /\ \A c, d \in calls : c.seq = d.seq => c = d
      /\ m \in calls
  BY <1>3 DEF LogInv, TypeInv, NumbersAreUnique, MarkersOf
<1>6. \A r \in ToPost : r = m
  <2>1. \A r \in ToPost : r \in calls /\ r.seq <= m.seq /\ m.seq <= r.seq
    BY <1>3 DEF LastMarkers, MarkersOf
  <2>. QED BY <1>5, <2>1
<1>7. port' = Append(port, [what |-> "row", row |-> m])
  <2>1. PICK n \in MarkersOf(calls, s) :
          /\ n.seq = MaxSeq(MarkersOf(calls, s))
          /\ port' = Append(port, [what |-> "row", row |-> n])
    BY DEF TurnEndRow
  <2>2. Bounded(MarkersOf(calls, s))
    BY PartBounded DEF LogInv, TypeInv, MarkersOf
  <2>3. \A r \in MarkersOf(calls, s) : r.seq <= n.seq
    BY <1>5, <2>1, <2>2, MaxSeqOf, MarkersTyped
  <2>4. n \in ToPost
    BY <1>3, <2>1, <2>3 DEF LastMarkers
  <2>. QED BY <1>6, <2>1, <2>4
<1>8. Posted(port') = Posted(port) \cup {m}
  BY <1>7, PostedRow
<1>9. Batch = {} /\ Batch' = {} /\ ToPost' = {}
  BY <1>1 DEF Batch, ToPost
<1>10. \A n \in Nat : Behind(n)' => Behind(n)
  <2>1. ASSUME NEW n \in Nat, Behind(n)', NEW c \in calls PROVE c.seq < n
    <3>1. m.seq < n /\ (c \in calls' => c.seq < n)
      BY <1>4, <2>1 DEF Behind
    <3>. QED BY <1>2, <1>4, <1>5, <3>1
  <2>. QED BY <2>1 DEF Behind
<1>11. Unstored' \subseteq Unstored
  <2>1. ASSUME NEW r \in Unstored' PROVE r \in Unstored
    <3>1. PICK u \in Session : Sound(u)' /\ r \in SeqRange(waiting'[u])
      BY <1>9 DEF Unstored
    <3>2. /\ waiting[u] # <<>> /\ r \in SeqRange(waiting[u])
          /\ \A c \in calls' : c.seq < waiting[u][1].seq
      BY <1>1, <3>1 DEF Sound, Behind
    <3>3. waiting[u][1].seq \in Nat
      BY <3>2, WaitingOf
    <3>4. Sound(u)
      BY <1>10, <3>2, <3>3 DEF Sound, Behind
    <3>. QED BY <3>2, <3>4 DEF Unstored
  <2>. QED BY <2>1
<1>12. \A n \in Nat : Reached(n) => Reached(n)'
  <2>1. \A c \in calls : c \in calls' \/ c.seq <= cursor
    BY <1>4 DEF NumInv
  <2>. QED BY <1>1, <1>5, <2>1 DEF Reached
<1>13. NumInv'
  <2>1. (\A c \in calls : \A n \in cursor + 1 .. c.seq : \E d \in calls : d.seq = n)'
    <3>1. ASSUME NEW c \in calls', NEW n \in cursor + 1 .. c.seq PROVE \E d \in calls' : d.seq = n
      <4>1. PICK d \in calls : d.seq = n
        BY <1>4, <3>1 DEF NumInv
      <4>2. ~(d.seq <= cursor)
        BY <1>4, <1>5, <3>1, <4>1
      <4>. QED BY <1>4, <4>1, <4>2 DEF NumInv
    <3>. QED BY <1>1, <3>1
  <2>2. (\A c \in calls : c.of.kind = "other" \/ c.seq <= cursor)'
    BY <1>1, <1>4 DEF NumInv
  <2>3. (\/ cursor = 0 \/ \E c \in calls : c.seq >= cursor
         \/ \E t \in Session : \E r \in SeqRange(waiting[t]) : r.seq >= cursor
         \/ \E r \in Batch : r.seq >= cursor)'
    <3>1. CASE \E c \in calls : c.seq >= cursor
      <4>1. PICK c \in calls : c.seq >= cursor
        BY <3>1
      <4>2. c \in calls' \/ m.seq >= cursor
        BY <1>2, <1>4, <1>5, <4>1
      <4>. QED BY <1>1, <1>4, <4>1, <4>2
    <3>2. CASE cursor = 0
      BY <1>1, <3>2
    <3>3. CASE \E t \in Session : \E r \in SeqRange(waiting[t]) : r.seq >= cursor
      BY <1>1, <3>3 DEF SeqRange
    <3>. QED BY <1>9, <3>1, <3>2, <3>3 DEF NumInv
  <2>. QED BY <1>1, <1>9, <2>1, <2>2, <2>3 DEF NumInv
<1>14. NewPost
  <2>1. m.seq \in Nat /\ m.seq <= cursor'
    BY <1>1, <1>3, MarkersTyped
  <2>. QED BY <1>2, <1>7, <1>9, <2>1 DEF NewPost
<1>15. \A r \in Live' : r \in Live
  BY <1>4, <1>11 DEF Live
<1>16. cursor <= cursor'
  BY <1>1, <1>5
<1>. QED BY <1>6, <1>8, <1>9, <1>11, <1>12, <1>13, <1>14, <1>15, <1>16 DEF Worked

(* A batch leaves memory, under its own numbers.                           *)
LEMMA FlushWorked ==
  ASSUME LogInv, NumInv, NEW s \in Session, FlushRows(s), ~blurred'
  PROVE  NumInv' /\ Worked
<1>1. /\ task = NoTask /\ waiting[s] # <<>> /\ ~(waiting[s][1].seq <= MaxSeq(calls))
      /\ task' = Flush(s, rekeyed(waiting[s], MaxSeq(calls)))
      /\ waiting' = [waiting EXCEPT ![s] = <<>>]
      /\ UNCHANGED <<cursor, calls, age, port>>
  BY DEF FlushRows, appendEvents, Blur
<1>2. /\ MaxSeq(calls) \in Nat /\ \A c \in calls : c.seq <= MaxSeq(calls) /\ c.seq \in Nat
      /\ waiting[s][1].seq \in Nat /\ cursor \in Nat
  BY <1>1, MaxSeqOf, WaitingOf DEF LogInv, TypeInv
<1>3. rekeyed(waiting[s], MaxSeq(calls)) = waiting[s]
  BY <1>1, <1>2 DEF rekeyed
<1>4. task'.op = "flush" /\ task'.rows = waiting[s]
  BY <1>1, <1>3 DEF Flush
<1>5. Batch' = SeqRange(waiting[s]) /\ Batch = {} /\ ToPost = {} /\ ToPost' = {}
  BY <1>1, <1>4 DEF Batch, ToPost, NoTask, SeqRange
<1>6. Sound(s)
  BY <1>1, <1>2 DEF Sound, Behind
<1>7. \A u \in Session : waiting'[u] = IF u = s THEN <<>> ELSE waiting[u]
  BY <1>1 DEF LogInv, TypeInv
<1>8. Unstored' \subseteq Unstored
  <2>1. ASSUME NEW r \in Unstored', r \notin Batch' PROVE r \in Unstored
    <3>1. PICK u \in Session : Sound(u)' /\ r \in SeqRange(waiting'[u])
      BY <2>1 DEF Unstored
    <3>2. u # s /\ waiting'[u] = waiting[u]
      BY <1>7, <3>1 DEF Sound
    <3>3. Sound(u) /\ r \in SeqRange(waiting[u])
      BY <1>1, <3>1, <3>2 DEF Sound, Behind
    <3>. QED BY <3>3 DEF Unstored
  <2>2. Batch' \subseteq Unstored
    BY <1>5, <1>6 DEF Unstored
  <2>. QED BY <2>1, <2>2
<1>9. \A n \in Nat : Reached(n) => Reached(n)'
  BY <1>1 DEF Reached
<1>10. NumInv'
  <2>1. \A r \in Batch' : r.seq <= cursor
    BY <1>5, WaitingOf
  <2>2. (\/ cursor = 0 \/ \E c \in calls : c.seq >= cursor
         \/ \E t \in Session : \E r \in SeqRange(waiting[t]) : r.seq >= cursor
         \/ \E r \in Batch : r.seq >= cursor)'
    <3>1. ASSUME NEW t \in Session, NEW r \in SeqRange(waiting[t]), r.seq >= cursor
          PROVE  \/ \E q \in Batch' : q.seq >= cursor
                 \/ \E u \in Session : \E q \in SeqRange(waiting'[u]) : q.seq >= cursor
      BY <1>5, <1>7, <3>1
    <3>. QED BY <1>1, <1>5, <3>1 DEF NumInv
  <2>. QED BY <1>1, <1>4, <2>1, <2>2 DEF NumInv
<1>11. \A r \in Live' : r \in Live
  BY <1>1, <1>8 DEF Live
<1>. QED BY <1>1, <1>2, <1>5, <1>8, <1>9, <1>10, <1>11 DEF Worked

(* Steps that leave the rows and the counter alone.                        *)
LEMMA RestWorked ==
  ASSUME LogInv, NumInv, UNCHANGED <<calls, waiting, cursor, task, port>>,
         task.op = "mark" => age' = age
  PROVE  NumInv' /\ Worked
<1>1. Batch' = Batch /\ ToPost' = ToPost
  BY DEF Batch, ToPost, LastMarkers, MarkersOf
<1>2. \A n : Behind(n)' = Behind(n) /\ Reached(n)' = Reached(n)
  BY DEF Behind, Reached
<1>3. \A s \in Session : Sound(s)' = Sound(s)
  BY <1>2 DEF Sound, Behind
<1>4. Unstored' = Unstored
  BY <1>1, <1>3 DEF Unstored, SeqRange
<1>5. Live' = Live
  BY <1>4 DEF Live
<1>6. NumInv'
  BY <1>1 DEF NumInv, SeqRange
<1>7. cursor <= cursor'
  BY DEF LogInv, TypeInv
<1>. QED BY <1>1, <1>2, <1>4, <1>5, <1>6, <1>7 DEF Worked

(* More rows make no other row sound, and take nothing out of reach.       *)
LEMMA MoreRows ==
  ASSUME LogInv, calls \subseteq calls', cursor <= cursor', cursor' \in Nat,
         UNCHANGED waiting, Batch' \subseteq Batch
  PROVE  /\ Unstored' \subseteq Unstored
         /\ \A n \in Nat : Reached(n) => Reached(n)'
<1>1. \A s \in Session : Sound(s)' => Sound(s)
  BY DEF Sound, Behind
<1>2. Unstored' \subseteq Unstored
  BY <1>1 DEF Unstored, SeqRange
<1>3. ASSUME NEW n \in Nat, Reached(n) PROVE Reached(n)'
  BY <1>3 DEF Reached, LogInv, TypeInv
<1>. QED BY <1>2, <1>3

(* A marker or a tombstone takes the next number: all that is above the    *)
(* counter is without a gap, so that it is ahead when the number is free.  *)
LEMMA InsertWorked ==
  ASSUME LogInv, NumInv, NEW s \in Session, NEW of, insertMarker(s, of),
         UNCHANGED waiting, task.op = "none", task'.op # "flush"
  PROVE  LET r == [seq |-> cursor + 1, of |-> of]
         IN /\ cursor' = cursor + 1 /\ cursor \in Nat
            /\ \/ calls' = calls
               \/ calls' = calls \cup {r} /\ Ahead(r) /\ \A c \in calls : c.seq <= cursor
            /\ Unstored' \subseteq Unstored
            /\ \A n \in Nat : Reached(n) => Reached(n)'
            /\ Free <=> calls' # calls
            /\ task'.op # "mark" => NumInv'
            /\ (task'.op = "mark" /\ age'[task'.session] # "dead") =>
                 ((\E m \in ToPost' : \A c \in calls' : c.seq <= m.seq \/ c.of.kind = "other")
                   => NumInv')
<1>. DEFINE r == [seq |-> cursor + 1, of |-> of]
<1>1. r.seq = cursor + 1
  OBVIOUS
<1>. HIDE DEF r
<1>2. /\ cursor' = cursor + 1
      /\ Free \/ calls' = calls
      /\ Free => calls' = calls \cup {r} /\ \A c \in calls : c.seq # cursor + 1
  BY DEF insertMarker, Free, SeqsOf, r
<1>3. cursor \in Nat /\ \A c \in calls : c.seq \in Nat \ {0}
  BY DEF LogInv, TypeInv
<1>4. Batch = {} /\ Batch' = {}
  BY DEF Batch
<1>5. ASSUME Free, NEW c \in calls PROVE c.seq <= cursor
  <2>1. SUFFICES ASSUME c.seq > cursor PROVE FALSE
    BY <1>3
  <2>2. cursor + 1 \in cursor + 1 .. c.seq
    BY <1>3, <2>1
  <2>3. \E d \in calls : d.seq = cursor + 1
    BY <2>2 DEF NumInv
  <2>. QED BY <1>2, <1>5, <2>3
<1>6. Free => Ahead(r)
  BY <1>1, <1>3, <1>5 DEF Ahead, Behind
<1>7. /\ Unstored' \subseteq Unstored
      /\ \A n \in Nat : Reached(n) => Reached(n)'
  BY <1>2, <1>3, <1>4, MoreRows
<1>8. \E c \in calls' : c.seq = cursor'
  <2>1. CASE Free
    BY <1>1, <1>2, <2>1
  <2>2. CASE ~Free
    BY <1>2, <2>2 DEF Free, SeqsOf
  <2>. QED BY <2>1, <2>2
<1>9. (\A c \in calls : \A n \in cursor + 1 .. c.seq : \E d \in calls : d.seq = n)'
  <2>1. ASSUME NEW c \in calls', NEW n \in cursor + 2 .. c.seq PROVE \E d \in calls' : d.seq = n
    <3>1. CASE c \in calls
      <4>1. n \in cursor + 1 .. c.seq
        BY <1>3, <2>1, <3>1
      <4>2. \E d \in calls : d.seq = n
        BY <3>1, <4>1 DEF NumInv
      <4>. QED BY <1>2, <4>2
    <3>2. CASE c \notin calls
      BY <1>1, <1>2, <1>3, <2>1, <3>2
    <3>. QED BY <3>1, <3>2
  <2>2. cursor' + 1 = cursor + 2
    BY <1>2, <1>3
  <2>. QED BY <2>1, <2>2
<1>10. (\A c \in calls : c.of.kind = "other" \/ c.seq <= cursor)'
  <2>1. \A c \in calls : c.of.kind = "other" \/ c.seq <= cursor + 1
    BY <1>3 DEF NumInv
  <2>. QED BY <1>1, <1>2, <1>3, <2>1
<1>11. \E c \in calls' : c.seq >= cursor'
  BY <1>2, <1>3, <1>8
<1>12. task'.op # "mark" => NumInv'
  BY <1>4, <1>9, <1>10, <1>11 DEF NumInv
<1>13. (task'.op = "mark" /\ age'[task'.session] # "dead") =>
         ((\E m \in ToPost' : \A c \in calls' : c.seq <= m.seq \/ c.of.kind = "other")
           => NumInv')
  BY <1>4, <1>9, <1>10, <1>11 DEF NumInv
<1>14. Free <=> calls' # calls
  BY <1>1, <1>2
<1>. QED BY <1>2, <1>3, <1>5, <1>6, <1>7, <1>12, <1>13, <1>14 DEF r

(* The marker of a turn is inserted, and is to be posted.                  *)
LEMMA MarkWorked ==
  ASSUME LogInv, NumInv, DOMAIN age = Session, NEW s \in Session, writeTurnEnd(s),
         UNCHANGED port
  PROVE  NumInv' /\ Worked
<1>. DEFINE of == EndRow(s)
            r == [seq |-> cursor + 1, of |-> of]
<1>1. /\ insertMarker(s, of) /\ task = NoTask /\ UNCHANGED waiting
      /\ IF Free THEN task' = EndMark(s) ELSE UNCHANGED task
      /\ task.op = "none" /\ task'.op # "flush"
  BY DEF writeTurnEnd, NoTask, EndMark
<1>2. of.kind = "web_turn_end" /\ of.run.session = s
  BY <1>1 DEF EndRow, writeTurnEnd, LogInv, TurnInv, NoTask
<1>3. r.seq = cursor + 1 /\ r.of = of
  OBVIOUS
<1>. HIDE DEF of
<1>4. /\ cursor' = cursor + 1 /\ cursor \in Nat
      /\ \/ calls' = calls
         \/ calls' = calls \cup {r} /\ Ahead(r) /\ \A c \in calls : c.seq <= cursor
      /\ Unstored' \subseteq Unstored
      /\ \A n \in Nat : Reached(n) => Reached(n)'
      /\ Free <=> calls' # calls
      /\ task'.op # "mark" => NumInv'
      /\ (task'.op = "mark" /\ age'[task'.session] # "dead") =>
           ((\E m \in ToPost' : \A c \in calls' : c.seq <= m.seq \/ c.of.kind = "other")
             => NumInv')
  BY <1>1, InsertWorked
<1>. HIDE DEF r
<1>5. ToPost = {}
  BY <1>1 DEF ToPost
<1>6. \A c \in calls : c.seq \in Nat
  BY DEF LogInv, TypeInv
<1>7. CASE Free
  <2>1. /\ task'.op = "mark" /\ task'.session = s /\ calls' = calls \cup {r}
        /\ Ahead(r) /\ \A c \in calls : c.seq <= cursor
    BY <1>1, <1>4, <1>7 DEF EndMark
  <2>2. age'[s] = "hot"
    BY <1>1, <1>7 DEF insertMarker
  <2>3. /\ r \in MarkersOf(calls', s)
        /\ \A n \in MarkersOf(calls', s) : n.seq <= r.seq /\ (n.seq > cursor => n = r)
    BY <1>2, <1>3, <1>4, <1>6, <2>1 DEF MarkersOf
  <2>4. ToPost' = {m \in MarkersOf(calls', s) : \A n \in MarkersOf(calls', s) : n.seq <= m.seq}
    BY <2>1 DEF ToPost, LastMarkers
  <2>5. r \in ToPost' /\ \A m \in ToPost' : m.seq > cursor
    <3>1. r \in ToPost'
      BY <2>3, <2>4
    <3>2. ASSUME NEW m \in ToPost' PROVE m.seq > cursor
      <4>1. m \in calls' /\ r.seq <= m.seq
        BY <2>3, <2>4, <3>2 DEF MarkersOf
      <4>. QED BY <1>3, <1>4, <1>6, <2>1, <4>1
    <3>. QED BY <3>1, <3>2
  <2>6. \A c \in calls' : c.seq <= r.seq
    BY <1>3, <1>4, <1>6, <2>1
  <2>7. NumInv'
    BY <1>4, <2>1, <2>2, <2>5, <2>6
  <2>8. \A q \in Live' : q \in Live \/ (Ahead(q) /\ q \in ToPost')
    BY <1>4, <2>1, <2>5 DEF Live
  <2>9. cursor <= cursor'
    BY <1>4
  <2>. QED BY <1>4, <1>5, <2>5, <2>7, <2>8, <2>9 DEF Worked
<1>8. CASE ~Free
  <2>1. task'.op # "mark" /\ calls' = calls
    BY <1>1, <1>4, <1>8
  <2>2. ToPost' = {}
    BY <2>1 DEF ToPost
  <2>3. \A q \in Live' : q \in Live
    BY <1>4, <2>1 DEF Live
  <2>4. cursor <= cursor'
    BY <1>4
  <2>. QED BY <1>4, <1>5, <2>1, <2>2, <2>3, <2>4 DEF Worked
<1>. QED BY <1>7, <1>8

(* A batch is inserted as it is.                                           *)
LEMMA InsertedWorked ==
  ASSUME LogInv, NumInv, inserted, UNCHANGED port
  PROVE  NumInv' /\ Worked
<1>1. /\ task.op = "flush" /\ task'.op = "none" /\ UNCHANGED waiting
      /\ calls' = calls \cup SeqRange(task.rows)
      /\ LET last == task.rows[Len(task.rows)].seq
         IN cursor' = IF last > cursor THEN last ELSE cursor
  BY DEF inserted, NoTask
<1>2. Batch = SeqRange(task.rows) /\ Batch' = {} /\ ToPost = {} /\ ToPost' = {}
  BY <1>1 DEF Batch, ToPost
<1>3. cursor \in Nat /\ (\A c \in calls : c.seq \in Nat) /\ \A r \in Batch : r.seq \in Nat
  BY UnstoredOf DEF LogInv, TypeInv, Unstored
<1>4. cursor' = cursor
  <2>1. task.rows[Len(task.rows)] \in Batch
    BY <1>1, <1>2, FlushOf DEF LogInv, SeqRange
  <2>. QED BY <1>1, <1>3, <2>1 DEF NumInv
<1>5. /\ Unstored' \subseteq Unstored
      /\ \A n \in Nat : Reached(n) => Reached(n)'
  <2>1. calls \subseteq calls' /\ cursor <= cursor' /\ cursor' \in Nat /\ Batch' \subseteq Batch
    BY <1>1, <1>2, <1>3, <1>4
  <2>. QED BY <1>1, <2>1, MoreRows
<1>6. \A r \in Live' : r \in Live
  BY <1>1, <1>2, <1>5 DEF Live, Unstored
<1>7. NumInv'
  <2>1. (\A c \in calls : \A n \in cursor + 1 .. c.seq : \E d \in calls : d.seq = n)'
    <3>1. ASSUME NEW c \in calls', NEW n \in cursor + 1 .. c.seq PROVE \E d \in calls' : d.seq = n
      <4>1. c \in calls
        BY <1>1, <1>2, <1>3, <3>1 DEF NumInv
      <4>2. \E d \in calls : d.seq = n
        BY <3>1, <4>1 DEF NumInv
      <4>. QED BY <1>1, <4>2
    <3>. QED BY <1>4, <3>1
  <2>2. (\A c \in calls : c.of.kind = "other" \/ c.seq <= cursor)'
    BY <1>1, <1>2, <1>4 DEF NumInv
  <2>3. (\/ cursor = 0 \/ \E c \in calls : c.seq >= cursor
         \/ \E t \in Session : \E r \in SeqRange(waiting[t]) : r.seq >= cursor)'
    <3>1. ASSUME NEW t \in Session, NEW r \in SeqRange(waiting[t]), r.seq >= cursor
          PROVE  \E u \in Session : \E q \in SeqRange(waiting'[u]) : q.seq >= cursor
      BY <1>1, <3>1
    <3>. QED BY <1>1, <1>2, <1>4, <3>1 DEF NumInv
  <2>. QED BY <1>1, <1>2, <2>1, <2>2, <2>3 DEF NumInv
<1>. QED BY <1>2, <1>3, <1>4, <1>5, <1>6, <1>7 DEF Worked

(* What is not posted: nothing waits then, and no connection is up.        *)
LEMMA SilentWorked ==
  ASSUME LogInv, NumInv, NEW s \in Session, SilentRow(s), ~blurred'
  PROVE  NumInv' /\ Worked
<1>1. /\ ~ship.on /\ task.op # "flush" /\ waiting = [t \in Session |-> <<>>]
      /\ writeDelete(s) \/ foreign
      /\ UNCHANGED <<waiting, port>>
  BY DEF SilentRow, Blur, Unseen, writeDelete, foreign
<1>2. \A t \in Session : SeqRange(waiting[t]) = {}
  BY <1>1 DEF SeqRange
<1>3. CASE writeDelete(s)
  <2>. DEFINE of == [kind |-> "web_session_delete", run |-> [session |-> s, since |-> 0]]
              r == [seq |-> cursor + 1, of |-> of]
  <2>1. /\ insertMarker(s, of) /\ task.op = "none" /\ task'.op = "none"
    BY <1>3 DEF writeDelete, NoTask
  <2>. HIDE DEF of
  <2>2. /\ cursor' = cursor + 1 /\ cursor \in Nat
        /\ calls' = calls \/ (calls' = calls \cup {r} /\ Ahead(r))
        /\ Unstored' \subseteq Unstored
        /\ \A n \in Nat : Reached(n) => Reached(n)'
        /\ NumInv'
    BY <1>1, <2>1, InsertWorked
  <2>. HIDE DEF r
  <2>3. ToPost = {} /\ ToPost' = {}
    BY <2>1 DEF ToPost
  <2>4. \A q \in Live' : q \in Live \/ Ahead(q)
    BY <2>2 DEF Live
  <2>5. cursor <= cursor'
    BY <2>2
  <2>. QED BY <1>1, <2>2, <2>3, <2>4, <2>5 DEF Worked
<1>4. CASE foreign
  <2>. DEFINE r == [seq |-> MaxSeq(calls) + 1, of |-> [kind |-> "other", run |-> NoRun]]
  <2>1. calls' = calls \cup {r} /\ UNCHANGED <<cursor, task, age>>
    BY <1>4 DEF foreign
  <2>2. r.seq = MaxSeq(calls) + 1 /\ r.of.kind = "other"
    OBVIOUS
  <2>. HIDE DEF r
  <2>3. /\ cursor \in Nat /\ \A c \in calls : c.seq \in Nat \ {0}
        /\ MaxSeq(calls) \in Nat /\ \A c \in calls : c.seq <= MaxSeq(calls)
        /\ calls # {} => \E c \in calls : c.seq = MaxSeq(calls)
    BY MaxSeqOf DEF LogInv, TypeInv
  <2>4. Batch = {} /\ Batch' = {}
    BY <1>1, <2>1 DEF Batch
  <2>5. cursor <= MaxSeq(calls)
    BY <1>2, <2>3, <2>4 DEF NumInv
  <2>6. Ahead(r)
    BY <2>2, <2>3, <2>5 DEF Ahead, Behind
  <2>7. /\ Unstored' \subseteq Unstored
        /\ \A n \in Nat : Reached(n) => Reached(n)'
    <3>1. calls \subseteq calls' /\ cursor <= cursor' /\ cursor' \in Nat /\ Batch' \subseteq Batch
      BY <2>1, <2>3, <2>4
    <3>. QED BY <1>1, <3>1, MoreRows
  <2>8. ToPost' = ToPost
    <3>1. \A t : MarkersOf(calls', t) = MarkersOf(calls, t)
      BY <2>1, <2>2 DEF MarkersOf
    <3>. QED BY <2>1, <3>1 DEF ToPost, LastMarkers
  <2>9. (\A c \in calls : \A n \in cursor + 1 .. c.seq : \E d \in calls : d.seq = n)'
    <3>1. ASSUME NEW n \in cursor + 1 .. r.seq PROVE \E d \in calls' : d.seq = n
      <4>1. CASE n = r.seq
        BY <2>1, <4>1
      <4>2. CASE n # r.seq
        <5>1. n \in cursor + 1 .. MaxSeq(calls) /\ calls # {}
          <6>1. n \in Nat /\ n >= cursor + 1 /\ n <= MaxSeq(calls)
            BY <2>2, <2>3, <3>1, <4>2
          <6>2. MaxSeq(calls) # 0
            BY <2>3, <6>1
          <6>3. calls # {}
            BY <6>2 DEF MaxSeq
          <6>. QED BY <2>3, <6>1, <6>3
        <5>2. PICK c \in calls : c.seq = MaxSeq(calls)
          BY <2>3, <5>1
        <5>3. \E d \in calls : d.seq = n
          BY <5>1, <5>2 DEF NumInv
        <5>. QED BY <2>1, <5>3
      <4>. QED BY <4>1, <4>2
    <3>2. ASSUME NEW c \in calls, NEW n \in cursor + 1 .. c.seq PROVE \E d \in calls' : d.seq = n
      BY <2>1, <3>2 DEF NumInv
    <3>. QED BY <2>1, <3>1, <3>2
  <2>10. NumInv'
    <3>1. (\A c \in calls : c.of.kind = "other" \/ c.seq <= cursor)'
      BY <2>1, <2>2 DEF NumInv
    <3>2. r \in calls' /\ r.seq >= cursor'
      BY <2>1, <2>2, <2>3, <2>5
    <3>3. (task.op = "mark" =>
             /\ age[task.session] # "dead"
             /\ \E m \in ToPost : \A c \in calls : c.seq <= m.seq \/ c.of.kind = "other")'
      BY <2>1, <2>2, <2>8 DEF NumInv
    <3>. QED BY <2>4, <2>9, <3>1, <3>2, <3>3 DEF NumInv
  <2>11. \A q \in Live' : q \in Live \/ Ahead(q)
    BY <2>1, <2>6, <2>7 DEF Live
  <2>12. cursor <= cursor'
    BY <2>1, <2>3
  <2>. QED BY <1>1, <2>7, <2>8, <2>10, <2>11, <2>12 DEF Worked
<1>. QED BY <1>1, <1>3, <1>4

LEMMA AgeKept ==
  ASSUME DOMAIN age = Session, PeerNext
  PROVE  DOMAIN age' = Session
<1>1. ASSUME UNCHANGED age PROVE DOMAIN age' = Session
  BY <1>1
<1>2. ASSUME NEW s \in Session, NEW of, insertMarker(s, of) PROVE DOMAIN age' = Session
  BY <1>2 DEF insertMarker
<1>3. ASSUME NEW s \in Session, LogRow(s) \/ TurnEndRow(s) \/ FlushRows(s) PROVE UNCHANGED age
  BY <1>3 DEF LogRow, log, pause, TurnEndRow, turnEnded, FlushRows, appendEvents
<1>4. ASSUME NEW s \in Session, SilentRow(s) PROVE DOMAIN age' = Session
  BY <1>1, <1>2, <1>4 DEF SilentRow, writeDelete, foreign
<1>5. ASSUME NEW s \in Session, OtherStep(s) PROVE DOMAIN age' = Session
  <2>1. CASE ages
    BY <2>1 DEF ages
  <2>2. CASE writeTurnEnd(s)
    BY <1>2, <2>2 DEF writeTurnEnd
  <2>. QED BY <1>1, <1>5, <2>1, <2>2
           DEF OtherStep, startTurn, saveCheckpoint, finish, stop, inserted
<1>6. CASE Worker
  BY <1>1, <1>3, <1>4, <1>5, <1>6 DEF Worker
<1>7. CASE PageReload
  BY <1>1, <1>7 DEF PageReload, reload
<1>8. CASE Stream
  BY <1>1, <1>8 DEF Stream, Answer, Hear, pump, DeskStep, handleControl, logVars
<1>9. CASE attachLogStream \/ loseConnection \/ loadFails
  BY <1>1, <1>9 DEF attachLogStream, loseConnection, loadFails, logVars
<1>. QED BY <1>6, <1>7, <1>8, <1>9 DEF PeerNext

LEMMA WorkerWorked ==
  ASSUME LogInv, NumInv, IsSeq(port), DOMAIN age = Session, Worker, ~blurred'
  PROVE  NumInv' /\ Worked
<1>1. PICK s \in Session :
        LogRow(s) \/ TurnEndRow(s) \/ FlushRows(s) \/ SilentRow(s) \/ OtherStep(s)
  BY DEF Worker
<1>2. CASE LogRow(s)
  BY <1>2, LogWorked
<1>3. CASE TurnEndRow(s)
  BY <1>3, TurnEndWorked
<1>4. CASE FlushRows(s)
  BY <1>4, FlushWorked
<1>5. CASE SilentRow(s)
  BY <1>5, SilentWorked
<1>6. CASE OtherStep(s)
  <2>1. UNCHANGED port
    BY <1>6 DEF OtherStep
  <2>2. CASE writeTurnEnd(s)
    BY <2>1, <2>2, MarkWorked
  <2>3. CASE inserted
    BY <2>1, <2>3, InsertedWorked
  <2>4. CASE ages
    <3>1. task.op # "mark"
      <4>1. \A t \in Session : task # EndMark(t)
        BY <2>4 DEF ages, LogInv, TurnInv
      <4>. QED BY <4>1 DEF LogInv, TypeInv, NoTask, Flush
    <3>2. UNCHANGED <<calls, waiting, cursor, task, port>>
      BY <2>1, <2>4 DEF ages
    <3>. QED BY <3>1, <3>2, RestWorked
  <2>5. CASE startTurn(s) \/ saveCheckpoint(s) \/ finish(s) \/ stop(s)
    <3>1. UNCHANGED <<calls, waiting, cursor, task, age, port>>
      BY <2>1, <2>5 DEF startTurn, saveCheckpoint, finish, stop
    <3>. QED BY <3>1, RestWorked
  <2>. QED BY <1>6, <2>2, <2>3, <2>4, <2>5 DEF OtherStep
<1>. QED BY <1>1, <1>2, <1>3, <1>4, <1>5, <1>6

(* The same of the next state.                                             *)
RowsTyped ==
  cursor \in Nat /\ (\A r \in Live : r.seq \in Nat) /\ \A m \in ToPost : m.seq \in Nat
LEMMA RowsAreTyped == LogInv => RowsTyped
  BY LiveTyped, MarkersTyped DEF RowsTyped, ToPost, LastMarkers, LogInv, TypeInv
LEMMA RowsStayTyped == LogInv' => RowsTyped'
  BY RowsAreTyped, PTL

(* What the worker does keeps the stream as it is.                         *)
LEMMA WorkerStream ==
  ASSUME LogInv, RowsTyped', Shape, Stage, StreamInv, Worked,
         UNCHANGED <<asked, ship, up, down, desk>>
  PROVE  DeskInv' /\ PortInv' /\ Flow'
<1>1. RowsTyped /\ DeskInv /\ PortInv /\ Flow
  BY RowsAreTyped DEF StreamInv
<1>2. /\ desk.cursor \in Nat /\ cursor \in Nat /\ cursor' \in Nat /\ cursor <= cursor'
      /\ \A p \in ship.pending \cup Posted(port) : p.seq \in Nat
      /\ \A e \in Sending \cup Window(port) : e.seq \in Nat
      /\ \A r \in Live' : r.seq \in Nat
      /\ IsSeq(port)
  BY <1>1 DEF Shape, Rows, RowsTyped, Worked
<1>3. Sending' = Sending /\ ship' = ship /\ desk' = desk
  BY DEF Sending
<1>4. /\ Window(port') = Window(port) /\ (Told(port', "rows") => Told(port, "rows"))
      /\ \E new \in SUBSET Posted(port') :
           /\ Posted(port') = Posted(port) \cup new
           /\ \A r \in new : r.seq \in Nat /\ r.seq <= cursor' /\ (r.seq > cursor \/ r \in ToPost)
           /\ new # {} => ToPost' = {}
           /\ (\A p \in Posted(port), r \in new : p.seq < r.seq) /\ Ascending(port) =>
                Ascending(port')
  <2>1. CASE port' = port
    <3>1. /\ {} \in SUBSET Posted(port') /\ Posted(port') = Posted(port) \cup {}
          /\ Ascending(port) => Ascending(port')
      BY <2>1
    <3>. QED BY <2>1, <3>1
  <2>2. CASE NewPost
    <3>1. PICK r : /\ port' = Append(port, [what |-> "row", row |-> r])
                   /\ r.seq \in Nat /\ r.seq <= cursor' /\ (r.seq > cursor \/ r \in ToPost)
                   /\ ToPost' = {}
      BY <2>2 DEF NewPost
    <3>. DEFINE m == [what |-> "row", row |-> r]
    <3>2. m.what = "row" /\ m.row = r /\ Plain(m) /\ ~Plain([what |-> "rows"])
      BY DEF Plain
    <3>. HIDE DEF m
    <3>3. /\ Posted(port') = Posted(port) \cup {r} /\ Window(port') = Window(port)
          /\ Told(port', "rows") => Told(port, "rows")
          /\ Ascending(port) /\ (\A p \in Posted(port) : p.seq < r.seq) => Ascending(port')
      BY <1>2, <3>1, <3>2, PostKinds DEF m
    <3>4. {r} \in SUBSET Posted(port')
      BY <3>3
    <3>. QED BY <3>1, <3>3, <3>4
  <2>. QED BY <2>1, <2>2 DEF Worked
<1>5. PICK new \in SUBSET Posted(port') :
        /\ Posted(port') = Posted(port) \cup new
        /\ \A r \in new : r.seq \in Nat /\ r.seq <= cursor' /\ (r.seq > cursor \/ r \in ToPost)
        /\ new # {} => ToPost' = {}
        /\ (\A p \in Posted(port), r \in new : p.seq < r.seq) /\ Ascending(port) =>
             Ascending(port')
  BY <1>4
<1>6. \A p \in ship.pending \cup Posted(port) : p.seq <= cursor /\ \A r \in new : p.seq < r.seq
  BY <1>1, <1>2, <1>5 DEF PortInv
<1>7. PortInv'
  <2>1. \A p \in ship.pending \cup Posted(port') : p.seq <= cursor'
    BY <1>2, <1>5, <1>6
  <2>2. Ascending(port')
    BY <1>1, <1>5, <1>6 DEF PortInv
  <2>3. \A p \in ship.pending, q \in Posted(port') : p.seq < q.seq
    BY <1>1, <1>5, <1>6 DEF PortInv
  <2>4. ASSUME NEW m \in ToPost', NEW p \in ship.pending \cup Posted(port') PROVE p.seq < m.seq
    <3>1. p \in ship.pending \cup Posted(port)
      BY <1>5, <2>4
    <3>2. m.seq \in Nat /\ (m \in ToPost \/ m.seq > cursor)
      BY <2>4 DEF Worked, RowsTyped
    <3>. QED BY <1>1, <1>2, <1>6, <3>1, <3>2 DEF PortInv
  <2>. QED BY <1>3, <2>1, <2>2, <2>3, <2>4 DEF PortInv
<1>8. \A n \in Nat : Reached(n) => \A r \in Live' : r.seq <= n => r \in Live
  <2>1. ASSUME NEW n \in Nat, Reached(n), NEW r \in Live', r.seq <= n PROVE r \in Live
    <3>1. SUFFICES ASSUME Ahead(r) PROVE FALSE
      BY DEF Worked
    <3>2. n < r.seq
      BY <1>2, <2>1, <3>1, AheadOf
    <3>. QED BY <1>2, <2>1, <3>2
  <2>. QED BY <2>1
<1>9. DeskInv'
  <2>1. Reached(desk.cursor)'
    BY <1>1, <1>2, <1>3 DEF DeskInv, Worked, Reached
  <2>2. ASSUME NEW r \in Live', desk.trimmed < r.seq, r.seq <= desk.cursor PROVE r \in desk.rows
    BY <1>1, <1>2, <1>8, <2>2 DEF DeskInv
  <2>. QED BY <1>3, <2>1, <2>2 DEF DeskInv
<1>10. ASSUME NEW rows, Gapless(rows), \A e \in rows : e.seq \in Nat
       PROVE  \A e \in rows : /\ \A n : n = e.seq => Reached(n)'
                              /\ \A r \in Live' :
                                   desk.cursor < r.seq /\ r.seq <= e.seq => r \in rows
  <2>1. ASSUME NEW e \in rows PROVE \A n : n = e.seq => Reached(n)'
    BY <1>10, <2>1 DEF Gapless, Worked
  <2>2. ASSUME NEW e \in rows, NEW r \in Live', desk.cursor < r.seq, r.seq <= e.seq
        PROVE  r \in rows
    <3>1. r \in Live
      BY <1>8, <1>10, <2>2 DEF Gapless
    <3>. QED BY <1>10, <2>2, <3>1 DEF Gapless
  <2>. QED BY <2>1, <2>2
<1>11. ASSUME Coming, ship.on
       PROVE  \A r \in Live' : r.seq > desk.cursor =>
                r \in Sending \cup ship.pending \cup Posted(port') \cup ToPost'
  <2>1. TAKE r \in Live'
  <2>2. CASE r \in Live
    BY <1>5, <1>11, <2>2 DEF Coming, OnTheWay, Worked
  <2>3. CASE r \notin Live
    BY <1>11, <2>3 DEF Worked
  <2>. QED BY <2>2, <2>3
<1>12. (Told(port, "rows") \/ ship.ready) => ship.on
  BY NothingTold DEF Stage, Off, AsksMax, ToldMax, Greets, Greeted, Idle, AsksRows, ToldRows,
                     Sends, Acks, Refuses, New, Ready, Awaits, Closed
<1>13. Flow'
  <2>1. ASSUME ship.on, NEW r \in Unstored'
        PROVE  \/ r \in Sending \cup ship.pending \cup Posted(port')
               \/ ship.ready /\ r.seq <= desk.cursor
    <3>1. CASE r \in Unstored
      BY <1>1, <1>5, <2>1, <3>1 DEF Flow, OnTheWay
    <3>2. CASE r \notin Unstored
      BY <2>1, <3>2 DEF Worked
    <3>. QED BY <3>1, <3>2
  <2>2. Gapless(Sending)'
    BY <1>1, <1>2, <1>3, <1>10 DEF Flow, Gapless, Reached
  <2>3. Gapless(Window(port))'
    BY <1>1, <1>2, <1>3, <1>4, <1>10 DEF Flow, Gapless, Reached
  <2>4. Told(port', "rows") /\ Window(port') = {} => Coming'
    BY <1>1, <1>3, <1>4, <1>11, <1>12 DEF Flow, Coming, OnTheWay
  <2>5. ship.ready /\ ~ship.backfill => Coming'
    BY <1>1, <1>3, <1>11, <1>12 DEF Flow, Coming, OnTheWay
  <2>6. \A e \in Window(port') : e.seq > desk.cursor
    BY <1>1, <1>4 DEF Flow
  <2>. QED BY <1>3, <2>1, <2>2, <2>3, <2>4, <2>5, <2>6 DEF Flow, OnTheWay
<1>. QED BY <1>7, <1>9, <1>13

-----------------------------------------------------------------------------
(* Steps that carry no answer or request leave the stage as it is.         *)
LEMMA StageKept ==
  ASSUME Stage, UNCHANGED <<asked, up, down>>, desk'.cursor = desk.cursor,
         NoAnswer(port) => NoAnswer(port'),
         Told(port, "max") => Told(port', "max"), Told(port, "rows") => Told(port', "rows"),
         ship'.on = ship.on, ship'.ready = ship.ready, ship'.cursor = ship.cursor,
         ship'.inflight = ship.inflight, ship.ready \/ (ship.backfill => ship'.backfill),
         ~ship.on => ship' = ship
  PROVE  Stage'
<1>1. New => New'
  BY DEF New
<1>2. (Ready => Ready') /\ (Awaits => Awaits') /\ (Quiet => Quiet')
  BY DEF Ready, Awaits, Quiet
<1>3. Off => Off'
  BY <1>2 DEF Off
<1>4. (AsksMax => AsksMax') /\ (ToldMax => ToldMax') /\ (Greets => Greets')
  BY <1>1, <1>2 DEF AsksMax, ToldMax, Greets
<1>5. (Greeted => Greeted') /\ (Idle => Idle') /\ (AsksRows => AsksRows')
  BY <1>1, <1>2 DEF Greeted, Idle, AsksRows
<1>6. (ToldRows => ToldRows') /\ (Sends => Sends') /\ (Acks => Acks') /\ (Refuses => Refuses')
  BY <1>1, <1>2 DEF ToldRows, Sends, Acks, Refuses
<1>. QED BY <1>3, <1>4, <1>5, <1>6 DEF Stage

LEMMA WorkerPort ==
  ASSUME LogInv, Worker, blurred \in BOOLEAN
  PROVE  /\ UNCHANGED <<asked, ship, up, down, desk>>
         /\ blurred' \in BOOLEAN /\ (blurred => blurred')
         /\ \/ port' = port
            \/ \E r : port' = Append(port, [what |-> "row", row |-> r]) /\ r.seq \in Nat
<1>1. PICK s \in Session :
        LogRow(s) \/ TurnEndRow(s) \/ FlushRows(s) \/ SilentRow(s) \/ OtherStep(s)
  BY DEF Worker
<1>2. UNCHANGED <<asked, ship, up, down, desk>>
  BY <1>1 DEF LogRow, TurnEndRow, FlushRows, SilentRow, OtherStep, PeerIdle
<1>3. blurred' \in BOOLEAN /\ (blurred => blurred')
  BY <1>1 DEF LogRow, TurnEndRow, FlushRows, SilentRow, OtherStep, Blur
<1>4. CASE LogRow(s)
  <2>1. NextRow(s).seq \in Nat
    BY DEF NextRow, LogInv, TypeInv
  <2>. QED BY <1>2, <1>3, <1>4, <2>1 DEF LogRow
<1>5. CASE TurnEndRow(s)
  <2>1. PICK m \in MarkersOf(calls, s) : port' = Append(port, [what |-> "row", row |-> m])
    BY <1>5 DEF TurnEndRow
  <2>2. m.seq \in Nat
    BY MarkersTyped
  <2>. QED BY <1>2, <1>3, <2>1, <2>2
<1>6. CASE FlushRows(s) \/ SilentRow(s) \/ OtherStep(s)
  BY <1>2, <1>3, <1>6 DEF FlushRows, SilentRow, OtherStep
<1>. QED BY <1>1, <1>4, <1>5, <1>6

LEMMA WorkerKept ==
  ASSUME LogInv, RowsTyped', PeerInv, Worker, DOMAIN age' = Session
  PROVE  PeerInv'
<1>1. Shape /\ Stage /\ IsSeq(port) /\ DOMAIN age = Session
  BY DEF PeerInv, Shape
<1>2. /\ UNCHANGED <<asked, ship, up, down, desk>>
      /\ blurred' \in BOOLEAN /\ (blurred => blurred')
      /\ \/ port' = port
         \/ \E r : port' = Append(port, [what |-> "row", row |-> r]) /\ r.seq \in Nat
  BY <1>1, WorkerPort DEF Shape
<1>3. /\ IsSeq(port') /\ (\A r \in Posted(port') : r.seq \in Nat)
      /\ Window(port') = Window(port)
      /\ NoAnswer(port) => NoAnswer(port')
      /\ Told(port, "max") => Told(port', "max")
      /\ Told(port, "rows") => Told(port', "rows")
  <2>1. CASE port' = port
    BY <1>1, <2>1 DEF Shape
  <2>2. CASE port' # port
    <3>1. PICK r : port' = Append(port, [what |-> "row", row |-> r]) /\ r.seq \in Nat
      BY <1>2, <2>2
    <3>. DEFINE m == [what |-> "row", row |-> r]
    <3>2. m.what = "row" /\ m.row = r /\ Plain(m)
      BY DEF Plain
    <3>. HIDE DEF m
    <3>3. port' = Append(port, m)
      BY <3>1 DEF m
    <3>6. IsSeq(port')
      BY <1>1, <3>3, PostOf
    <3>4. /\ IsSeq(port') /\ Posted(port') = Posted(port) \cup {r}
          /\ Window(port') = Window(port)
      BY <1>1, <3>2, <3>3, <3>6, PostKinds
    <3>5. /\ NoAnswer(port) => NoAnswer(port')
          /\ Told(port, "max") => Told(port', "max")
          /\ Told(port, "rows") => Told(port', "rows")
      BY <1>1, <3>2, <3>3, PostKinds
    <3>. QED BY <1>1, <3>1, <3>4, <3>5 DEF Shape
  <2>. QED BY <2>1, <2>2
<1>4. Shape'
  <2>1. Sending' = Sending
    BY <1>2 DEF Sending
  <2>. QED BY <1>1, <1>2, <1>3, <2>1 DEF Shape
<1>5. Stage'
  BY <1>1, <1>2, <1>3, StageKept
<1>6. ASSUME ~blurred' PROVE StreamInv'
  <2>1. StreamInv /\ NumInv
    BY <1>1, <1>2, <1>6 DEF PeerInv, StreamInv
  <2>2. NumInv' /\ Worked
    BY <1>1, <1>6, <2>1, WorkerWorked
  <2>3. DeskInv' /\ PortInv' /\ Flow'
    BY <1>1, <1>2, <2>1, <2>2, WorkerStream
  <2>. QED BY <2>2, <2>3 DEF StreamInv
<1>. QED BY <1>4, <1>5, <1>6 DEF PeerInv

(* A reload: the stream is gone, and the counter is that of the table.     *)
LEMMA ReloadKept ==
  ASSUME LogInv, PeerInv, PageReload, DOMAIN age' = Session
  PROVE  PeerInv'
<1>1. /\ port' = <<>> /\ asked' = NoAsk /\ ship' = Closed /\ up' = <<>> /\ down' = <<>>
      /\ desk' = desk /\ task' = NoTask /\ waiting' = [s \in Session |-> <<>>]
      /\ maybeTrim /\ cursor' = MaxSeq(calls')
      /\ blurred' = (blurred \/ MaxSeq(calls') < desk.cursor)
  BY DEF PageReload, reload, Blur
<1>2. IsSeq(<<>>) /\ Posted(<<>>) = {} /\ Window(<<>>) = {} /\ NoAnswer(<<>>) /\ Ascending(<<>>)
  BY DEF IsSeq, Posted, Window, NoAnswer, Ascending
<1>3. Sending' = {} /\ IsFiniteSet({})
  BY <1>1, FS_EmptySet DEF Sending
<1>4. Shape'
  <2>1. ShipShape(Closed) /\ Closed.cursor = 0 /\ Closed.pending = {}
    BY DEF ShipShape, Closed
  <2>2. ShipShape(ship') /\ ship'.cursor \in Nat /\ Rows(ship'.pending)
    BY <1>1, <1>3, <2>1 DEF Rows
  <2>3. IsSeq(port') /\ (\A r \in Posted(port') : r.seq \in Nat) /\ Rows(Window(port'))
    BY <1>1, <1>2, <1>3 DEF Rows
  <2>4. Rows(Sending') /\ blurred' \in BOOLEAN
    BY <1>1, <1>3 DEF Rows
  <2>. QED BY <1>1, <2>2, <2>3, <2>4 DEF Shape, PeerInv
<1>5. Stage'
  BY <1>1, <1>2 DEF Stage, Off, Quiet, Closed
<1>6. ASSUME ~blurred' PROVE StreamInv'
  <2>1. StreamInv /\ ~(cursor' < desk.cursor) /\ desk.cursor \in Nat
    BY <1>1, <1>6 DEF PeerInv, Shape
  <2>2. /\ calls' \subseteq calls /\ cursor' \in Nat
        /\ \A c \in calls' : c.seq \in Nat /\ c.seq <= cursor'
        /\ cursor' = 0 \/ \E c \in calls' : c.seq = cursor'
    <3>1. calls' \subseteq calls
      BY <1>1, TrimOf
    <3>2. (\A c \in calls' : c.seq \in Nat) /\ Bounded(calls')
      BY <3>1, PartBounded DEF LogInv, TypeInv
    <3>3. calls' = {} => MaxSeq(calls') = 0
      BY DEF MaxSeq
    <3>. QED BY <1>1, <3>1, <3>2, <3>3, MaxSeqOf
  <2>3. Batch' = {} /\ ToPost' = {} /\ Unstored' = {} /\ Live' = calls'
    <3>1. Batch' = {} /\ ToPost' = {}
      BY <1>1 DEF Batch, ToPost, NoTask
    <3>2. \A s \in Session : ~Sound(s)'
      BY <1>1 DEF Sound
    <3>. QED BY <3>1, <3>2 DEF Unstored, Live
  <2>4. NumInv'
    BY <1>1, <2>2, <2>3 DEF NumInv, NoTask
  <2>5. DeskInv'
    <3>1. Reached(desk.cursor)'
      BY <1>1, <2>1, <2>2 DEF Reached
    <3>. QED BY <1>1, <2>1, <2>2, <2>3, <3>1 DEF DeskInv, StreamInv, Live
  <2>6. PortInv'
    BY <1>1, <1>2, <2>3 DEF PortInv, Closed
  <2>7. Flow'
    BY <1>1, <1>2, <1>3, <2>3, NothingTold DEF Flow, Gapless, Closed
  <2>. QED BY <2>4, <2>5, <2>6, <2>7 DEF StreamInv
<1>. QED BY <1>4, <1>5, <1>6 DEF PeerInv

-----------------------------------------------------------------------------
(* The steps of the stream leave the worker as it is.                      *)
LEMMA LogSame ==
  ASSUME UNCHANGED logVars
  PROVE  /\ Live' = Live /\ Unstored' = Unstored /\ ToPost' = ToPost /\ NumInv' = NumInv
         /\ cursor' = cursor /\ age' = age
         /\ \A n : Reached(n)' = Reached(n)
<1>1. UNCHANGED <<cursor, waiting, calls, task, age>>
  BY DEF logVars
<1>2. Batch' = Batch /\ ToPost' = ToPost
  BY <1>1 DEF Batch, ToPost, LastMarkers, MarkersOf, SeqRange
<1>3. Unstored' = Unstored
  BY <1>1, <1>2 DEF Unstored, SeqRange, Sound, Behind
<1>4. Live' = Live
  BY <1>1, <1>3 DEF Live
<1>5. NumInv' = NumInv
  BY <1>1, <1>2 DEF NumInv, SeqRange
<1>6. \A n : Reached(n)' = Reached(n)
  BY <1>1 DEF Reached
<1>. QED BY <1>1, <1>2, <1>3, <1>4, <1>5, <1>6

(* A step that neither sends nor stores a row, and takes a live row of the *)
(* page only when the desktop has it or the connection is gone.            *)
Quietly ==
  /\ UNCHANGED logVars /\ desk' = desk
  /\ Posted(port') = Posted(port) /\ (Ascending(port) => Ascending(port'))
  /\ Window(port') = Window(port) \/ (Window(port') = {} /\ ~Told(port', "rows"))
  /\ Sending' = Sending \/ (Sending' = {} /\ ~ship'.on)
  /\ ship'.pending \subseteq ship.pending
  /\ \A p \in ship.pending :
       p \in ship'.pending \/ ~ship'.on \/ (ship'.ready /\ p.seq <= desk.cursor)
  /\ ship'.on => ship.on /\ (ship.ready => ship'.ready)
  /\ Told(port', "rows") => Told(port, "rows") /\ ship'.on
  /\ ship'.ready /\ ~ship'.backfill => ship'.on /\ ship.ready /\ ~ship.backfill

LEMMA QuietStep ==
  ASSUME StreamInv, Quietly, \A p \in ship.pending : p.seq \in Nat, desk.cursor \in Nat
  PROVE  StreamInv'
<1>1. /\ Live' = Live /\ Unstored' = Unstored /\ ToPost' = ToPost /\ NumInv' = NumInv
      /\ cursor' = cursor /\ desk' = desk
      /\ \A n : Reached(n)' = Reached(n)
  BY LogSame DEF Quietly
<1>2. NumInv /\ DeskInv /\ PortInv /\ Flow
  BY DEF StreamInv
<1>3. DeskInv'
  <2>1. Reached(desk.cursor)'
    BY <1>1, <1>2 DEF DeskInv, Reached, logVars, Quietly
  <2>. QED BY <1>1, <1>2, <2>1 DEF DeskInv
<1>4. PortInv'
  BY <1>1, <1>2 DEF PortInv, Quietly
<1>5. ASSUME NEW rows, Gapless(rows)
      PROVE  \A e \in rows : /\ \A n : n = e.seq => Reached(n)'
                             /\ \A r \in Live' : desk.cursor < r.seq /\ r.seq <= e.seq => r \in rows
  BY <1>1, <1>5 DEF Gapless
<1>6. Gapless(Sending)' /\ Gapless(Window(port))'
  <2>1. Gapless(Sending)'
    BY <1>1, <1>2, <1>5 DEF Flow, Gapless, Reached, Quietly
  <2>2. Gapless(Window(port))'
    BY <1>1, <1>2, <1>5 DEF Flow, Gapless, Reached, Quietly
  <2>. QED BY <2>1, <2>2
<1>7. ASSUME Coming, ship'.on PROVE Coming'
  <2>1. ASSUME NEW r \in Live, r.seq > desk.cursor
        PROVE  r \in Sending' \cup ship'.pending \cup Posted(port') \cup ToPost
    <3>1. CASE r \in ship.pending
      BY <1>7, <2>1, <3>1 DEF Quietly
    <3>2. CASE r \in Sending \cup Posted(port) \cup ToPost
      BY <1>7, <3>2 DEF Quietly
    <3>. QED BY <1>7, <2>1, <3>1, <3>2 DEF Coming, OnTheWay
  <2>. QED BY <1>1, <2>1 DEF Coming, OnTheWay
<1>8. Flow'
  <2>1. ASSUME ship'.on, NEW r \in Unstored
        PROVE  \/ r \in Sending' \cup ship'.pending \cup Posted(port')
               \/ ship'.ready /\ r.seq <= desk.cursor
    BY <1>2, <2>1 DEF Flow, OnTheWay, Quietly
  <2>2. Told(port', "rows") /\ Window(port') = {} => Coming'
    BY <1>2, <1>7 DEF Flow, Quietly
  <2>3. ship'.ready /\ ~ship'.backfill => Coming'
    BY <1>2, <1>7 DEF Flow, Quietly
  <2>4. \A e \in Window(port') : e.seq > desk.cursor
    BY <1>2 DEF Flow, Quietly
  <2>. QED BY <1>1, <1>6, <2>1, <2>2, <2>3, <2>4 DEF Flow, OnTheWay
<1>. QED BY <1>1, <1>2, <1>3, <1>4, <1>8 DEF StreamInv

LEMMA PostAnswer ==
  ASSUME NEW p, IsSeq(p), NoAnswer(p), NEW m, m.what # "row"
  PROVE  /\ Posted(Append(p, m)) = Posted(p) /\ Told(Append(p, m), m.what)
         /\ Window(Append(p, m)) = IF m.what = "rows" THEN m.rows ELSE {}
         /\ Ascending(p) => Ascending(Append(p, m))
<1>1. Window(p) = {}
  BY NothingTold
<1>2. Told(Append(p, m), m.what) /\ (Ascending(p) => Ascending(Append(p, m)))
  BY PostKinds
<1>3. Posted(Append(p, m)) = Posted(p)
  <2>1. Posted(Append(p, m)) = Posted(p) \cup (IF m.what = "row" THEN {m.row} ELSE {})
    BY PostKinds
  <2>. QED BY <2>1
<1>4. Window(Append(p, m)) = IF m.what = "rows" THEN m.rows ELSE {}
  <2>1. Window(Append(p, m)) = Window(p) \cup (IF m.what = "rows" THEN m.rows ELSE {})
    BY PostKinds
  <2>. QED BY <1>1, <2>1
<1>. QED BY <1>2, <1>3, <1>4

(* The two answers of the worker.                                          *)
LEMMA AnswerKept ==
  ASSUME LogInv, PeerInv, Answer
  PROVE  PeerInv'
<1>1. /\ Shape /\ Stage /\ IsSeq(port) /\ asked.what # "nothing" /\ task = NoTask
      /\ port' = Append(port, IF asked.what = "max" THEN [what |-> "max", max |-> MaxSeq(calls)]
                              ELSE [what |-> "rows", rows |-> loadRowsAfter(asked.after)])
      /\ asked' = NoAsk /\ UNCHANGED <<ship, up, down, desk, blurred>> /\ UNCHANGED logVars
  BY DEF Answer, PeerInv, Shape
<1>2. AsksMax \/ AsksRows
  BY <1>1 DEF Stage, Off, ToldMax, Greets, Greeted, Idle, ToldRows, Sends, Acks, Refuses, NoAsk
<1>3. NoAnswer(port) /\ Window(port) = {} /\ ~Told(port, "rows")
  BY <1>2, NothingTold DEF AsksMax, AsksRows
<1>4. Sending' = Sending /\ age' = age
  BY <1>1, LogSame DEF Sending
<1>5. CASE AsksMax
  <2>. DEFINE m == [what |-> "max", max |-> MaxSeq(calls)]
  <2>1. port' = Append(port, m) /\ m.what = "max"
    BY <1>1, <1>5 DEF AsksMax
  <2>. HIDE DEF m
  <2>2. IsSeq(port')
    BY <1>1, <2>1, PostOf
  <2>3. /\ Posted(port') = Posted(port) /\ Window(port') = {} /\ Told(port', "max")
        /\ Ascending(port) => Ascending(port')
    BY <1>1, <1>3, <2>1, PostAnswer
  <2>4. ~Told(port', "rows")
    BY <2>3 DEF Told, Plain
  <2>5. Shape'
    BY <1>1, <1>3, <1>4, <2>2, <2>3 DEF Shape
  <2>6. Stage'
    BY <1>1, <1>5, <2>3 DEF Stage, AsksMax, ToldMax, New, Quiet
  <2>7. ASSUME ~blurred' PROVE StreamInv'
    <3>1. StreamInv
      BY <1>1, <2>7 DEF PeerInv
    <3>2. ship' = ship /\ desk' = desk /\ ship.on /\ ~ship.ready
      BY <1>1, <1>5 DEF AsksMax, New
    <3>3. desk.cursor \in Nat /\ \A p \in ship.pending : p.seq \in Nat
      BY <1>1 DEF Shape, Rows
    <3>4. Quietly
      BY <1>1, <1>4, <2>3, <2>4, <3>2 DEF Quietly
    <3>. QED BY <3>1, <3>3, <3>4, QuietStep
  <2>. QED BY <2>5, <2>6, <2>7 DEF PeerInv
<1>6. CASE AsksRows
  <2>. DEFINE above == {c \in calls : c.seq > desk.cursor}
              rows == Lowest(above, BatchRows)
              m == [what |-> "rows", rows |-> rows]
  <2>1. port' = Append(port, m) /\ m.what = "rows" /\ m.rows = rows
    BY <1>1, <1>6 DEF AsksRows, loadRowsAfter
  <2>2. /\ IsFiniteSet(above) /\ above \subseteq calls /\ (\A r \in above : r.seq \in Nat)
        /\ \A c \in calls : c.seq \in Nat
    BY TableFinite, FS_Subset DEF LogInv, TypeInv
  <2>3. /\ rows \subseteq above
        /\ \A e \in rows, r \in above : r.seq <= e.seq => r \in rows
        /\ above # {} => rows # {}
    <3>. HIDE DEF above
    <3>. QED BY <2>2, PeerAssumption, LowestOf
  <2>. HIDE DEF m, rows
  <2>4. IsSeq(port')
    BY <1>1, <2>1, PostOf
  <2>5. /\ Posted(port') = Posted(port) /\ Window(port') = rows /\ Told(port', "rows")
        /\ Ascending(port) => Ascending(port')
    BY <1>1, <1>3, <2>1, PostAnswer
  <2>6. Shape'
    <3>1. Rows(rows)
      BY <2>2, <2>3, FS_Subset DEF Rows
    <3>. QED BY <1>1, <1>4, <2>4, <2>5, <3>1 DEF Shape
  <2>7. Stage'
    BY <1>1, <1>6, <2>5 DEF Stage, AsksRows, ToldRows, Awaits, Ready, Quiet
  <2>8. ASSUME ~blurred' PROVE StreamInv'
    <3>1. NumInv /\ DeskInv /\ PortInv /\ Flow
      BY <1>1, <2>8 DEF PeerInv, StreamInv
    <3>2. /\ Live' = Live /\ Unstored' = Unstored /\ ToPost' = ToPost /\ NumInv' = NumInv
          /\ cursor' = cursor /\ desk' = desk /\ ship' = ship
          /\ \A n : Reached(n)' = Reached(n)
      BY <1>1, LogSame
    <3>3. DeskInv'
      <4>1. Reached(desk.cursor)'
        BY <3>1, <3>2 DEF DeskInv, Reached, logVars
      <4>. QED BY <3>1, <3>2, <4>1 DEF DeskInv
    <3>4. PortInv'
      BY <2>5, <3>1, <3>2 DEF PortInv
    <3>5. Sending = {} /\ ship.on /\ ship.ready
      BY <1>6 DEF AsksRows, Awaits, Ready, Quiet, Sending
    <3>6. \A e \in rows : /\ Reached(e.seq) /\ e.seq > desk.cursor
                          /\ \A r \in Live : desk.cursor < r.seq /\ r.seq <= e.seq => r \in rows
      <4>1. ASSUME NEW e \in rows, NEW r \in Live, desk.cursor < r.seq, r.seq <= e.seq
            PROVE  r \in rows
        <5>1. e \in calls /\ e.seq \in Nat
          BY <2>2, <2>3
        <5>2. CASE r \in calls
          BY <2>3, <4>1, <5>2
        <5>3. CASE r \in Unstored
          <6>1. r.seq \in Nat /\ e.seq < r.seq
            BY <5>1, <5>3, UnstoredOf DEF Behind
          <6>. QED BY <4>1, <5>1, <6>1
        <5>. QED BY <5>2, <5>3 DEF Live
      <4>2. \A e \in rows : Reached(e.seq) /\ e.seq > desk.cursor
        BY <2>2, <2>3 DEF Reached
      <4>. QED BY <4>1, <4>2
    <3>7. ASSUME rows = {}, NEW r \in Live, r.seq > desk.cursor PROVE r \in OnTheWay
      <4>1. r \in Unstored
        BY <2>3, <3>7 DEF Live
      <4>2. r.seq \in Nat /\ desk.cursor \in Nat
        BY <1>1, <4>1, UnstoredOf DEF Shape
      <4>. QED BY <3>1, <3>5, <3>7, <4>1, <4>2 DEF Flow
    <3>8. Flow'
      <4>1. Gapless(Sending)'
        BY <1>4, <3>5 DEF Gapless
      <4>2. Gapless(Window(port))' /\ \A e \in Window(port') : e.seq > desk.cursor
        BY <2>5, <3>2, <3>6 DEF Gapless, Reached, logVars
      <4>3. Window(port') = {} => Coming'
        BY <1>4, <2>5, <3>2, <3>7 DEF Coming, OnTheWay
      <4>4. ship'.ready /\ ~ship'.backfill => Coming'
        BY <1>4, <2>5, <3>1, <3>2 DEF Flow, Coming, OnTheWay
      <4>5. \A r \in Unstored : r \in OnTheWay' \/ (ship.ready /\ r.seq <= desk.cursor)
        BY <1>4, <2>5, <3>1, <3>2, <3>5 DEF Flow, OnTheWay
      <4>. QED BY <3>2, <4>1, <4>2, <4>3, <4>4, <4>5 DEF Flow
    <3>. QED BY <3>1, <3>2, <3>3, <3>4, <3>8 DEF StreamInv
  <2>. QED BY <2>6, <2>7, <2>8 DEF PeerInv
<1>. QED BY <1>2, <1>5, <1>6

-----------------------------------------------------------------------------
LEMMA One ==
  ASSUME NEW m
  PROVE  /\ Append(<<>>, m) = <<m>> /\ Head(<<m>>) = m /\ Tail(<<m>>) = <<>>
         /\ <<m>> # <<>> /\ <<m>>[1] = m
  OBVIOUS

(* The fields of the shipper after each of its edits.                      *)
Edited(d, on, cur, ready, inflight, pending, backfill) ==
  /\ ShipShape(d) /\ d.on = on /\ d.cursor = cur /\ d.ready = ready /\ d.inflight = inflight
  /\ d.pending = pending /\ d.backfill = backfill

(* A new connection, when nothing waits that was posted to nobody.         *)
LEMMA AttachKept ==
  ASSUME LogInv, PeerInv, attachLogStream
  PROVE  PeerInv'
<1>1. /\ Shape /\ Stage /\ ~ship.on /\ ship' = [Closed EXCEPT !.on = TRUE]
      /\ asked' = [what |-> "max", after |-> 0] /\ blurred' = (blurred \/ Unseen)
      /\ UNCHANGED <<port, up, down, desk>> /\ UNCHANGED logVars
  BY DEF attachLogStream, PeerInv, Blur
<1>2. /\ ShipShape(ship') /\ ship'.on /\ ~ship'.ready /\ ship'.cursor = 0 /\ ~ship'.inflight
      /\ ship'.backfill /\ ship'.pending = {}
  BY <1>1 DEF ShipShape, Closed
<1>3. Off
  BY <1>1 DEF Stage, AsksMax, ToldMax, Greets, Greeted, Idle, AsksRows, ToldRows, Sends, Acks,
              Refuses, New, Ready, Awaits
<1>4. /\ NoAnswer(port) /\ Window(port) = {} /\ ~Told(port, "rows")
      /\ Sending = {} /\ Sending' = {} /\ age' = age
  BY <1>1, <1>3, NothingTold, LogSame DEF Off, Quiet, Sending
<1>5. Shape'
  BY <1>1, <1>2, <1>4, FS_EmptySet DEF Shape, Rows
<1>6. Stage'
  BY <1>1, <1>2, <1>3 DEF Stage, AsksMax, New, Off, Quiet
<1>7. ASSUME ~blurred' PROVE StreamInv'
  <2>1. NumInv /\ DeskInv /\ PortInv
    BY <1>1, <1>7 DEF PeerInv, StreamInv
  <2>2. Unstored = {}
    <3>1. task.op # "flush" /\ \A s \in Session : waiting[s] = <<>>
      BY <1>1, <1>7 DEF Unseen
    <3>. QED BY <3>1 DEF Unstored, Batch, Sound
  <2>3. /\ Live' = Live /\ Unstored' = {} /\ ToPost' = ToPost /\ NumInv' = NumInv
        /\ cursor' = cursor /\ desk' = desk /\ port' = port
    BY <1>1, <2>2, LogSame
  <2>4. DeskInv'
    <3>1. Reached(desk.cursor)'
      BY <1>1, <2>1, <2>3 DEF DeskInv, Reached, logVars
    <3>. QED BY <2>1, <2>3, <3>1 DEF DeskInv
  <2>5. PortInv'
    BY <1>2, <2>1, <2>3 DEF PortInv
  <2>6. Flow'
    BY <1>2, <1>4, <2>3 DEF Flow, Gapless
  <2>. QED BY <2>1, <2>3, <2>4, <2>5, <2>6 DEF StreamInv
<1>. QED BY <1>5, <1>6, <1>7 DEF PeerInv

(* A lost connection: answers to it are nobody's.                          *)
LEMMA LoseKept ==
  ASSUME LogInv, PeerInv, loseConnection
  PROVE  PeerInv'
<1>1. /\ Shape /\ Stage /\ ship' = Closed /\ asked' = NoAsk /\ up' = <<>> /\ down' = <<>>
      /\ port' = [k \in DOMAIN port |->
                    IF port[k].what = "row" THEN port[k] ELSE [what |-> "nobody"]]
      /\ UNCHANGED <<desk, blurred>> /\ UNCHANGED logVars
  BY DEF loseConnection, PeerInv
<1>2. /\ DOMAIN port' = DOMAIN port
      /\ \A k \in DOMAIN port : IF port[k].what = "row" THEN port'[k] = port[k]
                                                        ELSE port'[k].what = "nobody"
  BY <1>1
<1>3. IsSeq(port')
  <2>1. Len(port) \in Nat /\ DOMAIN port = 1 .. Len(port)
    BY <1>1, SeqOf DEF Shape
  <2>. DEFINE q == port'
              n == Len(port)
  <2>2. q = [k \in 1 .. n |-> q[k]]
    BY <1>1, <2>1
  <2>. HIDE DEF q, n
  <2>3. q \in [1 .. n -> SeqRange(q)]
    BY <2>2 DEF SeqRange
  <2>4. n \in Nat
    BY <2>1 DEF n
  <2>5. IsSeq(q)
    BY <2>3, <2>4, SeqDef DEF IsSeq
  <2>. QED BY <2>5 DEF q
<1>4. /\ NoAnswer(port') /\ Window(port') = {} /\ ~Told(port', "rows")
      /\ Posted(port') = Posted(port) /\ (Ascending(port) => Ascending(port'))
  <2>1. NoAnswer(port')
    BY <1>2 DEF NoAnswer, Plain
  <2>2. Posted(port') = Posted(port) /\ (Ascending(port) => Ascending(port'))
    BY <1>2 DEF Posted, Ascending
  <2>. QED BY <2>1, <2>2, NothingTold
<1>5. ShipShape(Closed) /\ ~Closed.on /\ ~Closed.ready /\ Closed.cursor = 0 /\ Closed.pending = {}
  BY DEF ShipShape, Closed
<1>6. Sending' = {} /\ age' = age
  BY <1>1, LogSame DEF Sending
<1>7. Shape'
  <2>1. ShipShape(ship') /\ ship'.cursor \in Nat /\ Rows(ship'.pending)
    BY <1>1, <1>5, FS_EmptySet DEF Rows
  <2>2. (\A r \in Posted(port') : r.seq \in Nat) /\ Rows(Window(port')) /\ Rows(Sending')
    BY <1>1, <1>4, <1>6, FS_EmptySet DEF Shape, Rows
  <2>3. UNCHANGED <<desk, age, blurred>>
    BY <1>1, <1>6
  <2>4. Shape
    BY <1>1
  <2>. QED BY <1>3, <2>1, <2>2, <2>3, <2>4 DEF Shape
<1>8. Stage'
  BY <1>1, <1>4, <1>5 DEF Stage, Off, Quiet
<1>9. ASSUME ~blurred' PROVE StreamInv'
  <2>1. StreamInv /\ desk.cursor \in Nat /\ \A p \in ship.pending : p.seq \in Nat
    BY <1>1, <1>9 DEF PeerInv, Shape, Rows
  <2>2. Quietly
    BY <1>1, <1>4, <1>5, <1>6 DEF Quietly
  <2>. QED BY <2>1, <2>2, QuietStep
<1>. QED BY <1>7, <1>8, <1>9 DEF PeerInv

(* The read of a window fails.                                             *)
LEMMA LoadFailsKept ==
  ASSUME LogInv, PeerInv, loadFails
  PROVE  PeerInv'
<1>1. /\ Shape /\ Stage /\ asked.what = "rows" /\ asked' = NoAsk
      /\ ship' = [ship EXCEPT !.inflight = FALSE] /\ blurred' = TRUE
      /\ UNCHANGED <<port, up, down, desk>> /\ UNCHANGED logVars
  BY DEF loadFails, PeerInv, Blur
<1>2. Edited(ship', ship.on, ship.cursor, ship.ready, FALSE, ship.pending, ship.backfill)
  <2>1. ShipShape(ship) /\ ship' = [ship EXCEPT !.inflight = FALSE]
    BY <1>1 DEF Shape
  <2>. QED BY <2>1 DEF Edited, ShipShape
<1>3. AsksRows
  BY <1>1 DEF Stage, Off, AsksMax, ToldMax, Greets, Greeted, Idle, ToldRows, Sends, Acks,
              Refuses, NoAsk
<1>4. Shape'
  <2>1. Sending' = Sending /\ age' = age
    BY <1>1, LogSame DEF Sending
  <2>. QED BY <1>1, <1>2, <2>1 DEF Shape, Edited
<1>5. Stage'
  BY <1>1, <1>2, <1>3 DEF Stage, AsksRows, Idle, Ready, Awaits, Quiet, Edited
<1>. QED BY <1>1, <1>4, <1>5 DEF PeerInv

-----------------------------------------------------------------------------
LEMMA CursorBehind ==
  ASSUME Shape, Stage, ship.on
  PROVE  ship.cursor <= desk.cursor /\ (ship.ready \/ ship.cursor = 0)
  BY DEF Shape, Stage, Off, AsksMax, ToldMax, Greets, Greeted, Idle, AsksRows, ToldRows,
         Sends, Acks, Refuses, New, Ready, Awaits

(* A row comes to the page: it waits there for its batch, unless the       *)
(* desktop has it.  When too many wait, the table has the others.          *)
LEMMA HearRowKept ==
  ASSUME LogInv, PeerInv, Hear, Head(port).what = "row"
  PROVE  PeerInv'
<1>. DEFINE row == Head(port).row
            all == {p \in ship.pending : p.seq # row.seq} \cup {row}
            next == IF Overlong(all) THEN Newest(all, MaxPending \div 2) ELSE all
            over == Overlong(all)
<1>1. /\ Shape /\ Stage /\ IsSeq(port) /\ port # <<>> /\ port' = Tail(port)
      /\ ship' = IF ~ship.on \/ row.seq <= ship.cursor THEN ship
                 ELSE [ship EXCEPT !.pending = next, !.backfill = @ \/ over, !.due = TRUE]
      /\ blurred' = (blurred \/ (over /\ (Reading \/ ~(all \subseteq ship'.pending \cup calls))))
      /\ UNCHANGED <<up, asked, down, desk>> /\ UNCHANGED logVars
  BY DEF Hear, push, PeerInv, Shape, Blur
<1>2. /\ NoAnswer(port) => NoAnswer(port')
      /\ Told(port, "max") => Told(port', "max")
      /\ Told(port, "rows") => Told(port', "rows")
      /\ Posted(port) = Posted(port') \cup {row} /\ Window(port') = Window(port)
      /\ Ascending(port) => Ascending(port') /\ \A r \in Posted(port') : row.seq < r.seq
      /\ IsSeq(port')
  <2>. DEFINE m == Head(port)
  <2>1. m.what = "row" /\ Plain(m) /\ port' = Tail(port)
    BY <1>1 DEF Plain
  <2>2. ~Plain([what |-> "max"]) /\ ~Plain([what |-> "rows"])
    BY DEF Plain
  <2>3. IsSeq(port')
    BY <1>1, SeqOf
  <2>4. /\ NoAnswer(port) => NoAnswer(port')
        /\ \A w : Plain(m) /\ Told(port, w) => Told(port', w) \/ Plain([what |-> w])
    BY <1>1, HearKinds
  <2>5. /\ Posted(port) = Posted(port') \cup (IF m.what = "row" THEN {m.row} ELSE {})
        /\ Window(port) = Window(port') \cup (IF m.what = "rows" THEN m.rows ELSE {})
        /\ Ascending(port) => /\ Ascending(port')
                              /\ m.what = "row" => \A r \in Posted(port') : m.row.seq < r.seq
    BY <1>1, HearKinds
  <2>. QED BY <2>1, <2>2, <2>3, <2>4, <2>5
<1>3. /\ row.seq \in Nat /\ row \in Posted(port) /\ all = {p \in ship.pending : p.seq # row.seq} \cup {row}
      /\ next \subseteq all /\ Rows(all)
  <2>1. row \in Posted(port) /\ row.seq \in Nat
    BY <1>1, <1>2 DEF Shape
  <2>2. IsFiniteSet({p \in ship.pending : p.seq # row.seq})
    BY <1>1, FS_Subset DEF Shape, Rows
  <2>3. IsFiniteSet(all)
    BY <2>2, FS_AddElement
  <2>. QED BY <1>1, <2>1, <2>3 DEF Newest, Shape, Rows
<1>4. over \in BOOLEAN /\ (~over => next = all)
  BY DEF Overlong
<1>. HIDE DEF row, all, next, over
<1>5. \/ (~ship.on \/ row.seq <= ship.cursor) /\ ship' = ship
      \/ /\ ship.on /\ row.seq > ship.cursor
         /\ Edited(ship', ship.on, ship.cursor, ship.ready, ship.inflight, next,
                   ship.backfill \/ over)
  <2>1. ShipShape(ship) /\ ship.cursor \in Nat /\ row.seq \in Nat
    BY <1>1, <1>3 DEF Shape
  <2>2. CASE ~ship.on \/ row.seq <= ship.cursor
    BY <1>1, <2>2
  <2>3. CASE ~(~ship.on \/ row.seq <= ship.cursor)
    <3>1. ship' = [ship EXCEPT !.pending = next, !.backfill = @ \/ over, !.due = TRUE]
      BY <1>1, <2>3
    <3>2. Edited(ship', ship.on, ship.cursor, ship.ready, ship.inflight, next, ship.backfill \/ over)
      BY <2>1, <3>1 DEF Edited, ShipShape
    <3>. QED BY <2>1, <2>3, <3>2
  <2>. QED BY <2>2, <2>3
<1>6. Sending' = Sending /\ age' = age
  BY <1>1, LogSame DEF Sending
<1>7. Shape'
  <2>1. Rows(next)
    BY <1>3, FS_Subset DEF Rows
  <2>2. ShipShape(ship') /\ ship'.cursor \in Nat /\ Rows(ship'.pending)
    BY <1>1, <1>5, <2>1 DEF Shape, Edited
  <2>3. (\A r \in Posted(port') : r.seq \in Nat) /\ blurred' \in BOOLEAN
    BY <1>1, <1>2, <1>4 DEF Shape
  <2>. QED BY <1>1, <1>2, <1>6, <2>2, <2>3 DEF Shape
<1>8. Stage'
  <2>1. /\ ship'.on = ship.on /\ ship'.ready = ship.ready /\ ship'.cursor = ship.cursor
        /\ ship'.inflight = ship.inflight /\ (ship.backfill => ship'.backfill)
        /\ ~ship.on => ship' = ship
    BY <1>5 DEF Edited
  <2>. QED BY <1>1, <1>2, <2>1, StageKept
<1>9. ASSUME ~blurred' PROVE StreamInv'
  <2>1. NumInv /\ DeskInv /\ PortInv /\ Flow /\ desk.cursor \in Nat
    BY <1>1, <1>9 DEF PeerInv, StreamInv, Shape
  <2>2. all = ship.pending \cup {row} /\ \A p \in ship.pending : p.seq < row.seq
    BY <1>1, <1>3, <2>1 DEF PortInv, Shape, Rows
  <2>3. /\ Live' = Live /\ Unstored' = Unstored /\ ToPost' = ToPost /\ NumInv' = NumInv
        /\ cursor' = cursor /\ desk' = desk
        /\ \A n : Reached(n)' = Reached(n)
    BY <1>1, LogSame
  <2>4. /\ ship'.pending \subseteq ship.pending \cup {row} /\ ship'.on = ship.on
        /\ ship'.ready = ship.ready /\ (ship.backfill => ship'.backfill)
    BY <1>3, <1>5, <2>2 DEF Edited
  <2>5. DeskInv'
    <3>1. Reached(desk.cursor)'
      BY <1>1, <2>1, <2>3 DEF DeskInv, Reached, logVars
    <3>. QED BY <2>1, <2>3, <3>1 DEF DeskInv
  <2>6. PortInv'
    <3>1. ship'.pending \cup Posted(port') \subseteq ship.pending \cup Posted(port)
      BY <1>2, <2>4
    <3>2. \A p \in ship'.pending, q \in Posted(port') : p.seq < q.seq
      BY <1>2, <2>1, <2>4 DEF PortInv
    <3>. QED BY <1>2, <2>1, <2>3, <3>1, <3>2 DEF PortInv
  <2>7. ASSUME ship.on, ~(ship'.backfill /\ over), NEW r \in OnTheWay
        PROVE  r \in OnTheWay' \/ (r = row /\ row.seq <= ship.cursor)
    BY <1>2, <1>3, <1>4, <1>5, <1>6, <2>2, <2>7 DEF OnTheWay, Edited
  <2>8. ASSUME ship.on, NEW r \in Unstored, r \in OnTheWay
        PROVE  r \in OnTheWay' \/ (r = row /\ row.seq <= ship.cursor)
    <3>1. CASE ship'.backfill /\ over
      <4>1. r \notin calls
        BY UnstoredOf DEF Behind
      <4>2. all \subseteq ship'.pending \cup calls
        BY <1>1, <1>9, <3>1
      <4>. QED BY <1>2, <1>6, <2>2, <2>8, <4>1, <4>2 DEF OnTheWay
    <3>2. CASE ~(ship'.backfill /\ over)
      BY <2>7, <2>8, <3>2
    <3>. QED BY <3>1, <3>2
  <2>9. ASSUME Coming, ship.on, ~(ship'.backfill /\ over) PROVE Coming'
    <3>1. ASSUME NEW r \in Live, r.seq > desk.cursor PROVE r \in OnTheWay' \cup ToPost
      <4>1. r \in OnTheWay \/ r \in ToPost
        BY <2>9, <3>1 DEF Coming
      <4>2. ~(r.seq <= ship.cursor)
        <5>1. r.seq \in Nat /\ ship.cursor \in Nat /\ ship.cursor <= desk.cursor
          BY <1>1, <2>9, LiveTyped, CursorBehind DEF Shape
        <5>. QED BY <2>1, <3>1, <5>1
      <4>. QED BY <2>7, <2>9, <4>1, <4>2
    <3>. QED BY <2>3, <3>1 DEF Coming
  <2>10. Told(port', "rows") => ship.on /\ Told(port, "rows") /\ ~(ship'.backfill /\ over)
    <3>1. Told(port', "rows") => ~NoAnswer(port)
      BY <1>2, NothingTold
    <3>2. ASSUME Told(port', "rows") PROVE ToldRows \/ ToldMax
      BY <1>1, <3>1, <3>2 DEF Stage, Off, AsksMax, Greets, Greeted, Idle, AsksRows,
         Sends, Acks, Refuses
    <3>3. ToldMax => ~Told(port', "rows")
      BY <1>2 DEF ToldMax, Told, Plain
    <3>4. ToldRows => ship.on /\ Told(port, "rows") /\ Reading
      BY DEF ToldRows, Awaits, Ready, Told, Reading
    <3>. QED BY <1>1, <1>9, <3>2, <3>3, <3>4
  <2>11. ASSUME ship.on, NEW r \in Unstored
         PROVE  r \in OnTheWay' \/ (ship.ready /\ r.seq <= desk.cursor)
    <3>1. /\ ship.cursor <= desk.cursor /\ (ship.ready \/ ship.cursor = 0) /\ ship.cursor \in Nat
          /\ r.seq \in Nat \ {0}
      BY <1>1, <2>11, CursorBehind, UnstoredOf DEF Shape
    <3>2. r \in OnTheWay \/ (ship.ready /\ r.seq <= desk.cursor)
      BY <2>1, <2>11 DEF Flow
    <3>. QED BY <2>1, <2>8, <2>11, <3>1, <3>2
  <2>12. Flow'
    <3>1. Gapless(Sending)'
      BY <1>6, <2>1, <2>3 DEF Flow, Gapless
    <3>2. Gapless(Window(port))' /\ \A e \in Window(port') : e.seq > desk.cursor
      BY <1>2, <2>1, <2>3 DEF Flow, Gapless
    <3>3. Told(port', "rows") /\ Window(port') = {} => Coming'
      BY <1>2, <2>1, <2>9, <2>10 DEF Flow
    <3>4. ship'.ready /\ ~ship'.backfill => Coming'
      <4>1. ship.ready => ship.on
        BY <1>1 DEF Stage, Off, AsksMax, ToldMax, Greets, Greeted, Idle, AsksRows,
           ToldRows, Sends, Acks, Refuses, New, Ready, Awaits, Closed
      <4>. QED BY <2>1, <2>4, <2>9, <4>1 DEF Flow
    <3>. QED BY <2>3, <2>4, <2>11, <3>1, <3>2, <3>3, <3>4 DEF Flow
  <2>. QED BY <2>1, <2>3, <2>5, <2>6, <2>12 DEF StreamInv
<1>. QED BY <1>7, <1>8, <1>9 DEF PeerInv

-----------------------------------------------------------------------------
(* Answers are heard when they are waited for.                             *)
LEMMA ToldOnly ==
  ASSUME PeerInv, port # <<>>, ~Plain(Head(port))
  PROVE  /\ \/ Head(port).what = "max" /\ ToldMax
            \/ Head(port).what = "rows" /\ ToldRows
         /\ IsSeq(Tail(port)) /\ NoAnswer(Tail(port))
         /\ Window(Tail(port)) = {} /\ ~Told(Tail(port), "rows")
         /\ Posted(Tail(port)) = Posted(port)
         /\ Head(port).what = "rows" => Window(port) = Head(port).rows
         /\ Ascending(port) => Ascending(Tail(port))
<1>. DEFINE m == Head(port)
            q == Tail(port)
<1>1. IsSeq(port) /\ Stage
  BY DEF PeerInv, Shape
<1>2. /\ NoAnswer(port) => Plain(m) /\ NoAnswer(q)
      /\ \A w : ~Plain(m) /\ Told(port, w) => m.what = w /\ NoAnswer(q)
      /\ Posted(port) = Posted(q) \cup (IF m.what = "row" THEN {m.row} ELSE {})
      /\ Window(port) = Window(q) \cup (IF m.what = "rows" THEN m.rows ELSE {})
      /\ Ascending(port) => Ascending(q)
  BY <1>1, HearKinds
<1>3. IsSeq(q) /\ ~Plain(m)
  BY <1>1, SeqOf
<1>. HIDE DEF m, q
<1>4. ToldMax \/ ToldRows
  BY <1>1, <1>2, <1>3 DEF Stage, Off, AsksMax, Greets, Greeted, Idle, AsksRows, Sends, Acks,
     Refuses
<1>5. /\ \/ m.what = "max" /\ ToldMax
         \/ m.what = "rows" /\ ToldRows
      /\ NoAnswer(q)
  BY <1>2, <1>3, <1>4 DEF ToldMax, ToldRows
<1>6. Window(q) = {} /\ ~Told(q, "rows")
  BY <1>5, NothingTold
<1>7. Posted(q) = Posted(port)
  BY <1>2, <1>3 DEF Plain
<1>8. m.what = "rows" => Window(port) = m.rows
  BY <1>2, <1>6
<1>. QED BY <1>2, <1>3, <1>5, <1>6, <1>7, <1>8 DEF m, q

(* The highest number of the table: the handshake.                         *)
LEMMA HearMaxKept ==
  ASSUME LogInv, PeerInv, Hear, Head(port).what = "max"
  PROVE  PeerInv'
<1>. DEFINE m == [op |-> "log-handshake", max |-> Head(port).max]
<1>1. /\ Shape /\ Stage /\ port # <<>> /\ port' = Tail(port) /\ up' = Append(up, m)
      /\ UNCHANGED <<ship, blurred, asked, down, desk>> /\ UNCHANGED logVars
  BY DEF Hear, handshake, PeerInv
<1>2. m.op = "log-handshake"
  OBVIOUS
<1>. HIDE DEF m
<1>3. ~Plain(Head(port)) /\ Head(port).what # "rows"
  BY DEF Plain
<1>4. /\ ToldMax /\ IsSeq(port') /\ NoAnswer(port') /\ Window(port') = {}
      /\ ~Told(port', "rows") /\ Posted(port') = Posted(port)
      /\ Ascending(port) => Ascending(port')
  BY <1>1, <1>3, ToldOnly
<1>5. up = <<>> /\ up' = <<m>> /\ up'[1] = m /\ age' = age /\ Sending = {} /\ Sending' = {}
  BY <1>1, <1>2, <1>4, One, LogSame DEF ToldMax, Quiet, Sending
<1>6. Shape'
  <2>1. (\A r \in Posted(port') : r.seq \in Nat) /\ Rows(Window(port')) /\ Rows(Sending')
    BY <1>1, <1>4, <1>5, FS_EmptySet DEF Shape, Rows
  <2>2. UNCHANGED <<ship, desk, age, blurred>> /\ Shape
    BY <1>1, <1>5
  <2>. QED BY <1>4, <2>1, <2>2 DEF Shape
<1>7. Stage'
  <2>1. m \in SeqRange(up')
    BY <1>5 DEF SeqRange
  <2>2. Greets'
    BY <1>1, <1>2, <1>4, <1>5, <2>1 DEF ToldMax, Greets, New, Quiet
  <2>. QED BY <2>2 DEF Stage
<1>8. ASSUME ~blurred' PROVE StreamInv'
  <2>1. StreamInv /\ desk.cursor \in Nat /\ \A p \in ship.pending : p.seq \in Nat
    BY <1>1, <1>8 DEF PeerInv, Shape, Rows
  <2>2. ship.on /\ ~ship.ready
    BY <1>4 DEF ToldMax, New
  <2>3. Quietly
    BY <1>1, <1>4, <1>5, <2>2 DEF Quietly
  <2>. QED BY <2>1, <2>3, QuietStep
<1>. QED BY <1>6, <1>7, <1>8 DEF PeerInv

(* An answer to a shipper that is gone.                                    *)
LEMMA HearNobodyKept ==
  ASSUME LogInv, PeerInv, Hear, Head(port).what = "nobody"
  PROVE  PeerInv'
<1>1. /\ Shape /\ Stage /\ IsSeq(port) /\ port # <<>> /\ port' = Tail(port)
      /\ UNCHANGED <<ship, up, blurred, asked, down, desk>> /\ UNCHANGED logVars
  BY DEF Hear, PeerInv, Shape
<1>2. /\ NoAnswer(port) => NoAnswer(port')
      /\ Told(port, "max") => Told(port', "max")
      /\ Told(port, "rows") => Told(port', "rows")
      /\ Posted(port') = Posted(port) /\ Window(port') = Window(port)
      /\ Ascending(port) => Ascending(port')
      /\ IsSeq(port')
  <2>. DEFINE m == Head(port)
  <2>1. m.what = "nobody" /\ Plain(m) /\ port' = Tail(port)
    BY <1>1 DEF Plain
  <2>2. ~Plain([what |-> "max"]) /\ ~Plain([what |-> "rows"])
    BY DEF Plain
  <2>3. IsSeq(port')
    BY <1>1, SeqOf
  <2>4. /\ NoAnswer(port) => NoAnswer(port')
        /\ \A w : Plain(m) /\ Told(port, w) => Told(port', w) \/ Plain([what |-> w])
    BY <1>1, HearKinds
  <2>5. /\ Posted(port) = Posted(port') \cup (IF m.what = "row" THEN {m.row} ELSE {})
        /\ Window(port) = Window(port') \cup (IF m.what = "rows" THEN m.rows ELSE {})
        /\ Ascending(port) => Ascending(port')
    BY <1>1, HearKinds
  <2>. QED BY <2>1, <2>2, <2>3, <2>4, <2>5
<1>3. Sending' = Sending /\ age' = age
  BY <1>1, LogSame DEF Sending
<1>4. Shape'
  BY <1>1, <1>2, <1>3 DEF Shape
<1>5. Stage'
  BY <1>1, <1>2, StageKept
<1>6. ASSUME ~blurred' PROVE StreamInv'
  <2>1. StreamInv /\ desk.cursor \in Nat /\ \A p \in ship.pending : p.seq \in Nat
    BY <1>1, <1>6 DEF PeerInv, Shape, Rows
  <2>2. Told(port', "rows") => Told(port, "rows") /\ ship.on
    <3>1. ASSUME Told(port', "rows") PROVE ToldRows
      <4>1. ~NoAnswer(port')
        BY <3>1, NothingTold
      <4>2. ~ToldMax
        BY <1>2, <3>1 DEF ToldMax, Told, Plain
      <4>. QED BY <1>1, <1>2, <4>1, <4>2 DEF Stage, Off, AsksMax, Greets, Greeted, Idle,
         AsksRows, Sends, Acks, Refuses
    <3>. QED BY <3>1 DEF ToldRows, Awaits, Ready
  <2>3. ship.ready => ship.on
    BY <1>1 DEF Stage, Off, AsksMax, ToldMax, Greets, Greeted, Idle, AsksRows,
       ToldRows, Sends, Acks, Refuses, New, Ready, Awaits, Closed
  <2>4. Quietly
    BY <1>1, <1>2, <1>3, <2>2, <2>3 DEF Quietly
  <2>. QED BY <2>1, <2>4, QuietStep
<1>. QED BY <1>4, <1>5, <1>6 DEF PeerInv

-----------------------------------------------------------------------------
(* The lowest rows of a set without a hole have none.                      *)
LEMMA LowestGapless ==
  ASSUME NEW rows, Rows(rows), Gapless(rows), NEW n \in Nat
  PROVE  Gapless(Lowest(rows, n)) /\ Rows(Lowest(rows, n)) /\ Lowest(rows, n) \subseteq rows
<1>1. /\ Lowest(rows, n) \subseteq rows
      /\ \A e \in Lowest(rows, n), r \in rows : r.seq <= e.seq => r \in Lowest(rows, n)
  BY LowestOf DEF Rows
<1>. DEFINE L == Lowest(rows, n)
<1>. HIDE DEF L
<1>2. Gapless(L)
  BY <1>1 DEF Gapless, L
<1>3. Rows(L)
  BY <1>1, FS_Subset DEF Rows, L
<1>. QED BY <1>1, <1>2, <1>3 DEF L

(* A step that sends a batch, or finds that there is nothing in the table  *)
(* that is not on its way.                                                 *)
Sent ==
  /\ UNCHANGED logVars /\ desk' = desk
  /\ Posted(port') = Posted(port) /\ (Ascending(port) => Ascending(port'))
  /\ Window(port') = {} /\ ~Told(port', "rows")
  /\ Sending = {} /\ Gapless(Sending')
  /\ ship'.pending \subseteq ship.pending /\ ship.pending \subseteq ship'.pending \cup Sending'
  /\ ship.on /\ ship'.on /\ ship'.ready = ship.ready
  /\ ship'.ready /\ ~ship'.backfill => Coming

LEMMA SentStep ==
  ASSUME StreamInv, Sent
  PROVE  StreamInv'
<1>1. /\ Live' = Live /\ Unstored' = Unstored /\ ToPost' = ToPost /\ NumInv' = NumInv
      /\ cursor' = cursor /\ desk' = desk
      /\ \A n : Reached(n)' = Reached(n)
  BY LogSame DEF Sent
<1>2. NumInv /\ DeskInv /\ PortInv /\ Flow
  BY DEF StreamInv
<1>3. DeskInv'
  <2>1. Reached(desk.cursor)'
    BY <1>1, <1>2 DEF DeskInv, Reached, logVars, Sent
  <2>. QED BY <1>1, <1>2, <2>1 DEF DeskInv
<1>4. PortInv'
  BY <1>1, <1>2 DEF PortInv, Sent
<1>5. OnTheWay \subseteq OnTheWay'
  BY DEF OnTheWay, Sent
<1>6. Gapless(Sending)' /\ Gapless(Window(port))' /\ \A e \in Window(port') : e.seq > desk.cursor
  BY <1>1 DEF Gapless, Sent, Reached, logVars
<1>7. Coming => Coming'
  BY <1>1, <1>5 DEF Coming
<1>8. \A r \in Unstored' : r \in OnTheWay' \/ (ship'.ready /\ r.seq <= desk'.cursor)
  BY <1>1, <1>2, <1>5 DEF Flow, Sent
<1>9. Flow'
  BY <1>1, <1>6, <1>7, <1>8 DEF Flow, Sent
<1>. QED BY <1>1, <1>2, <1>3, <1>4, <1>9 DEF StreamInv

(* The window of the table: a batch of it, or the rows that come.          *)
LEMMA HearRowsKept ==
  ASSUME LogInv, PeerInv, Hear, Head(port).what = "rows"
  PROVE  PeerInv'
<1>. DEFINE rows == {r \in Head(port).rows : r.seq > ship.cursor}
<1>1. /\ Shape /\ Stage /\ port # <<>> /\ port' = Tail(port)
      /\ IF rows = {}
         THEN ship' = [ship EXCEPT !.inflight = FALSE, !.backfill = FALSE, !.due = TRUE] /\ up' = up
         ELSE (\E batch \in Batches(rows) : sendBatch(batch)) /\ ship' = ship
      /\ UNCHANGED <<blurred, asked, down, desk>> /\ UNCHANGED logVars
  BY DEF Hear, backfilled, PeerInv
<1>2. ~Plain(Head(port)) /\ Head(port).what # "max"
  BY DEF Plain
<1>3. /\ ToldRows /\ IsSeq(port') /\ NoAnswer(port') /\ Window(port') = {}
      /\ ~Told(port', "rows") /\ Posted(port') = Posted(port)
      /\ Window(port) = Head(port).rows
      /\ Ascending(port) => Ascending(port')
  BY <1>1, <1>2, ToldOnly
<1>4. rows = {r \in Window(port) : r.seq > desk.cursor}
  BY <1>3 DEF ToldRows, Awaits
<1>. HIDE DEF rows
<1>5. /\ up = <<>> /\ down = <<>> /\ Sending = {} /\ age' = age
      /\ ship.on /\ ship.ready /\ ship.inflight /\ ship.cursor = desk.cursor /\ asked = NoAsk
  BY <1>1, <1>3, LogSame DEF ToldRows, Awaits, Ready, Quiet, Sending
<1>6. Rows(rows)
  BY <1>1, <1>4, FS_Subset DEF Shape, Rows
<1>7. ~blurred => /\ StreamInv /\ rows = Window(port) /\ Gapless(rows)
                  /\ rows = {} => Coming
                  /\ ship.ready /\ ~ship.backfill => Coming
  BY <1>3, <1>4 DEF PeerInv, StreamInv, Flow, ToldRows
<1>8. CASE rows = {}
  <2>1. Edited(ship', ship.on, ship.cursor, ship.ready, FALSE, ship.pending, FALSE) /\ up' = <<>>
    <3>1. /\ ShipShape(ship) /\ up' = up
          /\ ship' = [ship EXCEPT !.inflight = FALSE, !.backfill = FALSE, !.due = TRUE]
      BY <1>1, <1>8 DEF Shape
    <3>. QED BY <1>5, <3>1 DEF Edited, ShipShape
  <2>2. Sending' = {}
    BY <2>1 DEF Sending
  <2>3. Shape'
    <3>1. ShipShape(ship') /\ ship'.cursor \in Nat /\ Rows(ship'.pending)
      BY <1>1, <2>1 DEF Edited, Shape
    <3>2. (\A r \in Posted(port') : r.seq \in Nat) /\ Rows(Window(port')) /\ Rows(Sending')
      BY <1>1, <1>3, <2>2, FS_EmptySet DEF Shape, Rows
    <3>3. UNCHANGED <<desk, age, blurred>> /\ Shape
      BY <1>1, <1>5
    <3>. QED BY <1>3, <3>1, <3>2, <3>3 DEF Shape
  <2>4. Stage'
    <3>1. Idle'
      BY <1>1, <1>3, <1>5, <2>1 DEF Idle, Ready, Quiet, Edited
    <3>. QED BY <3>1 DEF Stage
  <2>5. ASSUME ~blurred' PROVE StreamInv'
    <3>1. StreamInv /\ Coming
      BY <1>1, <1>7, <1>8, <2>5
    <3>2. Gapless(Sending')
      BY <2>2 DEF Gapless
    <3>3. Sent
      BY <1>1, <1>3, <1>5, <2>1, <3>1, <3>2 DEF Sent, Edited
    <3>. QED BY <3>1, <3>3, SentStep
  <2>. QED BY <2>3, <2>4, <2>5 DEF PeerInv
<1>9. CASE rows # {}
  <2>1. PICK n \in 1 .. BatchRows : sendBatch(Lowest(rows, n))
    BY <1>1, <1>9 DEF Batches
  <2>. DEFINE batch == Lowest(rows, n)
              m == [op |-> "log-batch", events |-> batch]
  <2>2. /\ Rows(batch) /\ (Gapless(rows) => Gapless(batch))
    <3>1. n \in Nat
      BY PeerAssumption
    <3>2. Rows(batch)
      <4>1. batch \subseteq rows
        BY DEF Lowest
      <4>. QED BY <1>6, <4>1, FS_Subset DEF Rows
    <3>3. Gapless(rows) => Gapless(batch)
      BY <1>6, <3>1, LowestGapless
    <3>. QED BY <3>2, <3>3
  <2>3. ship' = ship /\ up' = Append(up, m) /\ m.op = "log-batch" /\ m.events = batch
    BY <1>1, <1>9, <2>1 DEF sendBatch
  <2>. HIDE DEF batch, m
  <2>4. up' = <<m>> /\ up'[1] = m /\ up' # <<>>
    BY <1>5, <2>3, One
  <2>5. Sending' = batch
    BY <2>3, <2>4 DEF Sending
  <2>6. Shape'
    <3>1. (\A r \in Posted(port') : r.seq \in Nat) /\ Rows(Window(port')) /\ Rows(Sending')
      BY <1>1, <1>3, <2>2, <2>5, FS_EmptySet DEF Shape, Rows
    <3>2. UNCHANGED <<ship, desk, age, blurred>> /\ Shape
      BY <1>1, <1>5, <2>3
    <3>. QED BY <1>3, <3>1, <3>2 DEF Shape
  <2>7. Stage'
    <3>1. m \in SeqRange(up')
      BY <2>4 DEF SeqRange
    <3>2. Sends'
      BY <1>1, <1>3, <1>5, <2>3, <2>4, <3>1 DEF Sends, Awaits, Ready
    <3>. QED BY <3>2 DEF Stage
  <2>8. ASSUME ~blurred' PROVE StreamInv'
    <3>1. StreamInv /\ Gapless(Sending') /\ (ship.ready /\ ~ship.backfill => Coming)
      BY <1>1, <1>7, <2>2, <2>5, <2>8
    <3>2. Sent
      BY <1>1, <1>3, <1>5, <2>3, <3>1 DEF Sent
    <3>. QED BY <3>1, <3>2, SentStep
  <2>. QED BY <2>6, <2>7, <2>8 DEF PeerInv
<1>. QED BY <1>8, <1>9

LEMMA HearKept ==
  ASSUME LogInv, PeerInv, Hear
  PROVE  PeerInv'
<1>1. Plain(Head(port)) \/ Head(port).what \in {"max", "rows"}
  BY ToldOnly DEF Hear
<1>. QED BY <1>1, HearRowKept, HearMaxKept, HearRowsKept, HearNobodyKept DEF Plain

-----------------------------------------------------------------------------
(* The shipper goes on: one request or one batch at a time.                *)
LEMMA PumpKept ==
  ASSUME LogInv, PeerInv, pump
  PROVE  PeerInv'
<1>1. /\ Shape /\ Stage /\ UNCHANGED <<port, down, desk, blurred>> /\ UNCHANGED logVars
  BY DEF pump, PeerInv
<1>2. ShipShape(ship) /\ age' = age
  BY <1>1, LogSame DEF Shape
<1>3. ASSUME ~blurred
      PROVE  StreamInv /\ desk.cursor \in Nat /\ \A p \in ship.pending : p.seq \in Nat
  BY <1>1, <1>3 DEF PeerInv, Shape, Rows
<1>4. CASE Busy
  <2>1. /\ ship' = [ship EXCEPT !.due = FALSE] /\ UNCHANGED <<asked, up>>
    BY <1>4 DEF pump
  <2>2. /\ Edited(ship', ship.on, ship.cursor, ship.ready, ship.inflight, ship.pending, ship.backfill)
        /\ ship.due
    BY <1>2, <2>1 DEF Edited, ShipShape, pump
  <2>3. Sending' = Sending
    BY <2>1 DEF Sending
  <2>4. Shape'
    BY <1>1, <1>2, <2>2, <2>3 DEF Shape, Edited
  <2>5. ship.on
    BY <1>1, <2>2 DEF Stage, Off, AsksMax, ToldMax, Greets, Greeted, Idle, AsksRows,
       ToldRows, Sends, Acks, Refuses, New, Ready, Awaits, Closed
  <2>6. Stage'
    BY <1>1, <2>1, <2>2, <2>5, StageKept DEF Edited
  <2>7. ASSUME ~blurred' PROVE StreamInv'
    <3>1. Quietly
      BY <1>1, <2>2, <2>3, <2>5 DEF Quietly, Edited
    <3>. QED BY <1>1, <1>3, <2>7, <3>1, QuietStep
  <2>. QED BY <2>4, <2>6, <2>7 DEF PeerInv
<1>5. ASSUME ~Busy
      PROVE  /\ Idle /\ NoAnswer(port) /\ Window(port) = {} /\ ~Told(port, "rows")
             /\ Sending = {} /\ up = <<>> /\ down = <<>> /\ asked = NoAsk
             /\ ship.on /\ ship.ready /\ ~ship.inflight /\ ship.cursor = desk.cursor
  <2>1. Idle
    BY <1>1, <1>5 DEF Busy, Stage, Off, AsksMax, ToldMax, Greets, Greeted, AsksRows, ToldRows,
       Sends, Acks, Refuses, New, Ready, Awaits, Closed
  <2>. QED BY <2>1, NothingTold DEF Idle, Ready, Quiet, Sending
<1>6. CASE ~Busy /\ ship.backfill
  <2>1. /\ ship' = [ship EXCEPT !.due = FALSE, !.inflight = TRUE] /\ up' = up
        /\ asked' = [what |-> "rows", after |-> ship.cursor]
    BY <1>6 DEF pump
  <2>2. Edited(ship', ship.on, ship.cursor, ship.ready, TRUE, ship.pending, ship.backfill)
    BY <1>2, <2>1 DEF Edited, ShipShape
  <2>3. Sending' = Sending
    BY <2>1 DEF Sending
  <2>4. Shape'
    BY <1>1, <1>2, <2>2, <2>3 DEF Shape, Edited
  <2>5. Stage'
    <3>1. AsksRows'
      BY <1>1, <1>5, <1>6, <2>1, <2>2 DEF AsksRows, Awaits, Ready, Quiet, Edited
    <3>. QED BY <3>1 DEF Stage
  <2>6. ASSUME ~blurred' PROVE StreamInv'
    <3>1. Quietly
      BY <1>1, <1>5, <1>6, <2>2, <2>3 DEF Quietly, Edited
    <3>. QED BY <1>1, <1>3, <2>6, <3>1, QuietStep
  <2>. QED BY <2>4, <2>5, <2>6 DEF PeerInv
<1>. DEFINE rows == {r \in ship.pending : r.seq > ship.cursor}
<1>7. CASE ~Busy /\ ~ship.backfill /\ rows = {}
  <2>1. ship' = [ship EXCEPT !.due = FALSE, !.pending = {}] /\ UNCHANGED <<asked, up>>
    BY <1>7 DEF pump
  <2>2. Edited(ship', ship.on, ship.cursor, ship.ready, ship.inflight, {}, ship.backfill)
    BY <1>2, <2>1 DEF Edited, ShipShape
  <2>3. Sending' = Sending
    BY <2>1 DEF Sending
  <2>4. Shape'
    <3>1. ShipShape(ship') /\ ship'.cursor \in Nat /\ Rows(ship'.pending)
      BY <1>1, <2>2, FS_EmptySet DEF Edited, Shape, Rows
    <3>. QED BY <1>1, <1>2, <2>3, <3>1 DEF Shape
  <2>5. Stage'
    BY <1>1, <1>5, <1>7, <2>1, <2>2, StageKept DEF Edited
  <2>6. ASSUME ~blurred' PROVE StreamInv'
    <3>1. \A p \in ship.pending : p.seq <= desk.cursor
      BY <1>1, <1>3, <1>5, <1>7, <2>6
    <3>2. Quietly
      BY <1>1, <1>5, <1>7, <2>2, <2>3, <3>1 DEF Quietly, Edited
    <3>. QED BY <1>1, <1>3, <2>6, <3>2, QuietStep
  <2>. QED BY <2>4, <2>5, <2>6 DEF PeerInv
<1>8. CASE ~Busy /\ ~ship.backfill /\ rows # {}
  <2>1. PICK n \in 1 .. BatchRows :
          /\ sendBatch(Lowest(rows, n)) /\ asked' = asked
          /\ ship' = [ship EXCEPT !.due = FALSE, !.inflight = TRUE, !.pending = @ \ Lowest(rows, n)]
    BY <1>8 DEF pump, Batches
  <2>. DEFINE batch == Lowest(rows, n)
              m == [op |-> "log-batch", events |-> batch]
  <2>2. /\ Rows(rows) /\ Rows(batch) /\ batch \subseteq rows
        /\ Gapless(rows) => Gapless(batch)
    <3>1. n \in Nat
      BY PeerAssumption
    <3>2. Rows(rows)
      BY <1>1, FS_Subset DEF Shape, Rows
    <3>. HIDE DEF rows
    <3>3. batch \subseteq rows
      BY DEF Lowest
    <3>4. Rows(batch)
      BY <3>2, <3>3, FS_Subset DEF Rows
    <3>5. Gapless(rows) => Gapless(batch)
      BY <3>1, <3>2, LowestGapless
    <3>. QED BY <3>2, <3>3, <3>4, <3>5
  <2>3. up' = Append(up, m) /\ m.op = "log-batch" /\ m.events = batch
    BY <2>1 DEF sendBatch
  <2>. HIDE DEF batch, m
  <2>4. up' = <<m>> /\ up'[1] = m /\ up' # <<>>
    BY <1>5, <1>8, <2>3, One
  <2>5. Sending' = batch
    BY <2>3, <2>4 DEF Sending
  <2>6. Edited(ship', ship.on, ship.cursor, ship.ready, TRUE, ship.pending \ batch, ship.backfill)
    <3>1. ship' = [ship EXCEPT !.due = FALSE, !.inflight = TRUE, !.pending = @ \ batch]
      BY <2>1 DEF batch
    <3>. QED BY <1>2, <3>1 DEF Edited, ShipShape
  <2>7. Shape'
    <3>1. ShipShape(ship') /\ ship'.cursor \in Nat /\ Rows(ship'.pending)
      BY <1>1, <2>6, FS_Subset DEF Edited, Shape, Rows
    <3>2. UNCHANGED <<port, desk, age, blurred>> /\ Rows(Sending') /\ Shape
      BY <1>1, <1>2, <2>2, <2>5
    <3>. QED BY <3>1, <3>2 DEF Shape
  <2>8. Stage'
    <3>1. m \in SeqRange(up')
      BY <2>4 DEF SeqRange
    <3>2. Sends'
      BY <1>1, <1>5, <1>8, <2>1, <2>3, <2>4, <2>6, <3>1 DEF Sends, Awaits, Ready, Edited
    <3>. QED BY <3>2 DEF Stage
  <2>9. ASSUME ~blurred' PROVE StreamInv'
    <3>1. /\ StreamInv /\ PortInv /\ Coming /\ desk.cursor \in Nat /\ cursor \in Nat
          /\ Sending = {} /\ ship.cursor = desk.cursor
      BY <1>1, <1>3, <1>5, <1>8, <2>9 DEF StreamInv, Flow, LogInv, TypeInv
    <3>2. ASSUME NEW e \in rows PROVE Reached(e.seq)
      BY <3>1 DEF PortInv, Reached
    <3>3. ASSUME NEW e \in rows, NEW r \in Live, desk.cursor < r.seq, r.seq <= e.seq
          PROVE  r \in rows
      <4>1. e \in ship.pending /\ e.seq \in Nat /\ r.seq \in Nat
        BY <2>2, LiveTyped DEF Rows
      <4>2. r \notin Posted(port) /\ r \notin ToPost
        BY <3>1, <3>3, <4>1 DEF PortInv
      <4>3. r \in ship.pending
        BY <3>1, <3>3, <4>1, <4>2 DEF Coming, OnTheWay
      <4>. QED BY <3>1, <3>3, <4>1, <4>3
    <3>4. Gapless(Sending')
      BY <2>2, <2>5, <3>2, <3>3 DEF Gapless
    <3>5. Sent
      BY <1>1, <1>5, <1>8, <2>5, <2>6, <3>1, <3>4 DEF Sent, Edited
    <3>. QED BY <3>1, <3>5, SentStep
  <2>. QED BY <2>7, <2>8, <2>9 DEF PeerInv
<1>. QED BY <1>4, <1>6, <1>7, <1>8

-----------------------------------------------------------------------------
(* A finite set of rows has a highest number: otherwise the map of every   *)
(* number to the next one would be an injection of a finite set in a part  *)
(* of it that lacks the lowest.                                            *)
LEMMA FiniteBounded ==
  ASSUME NEW rows, Rows(rows)
  PROVE  Bounded(rows)
<1>1. CASE rows = {}
  BY <1>1 DEF Bounded
<1>2. ASSUME rows # {}, \A b \in Nat : \E r \in rows : r.seq > b PROVE FALSE
  <2>. DEFINE N == SeqsOf(rows)
              f == [r \in rows |-> r.seq]
  <2>1. N # {} /\ N \subseteq Nat /\ \A a \in N : \E b \in N : a < b
    BY <1>2 DEF SeqsOf, Rows
  <2>2. IsFiniteSet(N)
    <3>1. f \in Surjection(rows, N)
      BY DEF Surjection, SeqsOf
    <3>. QED BY <3>1, FS_Surjection DEF Rows
  <2>. HIDE DEF N, f
  <2>3. ASSUME NEW T, T \subseteq N, T # {}
        PROVE  \E a \in T : \A b \in T : a <= b
    <3>1. PICK a \in T : \A b \in T : ~(<<b, a>> \in OpToRel(<, Nat))
      BY <2>1, <2>3, WFMin, NatLessThanWellFounded
    <3>2. \A b \in T : ~(b < a)
      BY <2>1, <2>3, <3>1 DEF OpToRel
    <3>. QED BY <2>1, <2>3, <3>2
  <2>4. PICK min \in N : \A b \in N : min <= b
    BY <2>1, <2>3
  <2>5. ASSUME NEW a \in N
        PROVE  \E c \in N : a < c /\ \A b \in N : a < b => c <= b
    <3>. DEFINE T == {b \in N : a < b}
    <3>1. T \subseteq N /\ T # {}
      BY <2>1
    <3>2. PICK c \in T : \A b \in T : c <= b
      BY <2>3, <3>1
    <3>. QED BY <3>2
  <2>. DEFINE next == [a \in N |-> CHOOSE c \in N : a < c /\ \A b \in N : a < b => c <= b]
              rest == N \ {min}
  <2>6. \A a \in N : next[a] \in N /\ a < next[a] /\ \A b \in N : a < b => next[a] <= b
    BY <2>5
  <2>7. \A a \in N : next[a] \in rest
    BY <2>1, <2>4, <2>6
  <2>8. next \in [N -> rest]
    BY <2>7
  <2>. HIDE DEF next
  <2>9. \A a, b \in N : next[a] = next[b] => a = b
    <3>1. SUFFICES ASSUME NEW a \in N, NEW b \in N, next[a] = next[b], a # b PROVE FALSE
      OBVIOUS
    <3>2. a \in Nat /\ b \in Nat /\ next[a] \in Nat
      BY <2>1, <2>6
    <3>3. a < b \/ b < a
      BY <3>1, <3>2
    <3>. QED BY <2>6, <3>1, <3>2, <3>3
  <2>10. next \in Injection(N, rest)
    BY <2>8, <2>9 DEF Injection, IsInjective
  <2>11. IsFiniteSet(rest) /\ Cardinality(rest) = Cardinality(N) - 1
    BY <2>2, <2>4, FS_RemoveElement
  <2>12. Cardinality(N) <= Cardinality(rest)
    BY <2>10, <2>11, FS_Injection
  <2>13. Cardinality(N) \in Nat
    BY <2>2, FS_CardinalityType
  <2>. QED BY <2>11, <2>12, <2>13
<1>3. ASSUME NEW b \in Nat, ~\E r \in rows : r.seq > b PROVE Bounded(rows)
  BY <1>3 DEF Bounded, Rows
<1>. QED BY <1>1, <1>2, <1>3

-----------------------------------------------------------------------------
(* A batch reaches the desktop: it has what is new of it, and trims.       *)
Stored ==
  /\ desk' = [cursor |-> desk'.cursor, rows |-> desk'.rows, trimmed |-> desk'.trimmed]
  /\ desk'.cursor \in Nat /\ desk.cursor <= desk'.cursor /\ desk'.trimmed \in Nat
  /\ \A r \in desk'.rows : r.seq \in Nat /\ r.seq <= desk'.cursor
  /\ \A r \in desk.rows \cup Sending : r.seq \in Nat =>
       r \in desk'.rows \/ r.seq <= desk'.trimmed \/ (r \notin desk.rows /\ r.seq <= desk.cursor)
  /\ desk.trimmed <= desk'.trimmed
  /\ desk'.cursor = desk.cursor \/ \E e \in Sending : e.seq = desk'.cursor
  /\ \A e \in Sending : e.seq <= desk'.cursor

LEMMA AppendStored ==
  ASSUME Shape, up # <<>>, Head(up).op = "log-batch", Head(up).events = Sending, appendPeerLog
  PROVE  /\ Stored
         /\ down' = Append(down, [op |-> "log-ack", upTo |-> desk'.cursor])
         /\ blurred' = blurred
<1>. DEFINE news == {r \in Sending : r.seq > desk.cursor}
            high == MaxSeq(news)
            grown == IF news = {} THEN desk
                     ELSE [desk EXCEPT !.rows = @ \cup news, !.cursor = high]
<1>1. /\ desk' \in trimIfOversized(grown)
      /\ down' = Append(down, [op |-> "log-ack", upTo |-> grown.cursor])
      /\ blurred' = blurred
  BY DEF appendPeerLog
<1>2. /\ Rows(Sending) /\ desk.cursor \in Nat /\ desk.trimmed \in Nat
      /\ desk = [cursor |-> desk.cursor, rows |-> desk.rows, trimmed |-> desk.trimmed]
      /\ \A r \in desk.rows : r.seq \in Nat /\ r.seq <= desk.cursor
  BY DEF Shape
<1>3. Rows(news) /\ news \subseteq Sending /\ \A r \in news : r.seq > desk.cursor
  BY <1>2, FS_Subset DEF Rows
<1>4. \A e \in Sending : e.seq \in Nat /\ (e \in news \/ e.seq <= desk.cursor)
  BY <1>2 DEF Rows
<1>5. /\ high \in Nat /\ \A r \in news : r.seq <= high
      /\ news # {} => \E r \in news : r.seq = high
  <2>. HIDE DEF news
  <2>. QED BY <1>3, FiniteBounded, MaxSeqOf DEF Rows
<1>. HIDE DEF news, high
<1>6. /\ grown = [cursor |-> grown.cursor, rows |-> grown.rows, trimmed |-> desk.trimmed]
      /\ grown.rows = desk.rows \cup news /\ grown.trimmed = desk.trimmed
      /\ grown.cursor = IF news = {} THEN desk.cursor ELSE high
  <2>. DEFINE c == desk.cursor
              rs == desk.rows
              t == desk.trimmed
  <2>1. desk = [cursor |-> c, rows |-> rs, trimmed |-> t]
    BY <1>2
  <2>. HIDE DEF c, rs, t
  <2>2. desk.cursor = c /\ desk.rows = rs /\ desk.trimmed = t
    BY DEF c, rs, t
  <2>. QED BY <2>1, <2>2
<1>7. grown.cursor \in Nat /\ desk.cursor <= grown.cursor /\ \A e \in Sending : e.seq <= grown.cursor
  BY <1>2, <1>3, <1>4, <1>5, <1>6
<1>8. grown.cursor = desk.cursor \/ \E e \in Sending : e.seq = grown.cursor
  BY <1>3, <1>5, <1>6
<1>9. \A r \in grown.rows : r.seq \in Nat /\ r.seq <= grown.cursor
  BY <1>2, <1>3, <1>4, <1>6, <1>7
<1>. HIDE DEF grown
<1>. DEFINE Trimmed(o) == desk' = [grown EXCEPT !.rows = @ \ o, !.trimmed = MaxSeq(o)]
<1>10. desk' = grown \/ \E oldest \in SUBSET grown.rows : Trimmed(oldest) /\ grown.trimmed = 0
  <2>1. desk' \in trimIfOversized(grown) /\ grown.trimmed \in Nat
    BY <1>1, <1>2, <1>6
  <2>. DEFINE keep == (Cardinality(grown.rows) * 3) \div 4
              old == grown.rows \ Newest(grown.rows, keep - 1)
  <2>2. desk' = grown \/ (Trimmed(old) /\ ~(grown.trimmed > 0))
    BY <2>1 DEF trimIfOversized
  <2>3. old \in SUBSET grown.rows
    OBVIOUS
  <2>. HIDE DEF old, Trimmed
  <2>. QED BY <2>1, <2>2, <2>3
<1>11. ASSUME desk' = grown PROVE Stored
  <2>1. /\ desk'.cursor = grown.cursor /\ desk'.rows = grown.rows /\ desk'.trimmed = desk.trimmed
        /\ desk' = [cursor |-> desk'.cursor, rows |-> desk'.rows, trimmed |-> desk'.trimmed]
    BY <1>6, <1>11
  <2>2. \A r \in desk.rows \cup Sending : r.seq \in Nat =>
          r \in desk'.rows \/ r.seq <= desk'.trimmed \/ (r \notin desk.rows /\ r.seq <= desk.cursor)
    BY <1>4, <1>6, <2>1
  <2>. QED BY <1>2, <1>7, <1>8, <1>9, <2>1, <2>2 DEF Stored
<1>12. ASSUME NEW oldest \in SUBSET grown.rows, grown.trimmed = 0, Trimmed(oldest)
       PROVE  Stored /\ desk'.cursor = grown.cursor
  <2>1. /\ desk'.cursor = grown.cursor /\ desk'.rows = grown.rows \ oldest
        /\ desk'.trimmed = MaxSeq(oldest)
        /\ desk' = [cursor |-> desk'.cursor, rows |-> desk'.rows, trimmed |-> desk'.trimmed]
    BY <1>6, <1>12
  <2>2. MaxSeq(oldest) \in Nat /\ \A r \in oldest : r.seq <= MaxSeq(oldest)
    <3>1. Bounded(oldest) /\ \A r \in oldest : r.seq \in Nat
      BY <1>7, <1>9 DEF Bounded
    <3>. QED BY <3>1, MaxSeqOf
  <2>3. \A r \in desk.rows \cup Sending : r.seq \in Nat =>
          r \in desk'.rows \/ r.seq <= desk'.trimmed \/ (r \notin desk.rows /\ r.seq <= desk.cursor)
    BY <1>4, <1>6, <2>1, <2>2
  <2>4. desk.trimmed <= desk'.trimmed
    BY <1>6, <1>12, <2>1, <2>2
  <2>. QED BY <1>7, <1>8, <1>9, <2>1, <2>2, <2>3, <2>4 DEF Stored
<1>. HIDE DEF Trimmed
<1>13. desk'.cursor = grown.cursor
  BY <1>10, <1>12
<1>14. Stored
  BY <1>10, <1>11, <1>12
<1>. QED BY <1>1, <1>13, <1>14

-----------------------------------------------------------------------------
(* What the desktop gets, and what the page gets of it.                    *)
LEMMA UpOf ==
  ASSUME Stage, up # <<>>
  PROVE  /\ Tail(up) = <<>> /\ down = <<>> /\ NoAnswer(port) /\ asked = NoAsk
         /\ \/ Greets /\ Head(up).op = "log-handshake" /\ Sending = {}
            \/ Sends /\ Head(up).op = "log-batch" /\ Sending = Head(up).events
<1>1. Greets \/ Sends
  BY DEF Stage, Off, AsksMax, ToldMax, Greeted, Idle, AsksRows, ToldRows, Acks, Refuses, Quiet
<1>2. CASE Greets
  <2>1. PICK m : up = <<m>> /\ m.op = "log-handshake"
    BY <1>2 DEF Greets
  <2>2. Head(up) = m /\ Tail(up) = <<>> /\ up[1] = m
    BY <2>1
  <2>. QED BY <1>2, <2>1, <2>2 DEF Greets, Sending
<1>3. CASE Sends
  <2>1. PICK m : up = <<m>> /\ m.op = "log-batch"
    BY <1>3 DEF Sends
  <2>2. Head(up) = m /\ Tail(up) = <<>> /\ up[1] = m
    BY <2>1
  <2>. QED BY <1>3, <2>1, <2>2 DEF Sends, Sending
<1>. QED BY <1>1, <1>2, <1>3

LEMMA DownOf ==
  ASSUME Stage, down # <<>>
  PROVE  /\ Tail(down) = <<>> /\ up = <<>> /\ NoAnswer(port) /\ asked = NoAsk
         /\ \/ Greeted /\ Head(down).op = "log-cursor" /\ Head(down).upTo = desk.cursor
            \/ Acks /\ Head(down).op = "log-ack" /\ Head(down).upTo = desk.cursor
            \/ Refuses /\ Head(down).op = "log-error"
<1>1. Greeted \/ Acks \/ Refuses
  BY DEF Stage, Off, AsksMax, ToldMax, Greets, Idle, AsksRows, ToldRows, Sends, Quiet
<1>2. CASE Greeted
  <2>1. PICK m : down = <<m>> /\ m.op = "log-cursor" /\ m.upTo = desk.cursor
    BY <1>2 DEF Greeted
  <2>2. Head(down) = m /\ Tail(down) = <<>>
    BY <2>1
  <2>. QED BY <1>2, <2>1, <2>2 DEF Greeted
<1>3. CASE Acks
  <2>1. PICK m : down = <<m>> /\ m.op = "log-ack" /\ m.upTo = desk.cursor
    BY <1>3 DEF Acks
  <2>2. Head(down) = m /\ Tail(down) = <<>>
    BY <2>1
  <2>. QED BY <1>3, <2>1, <2>2 DEF Acks
<1>4. CASE Refuses
  <2>1. PICK m : down = <<m>> /\ m.op = "log-error"
    BY <1>4 DEF Refuses
  <2>2. Head(down) = m /\ Tail(down) = <<>>
    BY <2>1
  <2>. QED BY <1>4, <2>1, <2>2 DEF Refuses
<1>. QED BY <1>1, <1>2, <1>3, <1>4

(* The handshake: the desktop keeps what it has, or starts from nothing.   *)
LEMMA GreetKept ==
  ASSUME LogInv, PeerInv, up # <<>>, up' = Tail(up), Head(up).op = "log-handshake",
         handshakePeerLog, UNCHANGED <<port, asked, ship>>, UNCHANGED logVars
  PROVE  PeerInv'
<1>. DEFINE wiped == [cursor |-> 0, rows |-> {}, trimmed |-> 0]
            m == [op |-> "log-cursor", upTo |-> desk'.cursor]
<1>1. /\ Shape /\ Stage /\ (desk' = desk \/ desk' = wiped) /\ down' = Append(down, m)
      /\ blurred' = blurred /\ UNCHANGED <<port, asked, ship>> /\ UNCHANGED logVars
  BY DEF handshakePeerLog, PeerInv
<1>2. m.op = "log-cursor" /\ m.upTo = desk'.cursor
  OBVIOUS
<1>. HIDE DEF m
<1>3. /\ Greets /\ Sending = {} /\ up' = <<>> /\ down = <<>> /\ NoAnswer(port) /\ asked = NoAsk
      /\ down' = <<m>> /\ down' # <<>>
  BY <1>1, UpOf, One
<1>4. Sending' = {} /\ age' = age /\ Window(port) = {} /\ ~Told(port, "rows")
  BY <1>1, <1>3, NothingTold, LogSame DEF Sending
<1>5. Shape'
  <2>1. /\ desk' = [cursor |-> desk'.cursor, rows |-> desk'.rows, trimmed |-> desk'.trimmed]
        /\ desk'.cursor \in Nat /\ desk'.trimmed \in Nat
        /\ \A r \in desk'.rows : r.seq \in Nat /\ r.seq <= desk'.cursor
    <3>1. CASE desk' = desk
      BY <1>1, <3>1 DEF Shape
    <3>2. CASE desk' = wiped
      BY <3>2
    <3>. QED BY <1>1, <3>1, <3>2
  <2>2. UNCHANGED <<ship, port, age, blurred>> /\ Shape /\ Rows(Sending')
    BY <1>1, <1>4, FS_EmptySet DEF Rows
  <2>. QED BY <2>1, <2>2 DEF Shape
<1>6. Stage'
  <2>1. m \in SeqRange(down')
    BY <1>3 DEF SeqRange
  <2>2. Greeted'
    BY <1>1, <1>2, <1>3, <2>1 DEF Greets, Greeted, New
  <2>. QED BY <2>2 DEF Stage
<1>7. ASSUME ~blurred' PROVE StreamInv'
  <2>1. NumInv /\ DeskInv /\ PortInv /\ Flow /\ ship.on /\ ~ship.ready
    BY <1>1, <1>3, <1>7 DEF PeerInv, StreamInv, Greets, New
  <2>2. /\ Live' = Live /\ Unstored' = Unstored /\ ToPost' = ToPost /\ NumInv' = NumInv
        /\ cursor' = cursor /\ cursor \in Nat /\ UNCHANGED <<calls, port, ship>>
    BY <1>1, LogSame DEF logVars, LogInv, TypeInv
  <2>3. DeskInv'
    <3>1. CASE desk' = desk
      BY <2>1, <2>2, <3>1 DEF DeskInv, Reached
    <3>2. CASE desk' = wiped
      <4>1. desk'.cursor = 0 /\ desk'.trimmed = 0
        BY <3>2
      <4>2. \A r \in Live : ~(0 < r.seq /\ r.seq <= 0)
        BY LiveTyped
      <4>. QED BY <2>2, <4>1, <4>2 DEF DeskInv, Reached
    <3>. QED BY <1>1, <3>1, <3>2
  <2>4. PortInv'
    BY <2>1, <2>2 DEF PortInv
  <2>5. Flow'
    BY <1>3, <1>4, <2>1, <2>2 DEF Flow, Gapless, OnTheWay
  <2>. QED BY <2>1, <2>2, <2>3, <2>4, <2>5 DEF StreamInv
<1>. QED BY <1>5, <1>6, <1>7 DEF PeerInv

(* The desktop takes a batch: no row up to its new cursor is missing, as   *)
(* the batch has no hole.                                                  *)
LEMMA AppendKept ==
  ASSUME LogInv, PeerInv, up # <<>>, up' = Tail(up), Head(up).op = "log-batch",
         appendPeerLog, UNCHANGED <<port, asked, ship>>, UNCHANGED logVars
  PROVE  PeerInv'
<1>. DEFINE m == [op |-> "log-ack", upTo |-> desk'.cursor]
<1>1. Shape /\ Stage /\ UNCHANGED <<port, asked, ship>> /\ UNCHANGED logVars
  BY DEF PeerInv
<1>2. /\ Sends /\ Sending = Head(up).events /\ up' = <<>> /\ down = <<>> /\ NoAnswer(port)
      /\ asked = NoAsk
  BY <1>1, UpOf
<1>3. Stored /\ down' = Append(down, m) /\ blurred' = blurred
  BY <1>1, <1>2, AppendStored
<1>4. m.op = "log-ack" /\ m.upTo = desk'.cursor
  OBVIOUS
<1>. HIDE DEF m
<1>5. down' = <<m>> /\ down' # <<>>
  BY <1>2, <1>3, One
<1>6. Sending' = {} /\ age' = age /\ Window(port) = {} /\ ~Told(port, "rows")
  BY <1>1, <1>2, NothingTold, LogSame DEF Sending
<1>7. Shape'
  <2>1. UNCHANGED <<ship, port, age, blurred>> /\ Shape /\ Rows(Sending')
    BY <1>1, <1>3, <1>6, FS_EmptySet DEF Rows
  <2>. QED BY <1>3, <2>1 DEF Shape, Stored
<1>8. Stage'
  <2>1. m \in SeqRange(down')
    BY <1>5 DEF SeqRange
  <2>2. Acks'
    BY <1>1, <1>2, <1>3, <1>4, <1>5, <2>1 DEF Sends, Acks, Awaits, Ready, Stored
  <2>. QED BY <2>2 DEF Stage
<1>9. ASSUME ~blurred' PROVE StreamInv'
  <2>1. /\ NumInv /\ DeskInv /\ PortInv /\ Flow /\ ship.on /\ ship.ready
        /\ desk.cursor \in Nat /\ desk.trimmed \in Nat /\ Rows(Sending)
    BY <1>1, <1>2, <1>3, <1>9 DEF PeerInv, StreamInv, Sends, Awaits, Ready, Shape
  <2>2. /\ Live' = Live /\ Unstored' = Unstored /\ ToPost' = ToPost /\ NumInv' = NumInv
        /\ cursor' = cursor /\ cursor \in Nat /\ UNCHANGED <<calls, port, ship>>
        /\ \A r \in Live : r.seq \in Nat
    BY <1>1, LogSame, LiveTyped DEF logVars, LogInv, TypeInv
  <2>3. DeskInv'
    <3>1. Reached(desk'.cursor)
      BY <1>3, <2>1 DEF Stored, DeskInv, Flow, Gapless
    <3>2. ASSUME NEW r \in Live, desk'.trimmed < r.seq, r.seq <= desk'.cursor
          PROVE  r \in desk'.rows
      <4>0. /\ desk'.cursor \in Nat /\ desk'.trimmed \in Nat /\ r.seq \in Nat
            /\ desk.trimmed <= desk'.trimmed
        BY <1>3, <2>2 DEF Stored
      <4>1. CASE r.seq <= desk.cursor
        <5>1. r \in desk.rows
          BY <2>1, <3>2, <4>0, <4>1 DEF DeskInv
        <5>. QED BY <1>3, <3>2, <4>0, <5>1 DEF Stored
      <4>2. CASE ~(r.seq <= desk.cursor)
        <5>1. PICK e \in Sending : e.seq = desk'.cursor
          BY <1>3, <3>2, <4>2 DEF Stored
        <5>2. r \in Sending
          BY <2>1, <3>2, <4>0, <4>2, <5>1 DEF Flow, Gapless
        <5>. QED BY <1>3, <2>1, <3>2, <4>0, <4>2, <5>2 DEF Stored
      <4>. QED BY <4>1, <4>2
    <3>. QED BY <2>2, <3>1, <3>2 DEF DeskInv, Reached
  <2>4. PortInv'
    BY <2>1, <2>2 DEF PortInv
  <2>5. ASSUME NEW r \in Live, r \in OnTheWay, r.seq > desk'.cursor PROVE r \in OnTheWay'
    <3>1. r \notin Sending
      BY <1>3, <2>1, <2>2, <2>5 DEF Stored, Rows
    <3>. QED BY <2>2, <2>5, <3>1 DEF OnTheWay
  <2>6. ASSUME NEW r \in Unstored PROVE r \in OnTheWay' \/ r.seq <= desk'.cursor
    <3>1. r \in Live /\ r.seq \in Nat /\ desk'.cursor \in Nat /\ desk.cursor <= desk'.cursor
      BY <1>3, <2>2 DEF Live, Stored
    <3>2. r \in OnTheWay \/ r.seq <= desk.cursor
      BY <2>1 DEF Flow
    <3>. QED BY <2>1, <2>5, <3>1, <3>2
  <2>7. Coming => Coming'
    <3>1. ASSUME Coming, NEW r \in Live, r.seq > desk'.cursor PROVE r \in OnTheWay' \cup ToPost
      <4>1. r.seq > desk.cursor
        BY <1>3, <2>1, <2>2, <3>1 DEF Stored
      <4>. QED BY <2>5, <3>1, <4>1 DEF Coming
    <3>. QED BY <2>2, <3>1 DEF Coming
  <2>8. Flow'
    BY <1>6, <2>1, <2>2, <2>6, <2>7 DEF Flow, Gapless
  <2>. QED BY <2>1, <2>2, <2>3, <2>4, <2>8 DEF StreamInv
<1>. QED BY <1>7, <1>8, <1>9 DEF PeerInv

LEMMA DeskKept ==
  ASSUME LogInv, PeerInv, DeskStep
  PROVE  PeerInv'
<1>1. /\ up # <<>> /\ up' = Tail(up) /\ UNCHANGED <<port, asked, ship>> /\ UNCHANGED logVars
  BY DEF DeskStep
<1>2. CASE Head(up).op = "log-handshake" /\ handshakePeerLog
  BY <1>1, <1>2, GreetKept
<1>3. CASE Head(up).op = "log-batch" /\ appendPeerLog
  BY <1>1, <1>3, AppendKept
<1>4. CASE Head(up).op = "log-batch" /\ refuse
  <2>. DEFINE m == [op |-> "log-error"]
  <2>1. /\ Shape /\ Stage /\ desk' = desk /\ down' = Append(down, m) /\ blurred' = TRUE
    BY <1>4 DEF refuse, PeerInv, Blur
  <2>2. m.op = "log-error"
    OBVIOUS
  <2>. HIDE DEF m
  <2>3. /\ Sends /\ up' = <<>> /\ NoAnswer(port) /\ asked = NoAsk
        /\ down' = <<m>> /\ down' # <<>>
    BY <1>1, <1>4, <2>1, UpOf, One
  <2>4. Sending' = {} /\ age' = age
    BY <1>1, <2>3, LogSame DEF Sending
  <2>5. Shape'
    <3>1. UNCHANGED <<ship, port, desk, age>> /\ Shape /\ Rows(Sending')
      BY <1>1, <2>1, <2>4, FS_EmptySet DEF Rows
    <3>. QED BY <2>1, <3>1 DEF Shape
  <2>6. Stage'
    <3>1. m \in SeqRange(down')
      BY <2>3 DEF SeqRange
    <3>2. Refuses'
      BY <1>1, <2>1, <2>2, <2>3, <3>1 DEF Sends, Refuses, Awaits, Ready
    <3>. QED BY <3>2 DEF Stage
  <2>. QED BY <2>1, <2>5, <2>6 DEF PeerInv
<1>. QED BY <1>2, <1>3, <1>4 DEF DeskStep

(* The page gets an answer: the rows that the desktop has need not wait.   *)
LEMMA ControlKept ==
  ASSUME LogInv, PeerInv, handleControl
  PROVE  PeerInv'
<1>. DEFINE control == Head(down)
<1>1. /\ Shape /\ Stage /\ down # <<>> /\ down' = Tail(down)
      /\ UNCHANGED <<port, asked, up, desk, blurred>> /\ UNCHANGED logVars
  BY DEF handleControl, PeerInv
<1>2. /\ down' = <<>> /\ up = <<>> /\ NoAnswer(port) /\ asked = NoAsk
      /\ \/ Greeted /\ control.op = "log-cursor" /\ control.upTo = desk.cursor
         \/ Acks /\ control.op = "log-ack" /\ control.upTo = desk.cursor
         \/ Refuses /\ control.op = "log-error"
  BY <1>1, DownOf
<1>3. /\ ship.on /\ (Greeted \/ ship.ready) /\ (Greeted => ~ship.ready)
      /\ (Refuses => ship.cursor = desk.cursor)
      /\ ShipShape(ship) /\ ship.cursor \in Nat /\ desk.cursor \in Nat
      /\ (Acks => ship.cursor <= desk.cursor)
      /\ (Greeted => ship.backfill)
  BY <1>1, <1>2 DEF Greeted, Acks, Refuses, New, Awaits, Ready, Shape
<1>. DEFINE rest == {p \in ship.pending : p.seq > desk.cursor}
<1>4. Rows(rest) /\ rest \subseteq ship.pending
  BY <1>1, FS_Subset DEF Shape, Rows
<1>5. /\ Edited(ship', ship.on, desk.cursor, TRUE, FALSE, ship'.pending, ship.backfill)
      /\ ship'.pending \in {ship.pending, rest}
  <2>1. CASE Greeted /\ control.op = "log-cursor" /\ control.upTo = desk.cursor
    <3>1. ship' = onCursor(ship, desk.cursor)
      BY <2>1 DEF handleControl
    <3>. QED BY <1>3, <2>1, <3>1 DEF onCursor, Acked, Edited, ShipShape
  <2>2. CASE Acks /\ control.op = "log-ack" /\ control.upTo = desk.cursor
    <3>1. ship' = Acked(ship, IF desk.cursor > ship.cursor THEN desk.cursor ELSE ship.cursor)
      BY <2>2 DEF handleControl
    <3>2. (IF desk.cursor > ship.cursor THEN desk.cursor ELSE ship.cursor) = desk.cursor
      BY <1>3, <2>2
    <3>3. ship' = Acked(ship, desk.cursor)
      BY <3>1, <3>2
    <3>4. ship.ready = TRUE
      BY <2>2 DEF Acks, Ready
    <3>. QED BY <1>3, <3>3, <3>4 DEF Acked, Edited, ShipShape
  <2>3. CASE Refuses /\ control.op = "log-error"
    <3>1. ship' = [ship EXCEPT !.inflight = FALSE]
      BY <2>3 DEF handleControl
    <3>. QED BY <1>3, <2>3, <3>1 DEF Edited, ShipShape, Refuses, Awaits, Ready
  <2>. QED BY <1>2, <2>1, <2>2, <2>3
<1>. HIDE DEF control, rest
<1>6. Sending = {} /\ Sending' = {} /\ age' = age /\ Window(port) = {} /\ ~Told(port, "rows")
  BY <1>1, <1>2, NothingTold, LogSame DEF Sending
<1>7. Shape'
  <2>1. ShipShape(ship') /\ ship'.cursor \in Nat /\ Rows(ship'.pending)
    BY <1>1, <1>3, <1>4, <1>5 DEF Edited, Shape
  <2>2. UNCHANGED <<port, desk, age, blurred>> /\ Rows(Sending') /\ Shape
    BY <1>1, <1>6, FS_EmptySet DEF Rows
  <2>. QED BY <2>1, <2>2 DEF Shape
<1>8. Stage'
  <2>1. Idle'
    BY <1>1, <1>2, <1>3, <1>5 DEF Idle, Ready, Quiet, Edited
  <2>. QED BY <2>1 DEF Stage
<1>9. ASSUME ~blurred' PROVE StreamInv'
  <2>1. StreamInv /\ \A p \in ship.pending : p.seq \in Nat
    BY <1>1, <1>9 DEF PeerInv, Shape, Rows
  <2>2. \A p \in ship.pending : p \in ship'.pending \/ p.seq <= desk.cursor
    BY <1>3, <1>5, <2>1 DEF rest
  <2>3. ship'.pending \subseteq ship.pending /\ ship'.on /\ ship'.ready /\ ship'.backfill = ship.backfill
    BY <1>3, <1>4, <1>5 DEF Edited
  <2>4. Quietly
    BY <1>1, <1>3, <1>6, <2>2, <2>3 DEF Quietly
  <2>. QED BY <1>3, <2>1, <2>4, QuietStep
<1>. QED BY <1>7, <1>8, <1>9 DEF PeerInv

-----------------------------------------------------------------------------
(* The whole: the steps of the peer log are steps of the run log, and keep *)
(* the stream as it is.                                                    *)
LEMMA PeerSteps == PeerNext => [LogNext]_logVars
<1>. SUFFICES ASSUME PeerNext PROVE [LogNext]_logVars
  OBVIOUS
<1>1. CASE Worker
  BY <1>1 DEF Worker, LogRow, TurnEndRow, FlushRows, SilentRow, OtherStep, LogNext
<1>2. CASE PageReload
  BY <1>2 DEF PageReload, LogNext
<1>3. CASE Stream \/ attachLogStream \/ loseConnection \/ loadFails
  BY <1>3 DEF Stream, Answer, Hear, pump, DeskStep, handleControl, attachLogStream,
     loseConnection, loadFails
<1>. QED BY <1>1, <1>2, <1>3 DEF PeerNext

LEMMA InitPeer == PeerInit => LogInv /\ PeerInv
<1>. SUFFICES ASSUME PeerInit PROVE LogInv /\ PeerInv
  OBVIOUS
<1>1. LogInit /\ LogInv
  BY InitLog DEF PeerInit
<1>2. /\ port = <<>> /\ asked = NoAsk /\ ship = Closed /\ up = <<>> /\ down = <<>>
      /\ desk = [cursor |-> 0, rows |-> {}, trimmed |-> 0] /\ blurred = FALSE
      /\ calls = {} /\ cursor = 0 /\ task = NoTask /\ waiting = [s \in Session |-> <<>>]
      /\ DOMAIN age = Session
  BY <1>1 DEF PeerInit, LogInit
<1>3. IsSeq(<<>>) /\ Posted(<<>>) = {} /\ Window(<<>>) = {} /\ NoAnswer(<<>>) /\ Ascending(<<>>)
  BY DEF IsSeq, Posted, Window, NoAnswer, Ascending
<1>4. Sending = {} /\ Rows({})
  BY <1>2, FS_EmptySet DEF Sending, Rows
<1>5. /\ ShipShape(Closed) /\ ~Closed.on /\ ~Closed.ready /\ Closed.cursor = 0
      /\ Closed.pending = {}
  BY DEF ShipShape, Closed
<1>6. Shape
  <2>1. ShipShape(ship) /\ ship.cursor \in Nat /\ Rows(ship.pending)
    BY <1>2, <1>4, <1>5
  <2>2. /\ desk = [cursor |-> desk.cursor, rows |-> desk.rows, trimmed |-> desk.trimmed]
        /\ desk.cursor = 0 /\ desk.trimmed = 0 /\ desk.rows = {}
    BY <1>2
  <2>3. IsSeq(port) /\ Posted(port) = {} /\ Rows(Window(port)) /\ Rows(Sending)
    BY <1>2, <1>3, <1>4
  <2>4. blurred \in BOOLEAN /\ DOMAIN age = Session
    BY <1>2
  <2>. QED BY <2>1, <2>2, <2>3, <2>4 DEF Shape
<1>7. Stage
  BY <1>2, <1>3, <1>5 DEF Stage, Off, Quiet
<1>8. Batch = {} /\ ToPost = {} /\ Unstored = {} /\ Live = {}
  <2>1. Batch = {} /\ ToPost = {} /\ \A s \in Session : ~Sound(s)
    BY <1>2 DEF Batch, ToPost, NoTask, Sound
  <2>. QED BY <1>2, <2>1 DEF Unstored, Live
<1>9. NumInv /\ DeskInv /\ PortInv /\ Flow
  <2>1. NumInv
    BY <1>2, <1>8 DEF NumInv, NoTask
  <2>2. DeskInv
    BY <1>2, <1>8 DEF DeskInv, Reached
  <2>3. PortInv /\ Flow
    BY <1>2, <1>3, <1>4, <1>5, <1>8, NothingTold DEF PortInv, Flow, Gapless
  <2>. QED BY <2>1, <2>2, <2>3
<1>. QED BY <1>1, <1>6, <1>7, <1>9 DEF PeerInv, StreamInv

LEMMA PeerInvKept ==
  ASSUME LogInv, RowsTyped', PeerInv, [PeerNext]_vars
  PROVE  PeerInv'
<1>1. CASE PeerNext
  <2>2. DOMAIN age' = Session
    BY <1>1, AgeKept DEF PeerInv, Shape
  <2>3. CASE Worker
    BY <2>2, <2>3, WorkerKept
  <2>4. CASE PageReload
    BY <2>2, <2>4, ReloadKept
  <2>5. CASE Stream
    BY <2>5, AnswerKept, HearKept, PumpKept, DeskKept, ControlKept DEF Stream
  <2>6. CASE attachLogStream \/ loseConnection \/ loadFails
    BY <2>6, AttachKept, LoseKept, LoadFailsKept
  <2>. QED BY <1>1, <2>3, <2>4, <2>5, <2>6 DEF PeerNext
<1>2. CASE UNCHANGED vars
  <2>1. UNCHANGED logVars /\ UNCHANGED <<port, asked, ship, up, down, desk, blurred>>
    BY <1>2 DEF vars, logVars
  <2>2. Sending' = Sending /\ age' = age
    BY <2>1, LogSame DEF Sending
  <2>3. Shape' /\ Stage'
    <3>1. Shape'
      BY <2>1, <2>2 DEF PeerInv, Shape
    <3>2. Stage'
      BY <2>1, StageKept DEF PeerInv
    <3>. QED BY <3>1, <3>2
  <2>4. ASSUME ~blurred' PROVE StreamInv'
    <3>1. StreamInv /\ desk.cursor \in Nat /\ \A p \in ship.pending : p.seq \in Nat
      BY <2>1, <2>4 DEF PeerInv, Shape, Rows
    <3>2. (ship.ready => ship.on) /\ (Told(port, "rows") => ship.on)
      <4>1. ship.ready => ship.on
        BY DEF PeerInv, Stage, Off, AsksMax, ToldMax, Greets, Greeted, Idle, AsksRows,
           ToldRows, Sends, Acks, Refuses, New, Ready, Awaits, Closed
      <4>2. Told(port, "rows") => ~NoAnswer(port)
        BY NothingTold
      <4>3. Told(port, "rows") => ship.on
        BY <4>2 DEF PeerInv, Stage, Off, AsksMax, ToldMax, Greets, Greeted, Idle, AsksRows,
           ToldRows, Sends, Acks, Refuses, New, Ready, Awaits
      <4>. QED BY <4>1, <4>3
    <3>3. Quietly
      BY <2>1, <2>2, <3>2 DEF Quietly
    <3>. QED BY <3>1, <3>3, QuietStep
  <2>. QED BY <2>3, <2>4 DEF PeerInv
<1>. QED BY <1>1, <1>2

LEMMA PeerInvCopies ==
  ASSUME PeerInv
  PROVE  Complete
  BY DEF PeerInv, StreamInv, DeskInv, Live, Complete

(* As long as nothing happened that the stream does not survive, the copy  *)
(* on the desktop has every row of the browser's table up to the desktop's *)
(* cursor, under its own number, but for those the desktop trimmed: in     *)
(* whatever order rows, markers, windows, batches, acknowledgements, lost  *)
(* connections and reloads of the page follow each other                   *)
(* (src/bridge/peer-log.ts, web/src/peer-log.ts).                          *)
THEOREM CopyHasNoHole == PeerSpec => []Complete
<1>1. PeerInit => LogInv /\ PeerInv
  BY InitPeer
<1>2. LogInv /\ [PeerNext]_vars => LogInv'
  <2>1. [PeerNext]_vars => [LogNext]_logVars
    BY PeerSteps DEF vars, logVars
  <2>. QED BY <2>1, LogInvKept
<1>3. LogInv' => RowsTyped'
  BY RowsStayTyped
<1>4. LogInv /\ RowsTyped' /\ PeerInv /\ [PeerNext]_vars => PeerInv'
  BY PeerInvKept
<1>5. PeerInv => Complete
  BY PeerInvCopies
<1>. QED BY <1>1, <1>2, <1>3, <1>4, <1>5, PTL DEF PeerSpec
=============================================================================
