------------------------------ MODULE RunLog ------------------------------
(***************************************************************************)
(* The run log of a browser profile: the loggers of web/src/agent/         *)
(* logger.ts, the log store of log-store.ts and the retention of           *)
(* runlog-retention.ts, all in one worker.                                 *)
(*                                                                         *)
(* Every chat session has a logger.  A row gets its number when it is      *)
(* logged, from one counter of the worker, and waits in memory; a flush    *)
(* writes the rows that wait.  The marker of a finished turn is written    *)
(* past the loggers and names the numbers between which the rows of the    *)
(* turn are.  Accesses to the database form one queue, but numbers are     *)
(* handed out while one of them awaits.  Two sessions that flush in the    *)
(* other order than they logged, or a second process that writes to the    *)
(* same database, would collide; a flush therefore moves its rows behind   *)
(* the last one on disk.                                                   *)
(*                                                                         *)
(* A turn that pauses leaves a checkpoint, and the next turn of the session*)
(* resumes that run; retention must keep every row such a run replays.     *)
(***************************************************************************)
EXTENDS Naturals, FiniteSets, Sequences, Functions

CONSTANTS Session,
          MaxTurns,    \* bound: turns of all sessions
          MaxRows,     \* bound: rows the engine logs
          MaxUpsets,   \* bound: reloads, rests until the log ages, deleted chats,
                       \* rows of another process
          KeepRuns     \* newest runs that retention never drops

VARIABLES
  cursor,   \* the last number handed out
  waiting,  \* waiting[s]: logged rows, not flushed yet
  calls,    \* the table: rows and markers with their numbers
  paused,   \* runs with a checkpoint on disk
  turn,     \* turn[s]: the turn of s, and the run a next one would resume
  task,     \* what the queue of the database is busy with
  age,      \* age[s]: of the last marker of s, against the tiers
  logged,   \* rows logged, counted
  upsets,   \* counted
  written,  \* history: rows that reached the table
  hit       \* history: runs that retention dropped while they were in use

logVars == <<cursor, waiting, calls, paused, turn, task, age, logged, upsets, written, hit>>

\* A run is known by the session and the turn that began it.
Run == [session : Session, since : 1 .. MaxTurns]
NoRun == [session |-> "none", since |-> 0]

Row == [kind : {"event"}, run : Run, turn : 1 .. MaxTurns, no : 1 .. MaxRows]
Marker == [kind : {"web_turn_end"}, run : Run, turn : 1 .. MaxTurns,
           from : Nat, to : Nat]
Tombstone == [kind : {"web_session_delete"}, run : [session : Session, since : {0}]]
Foreign == [kind : {"other"}, run : {NoRun}]
Numbered == [seq : Nat \ {0}, of : Row \cup Marker \cup Tombstone \cup Foreign]

Turn == [no : 0 .. MaxTurns,
         phase : {"idle", "running", "pausing", "ending"},
         run : Run \cup {NoRun},    \* of the turn that runs
         next : Run \cup {NoRun}]   \* the continuation the worker holds
NoTurnYet == [no |-> 0, phase |-> "idle", run |-> NoRun, next |-> NoRun]

NoTask == [op |-> "none"]
Flush(s, rows) == [op |-> "flush", session |-> s, rows |-> rows]
EndMark(s) == [op |-> "mark", session |-> s]

LogTypeOK ==
  /\ cursor \in Nat
  /\ waiting \in [Session -> Seq(Numbered)]
  /\ calls \in SUBSET Numbered
  /\ paused \in SUBSET Run
  /\ turn \in [Session -> Turn]
  /\ \/ task = NoTask
     \/ \E s \in Session : task = EndMark(s)
     \/ \E s \in Session : task.op = "flush" /\ task = Flush(s, task.rows)
                              /\ task.rows \in Seq(Numbered)
  /\ age \in [Session -> {"hot", "cold", "dead"}]
  /\ logged \in 0 .. MaxRows
  /\ upsets \in 0 .. MaxUpsets
  /\ written \in SUBSET Row
  /\ hit \in SUBSET Run

-----------------------------------------------------------------------------
SeqsOf(rows) == {r.seq : r \in rows}

\* SELECT COALESCE(MAX(seq), 0).
MaxSeq(rows) ==
  IF rows = {} THEN 0
  ELSE CHOOSE m \in SeqsOf(rows) : \A q \in SeqsOf(rows) : q <= m

RowsOf(table, run) == {c \in table : c.of.kind = "event" /\ c.of.run = run}
MarkersOf(table, s) ==
  {c \in table : c.of.kind = "web_turn_end" /\ c.of.run.session = s}
TombstonesOf(table, s) ==
  {c \in table : c.of.kind = "web_session_delete" /\ c.of.run.session = s}
SeqRange(rows) == {rows[k] : k \in DOMAIN rows}

\* Where the last turn of the run stopped.
MarkedUpTo(table, run) ==
  LET last == MarkersOf(table, run.session)
      m == CHOOSE c \in last : c.seq = MaxSeq(last)
  IN IF last = {} THEN 0 ELSE IF m.of.run = run THEN m.of.to ELSE 0

\* The numbers of a batch, moved behind the table when they would collide.
\* Mutant: the rows keep the numbers they were logged with.
rekeyed_Never(rows, max) == rows
rekeyed(rows, max) ==
  IF rows[1].seq > max THEN rows
  ELSE [k \in DOMAIN rows |-> [rows[k] EXCEPT !.seq = @ + (max + 1 - rows[1].seq)]]

LogInit ==
  /\ cursor = 0
  /\ waiting = [s \in Session |-> <<>>]
  /\ calls = {}
  /\ paused = {}
  /\ turn = [s \in Session |-> NoTurnYet]
  /\ task = NoTask
  /\ age = [s \in Session |-> "hot"]
  /\ logged = 0
  /\ upsets = 0
  /\ written = {}
  /\ hit = {}

-----------------------------------------------------------------------------
\* The checkpoint a cold worker finds: the run of the last marker, while that
\* run is paused and the chat was not deleted since.
resumableCheckpoint(s) ==
  LET last == MarkersOf(calls, s)
      m == CHOOSE c \in last : c.seq = MaxSeq(last)
  IN IF last # {} /\ m.of.run \in paused /\ MaxSeq(TombstonesOf(calls, s)) < m.seq
     THEN m.of.run ELSE NoRun

turnsTaken == FoldFunction(+, 0, [s \in Session |-> turn[s].no])

\* A turn resumes what the worker holds, else what the log holds, else it
\* starts a run.
startTurn(s) ==
  LET t == turn[s]
      held == IF t.next # NoRun THEN t.next ELSE resumableCheckpoint(s)
  IN /\ t.phase = "idle" /\ turnsTaken < MaxTurns
     /\ turn' = [turn EXCEPT ![s] =
          [no |-> t.no + 1, phase |-> "running", next |-> held,
           run |-> IF held # NoRun THEN held ELSE [session |-> s, since |-> t.no + 1]]]
  /\ UNCHANGED <<cursor, waiting, calls, paused, task, age, logged, upsets, written, hit>>

\* The row a session logs next, and how logging it changes the counters.
NextRow(s) == [seq |-> cursor + 1,
               of |-> [kind |-> "event", run |-> turn[s].run, turn |-> turn[s].no,
                       no |-> logged + 1]]

Logs(s) ==
  /\ logged < MaxRows
  /\ logged' = logged + 1
  /\ cursor' = cursor + 1
  /\ waiting' = [waiting EXCEPT ![s] = Append(@, NextRow(s))]

log(s) ==
  /\ turn[s].phase = "running"
  /\ Logs(s)
  /\ UNCHANGED <<calls, paused, turn, task, age, upsets, written, hit>>

\* The engine pauses at a Human, or a stop freezes a resumed run where it
\* landed: a pause row is logged and its checkpoint is to be saved.
pause(s) ==
  /\ turn[s].phase = "running"
  /\ Logs(s)
  /\ turn' = [turn EXCEPT ![s].phase = "pausing", ![s].next = turn[s].run]
  /\ UNCHANGED <<calls, paused, task, age, upsets, written, hit>>

\* A checkpoint is saved after every row of its run.
saveCheckpoint(s) ==
  /\ turn[s].phase = "pausing"
  /\ waiting[s] = <<>> /\ task = NoTask
  /\ paused' = paused \cup {turn[s].run}
  /\ turn' = [turn EXCEPT ![s].phase = "ending"]
  /\ UNCHANGED <<cursor, waiting, calls, task, age, logged, upsets, written, hit>>

\* The tree runs to its end, and its checkpoint goes.
finish(s) ==
  /\ turn[s].phase = "running" /\ task = NoTask
  /\ paused' = paused \ {turn[s].run}
  /\ turn' = [turn EXCEPT ![s].phase = "ending", ![s].next = NoRun]
  /\ UNCHANGED <<cursor, waiting, calls, task, age, logged, upsets, written, hit>>

\* A stop: before the resumed run committed anything its old pause stays, and a
\* run that never paused leaves none.
stop(s) ==
  /\ turn[s].phase = "running"
  /\ \/ turn[s].run \notin paused
     \/ \A c \in calls \cup SeqRange(waiting[s]) :
          c.of.kind = "event" /\ c.of.run = turn[s].run => c.of.turn # turn[s].no
  /\ turn' = [turn EXCEPT ![s].phase = "ending"]
  /\ UNCHANGED <<cursor, waiting, calls, paused, task, age, logged, upsets, written, hit>>

-----------------------------------------------------------------------------
\* appendEvents: a batch leaves memory and looks at the table ...
appendEvents(s) ==
  /\ task = NoTask /\ waiting[s] # <<>>
  /\ task' = Flush(s, rekeyed(waiting[s], MaxSeq(calls)))
  /\ waiting' = [waiting EXCEPT ![s] = <<>>]
  /\ UNCHANGED <<cursor, calls, paused, turn, age, logged, upsets, written, hit>>

\* ... and is inserted; the counter follows when the batch was moved.
inserted ==
  /\ task.op = "flush"
  /\ LET last == task.rows[Len(task.rows)].seq
     IN cursor' = IF last > cursor THEN last ELSE cursor
  /\ calls' = calls \cup SeqRange(task.rows)
  /\ written' = written \cup {r.of : r \in SeqRange(task.rows)}
  /\ task' = NoTask
  /\ UNCHANGED <<waiting, paused, turn, age, logged, upsets, hit>>

\* The marker of a turn waits for the rows of the turn.
\* Mutant: it is written at once.
flushedFirst_Not(s) == TRUE
flushedFirst(s) == waiting[s] = <<>>

\* Rows of the run up to the last one on disk, from where the last turn ended.
EndRow(s) ==
  LET run == turn[s].run
  IN [kind |-> "web_turn_end", run |-> run, turn |-> turn[s].no,
      from |-> MarkedUpTo(calls, run), to |-> MaxSeq(RowsOf(calls, run))]

\* A marker takes the next number of the counter; on a number that another
\* process took its insert fails, and it is lost.
Free == cursor + 1 \notin SeqsOf(calls)
insertMarker(s, of) ==
  /\ cursor' = cursor + 1
  /\ IF Free
     THEN /\ calls' = calls \cup {[seq |-> cursor + 1, of |-> of]}
          /\ age' = [age EXCEPT ![s] = "hot"]
     ELSE UNCHANGED <<calls, age>>

writeTurnEnd(s) ==
  /\ turn[s].phase = "ending" /\ task = NoTask
  /\ flushedFirst(s)
  /\ insertMarker(s, EndRow(s))
  /\ IF Free THEN task' = EndMark(s) /\ UNCHANGED turn
     ELSE turn' = [turn EXCEPT ![s].phase = "idle"] /\ UNCHANGED task
  /\ UNCHANGED <<waiting, paused, logged, upsets, written, hit>>

\* writeDelete: a tombstone, whatever the chat is doing.
writeDelete(s) ==
  /\ task = NoTask /\ TombstonesOf(calls, s) = {} /\ turn[s].no > 0
  /\ upsets < MaxUpsets /\ upsets' = upsets + 1
  /\ insertMarker(s, [kind |-> "web_session_delete", run |-> [session |-> s, since |-> 0]])
  /\ UNCHANGED <<waiting, paused, turn, task, logged, written, hit>>

\* What retention drops: everything of a session past the last tier, its
\* checkpoints included; the rows of the runs of a deleted or a cold session
\* unless one of them is paused; and, when the log is too large, the rows of all
\* but the newest runs and the paused ones.
RunsOf(s) == {c.of.run : c \in MarkersOf(calls, s)}
OfSession(s) == MarkersOf(calls, s) \cup TombstonesOf(calls, s)
LoggedRuns(table) == {c.of.run : c \in {k \in table : k.of.kind = "event"}}
NewerRuns(table, run) ==
  {r \in LoggedRuns(table) : MaxSeq(RowsOf(table, r)) > MaxSeq(RowsOf(table, run))}

\* Mutant: a paused run is like any other.
pinned_Never(run) == FALSE
pinned(run) == run \in paused

Dead == {s \in Session : age[s] = "dead" /\ OfSession(s) # {}}
Compactable ==
  {s \in Session \ Dead : /\ age[s] # "hot" \/ TombstonesOf(calls, s) # {}
                         /\ \A r \in RunsOf(s) : ~pinned(r)}
TooMany(table) ==
  {r \in LoggedRuns(table) : Cardinality(NewerRuns(table, r)) >= KeepRuns /\ ~pinned(r)}
RunsOfAll(ss) == UNION {RunsOf(s) : s \in ss}
WithoutRuns(table, runs) == {c \in table : c.of.kind = "event" => c.of.run \notin runs}

\* Tiers first, then size; a pass may come too early to do anything.  "At a turn
\* boundary no engine run is mid-flight" holds of one chat only: what a trim
\* takes from the running turn of another chat is remembered, and so is what the
\* last tier takes from a chat whose continuation the worker still holds.
InUse ==
  {turn[s].run : s \in {k \in Session : turn[k].phase \in {"running", "pausing"}}}
    \cup {turn[s].next : s \in Session}
maybeTrim ==
  \E dead \in {{}, Dead}, cold \in {{}, Compactable} :
    LET aged == RunsOfAll(dead \cup cold)
        rest == WithoutRuns(calls, aged) \ UNION {OfSession(s) : s \in dead}
    IN \E size \in {{}, TooMany(rest)} :
         /\ calls' = WithoutRuns(rest, size)
         /\ paused' = paused \ RunsOfAll(dead)
         /\ hit' = hit \cup ((aged \cup size) \cap InUse)

\* The queue is free again, and the turn over.
turnEnded(s) ==
  /\ task = EndMark(s)
  /\ maybeTrim
  /\ task' = NoTask
  /\ turn' = [turn EXCEPT ![s].phase = "idle"]
  /\ UNCHANGED <<cursor, waiting, age, logged, upsets, written>>

-----------------------------------------------------------------------------
\* The worker dies with what was not on disk; the next one takes its counter
\* from the table it opened, and trimmed.
reload ==
  /\ upsets < MaxUpsets /\ upsets' = upsets + 1
  /\ maybeTrim
  /\ cursor' = MaxSeq(calls')
  /\ waiting' = [s \in Session |-> <<>>]
  /\ task' = NoTask
  /\ turn' = [s \in Session |-> [NoTurnYet EXCEPT !.no = turn[s].no]]
  /\ UNCHANGED <<age, logged, written>>

\* Nothing happens for two weeks, or for three months.
ages ==
  /\ upsets < MaxUpsets /\ upsets' = upsets + 1
  /\ \A s \in Session : turn[s].phase = "idle"
  /\ \E tier \in {"cold", "dead"} : age' = [s \in Session |-> tier]
  /\ UNCHANGED <<cursor, waiting, calls, paused, turn, task, logged, written, hit>>

\* A turn of Telegram through the desktop bridge writes to the same table; not
\* between the two statements of a flush.
foreign ==
  /\ upsets < MaxUpsets /\ upsets' = upsets + 1
  /\ task.op # "flush"
  /\ calls' = calls \cup {[seq |-> MaxSeq(calls) + 1, of |-> [kind |-> "other", run |-> NoRun]]}
  /\ UNCHANGED <<cursor, waiting, paused, turn, task, age, logged, written, hit>>

LogNext ==
  \/ \E s \in Session :
       \/ startTurn(s) \/ log(s) \/ pause(s) \/ saveCheckpoint(s) \/ finish(s) \/ stop(s)
       \/ appendEvents(s) \/ writeTurnEnd(s) \/ turnEnded(s) \/ writeDelete(s)
  \/ inserted \/ reload \/ ages \/ foreign

LogSpec == LogInit /\ [][LogNext]_logVars

-----------------------------------------------------------------------------
\* No two rows share a number and no batch of rows is refused, in whatever order
\* the sessions flush and although another process writes to the table.
NumbersAreUnique ==
  /\ \A c, d \in calls : c.seq = d.seq => c = d
  /\ task.op = "flush" => SeqsOf(SeqRange(task.rows)) \cap SeqsOf(calls) = {}

\* So it should be for markers: the number that the marker of a turn takes is
\* free, and the turn is in the history of its chat. It does not hold beside
\* another process that writes to the table.
MarkersFit ==
  \A s \in Session : turn[s].phase = "ending" /\ task = NoTask /\ flushedFirst(s) => Free

\* The bounds of a marker hold the rows of its turn and of no other turn that
\* ended, so that a chat shown again after a reload shows each turn its own.
TurnBounds ==
  \A m \in {c.of : c \in {k \in calls : k.of.kind = "web_turn_end"}} :
    \A c \in RowsOf(calls, m.run) :
      LET inside == m.from < c.seq /\ c.seq <= m.to
          ended == \E k \in MarkersOf(calls, m.run.session) : k.of.turn = c.of.turn
      IN ended => (inside <=> c.of.turn = m.turn)

\* A run that is paused can be resumed whatever the age and the size of the
\* log: every row it ever wrote is there and in the order it was logged, unless a
\* trim at the end of another chat's turn met it while it was still in use.
PausedIsWhole ==
  \A run \in paused \ hit :
    /\ \A r \in written : r.run = run => \E c \in calls : c.of = r
    /\ \A c, d \in RowsOf(calls, run) : c.seq < d.seq => c.of.no < d.of.no
=============================================================================
