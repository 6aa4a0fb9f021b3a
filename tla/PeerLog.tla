------------------------------ MODULE PeerLog ------------------------------
(***************************************************************************)
(* The desktop's copy of a browser profile's run log: the shipper of       *)
(* web/src/peer-log.ts in the tab, the mirror of src/bridge/peer-log.ts on *)
(* the desktop, and the run log of RunLog as the source.                   *)
(*                                                                         *)
(* A row is posted to the page when it is logged, before it is on disk, the*)
(* marker of a turn after it is; answers of the worker share the port with *)
(* them.  A connection starts with a handshake in which the desktop names  *)
(* the highest number it holds, goes on with what the table has above it,  *)
(* and then carries the rows as they come, one batch at a time.            *)
(*                                                                         *)
(* The epoch of a stream belongs to the profile and is left out: it never  *)
(* changes while the browser keeps its local storage.                      *)
(***************************************************************************)
EXTENDS RunLog

CONSTANTS MaxPending,  \* live rows kept before the table is asked instead
          BatchRows,   \* rows of a batch and of a window of the table
          MaxLosses    \* bound: lost connections, refused batches, failed reads

ASSUME PeerAssumption == BatchRows \in Nat \ {0} /\ MaxPending \in Nat

VARIABLES
  port,     \* worker to page: rows as they are logged, answers
  asked,    \* what the page asks of the worker
  ship,     \* the shipper
  up, down, \* the control channel
  desk,     \* the mirror: cursor, rows, and the last number trimmed
  losses,   \* counted
  blurred   \* history: something happened that the stream does not survive

peerVars == <<port, asked, ship, up, down, desk, losses, blurred>>
vars == <<cursor, waiting, calls, paused, turn, task, age, logged, upsets, written, hit,
          port, asked, ship, up, down, desk, losses, blurred>>

NoAsk == [what |-> "nothing", after |-> 0]
Asks == [what : {"nothing", "max", "rows"}, after : Nat]
Posts == [what : {"row"}, row : Numbered] \cup [what : {"max"}, max : Nat]
           \cup [what : {"rows"}, rows : SUBSET Numbered] \cup [what : {"nobody"}]
Ups == [op : {"log-handshake"}, max : Nat] \cup [op : {"log-batch"}, events : (SUBSET Numbered) \ {{}}]
Downs == [op : {"log-cursor", "log-ack"}, upTo : Nat] \cup [op : {"log-error"}]

Closed == [on |-> FALSE, cursor |-> 0, ready |-> FALSE, inflight |-> FALSE,
           pending |-> {}, backfill |-> TRUE, due |-> FALSE]
Shipper == [on : BOOLEAN, cursor : Nat, ready : BOOLEAN, inflight : BOOLEAN,
            pending : SUBSET Numbered, backfill : BOOLEAN, due : BOOLEAN]

PeerTypeOK ==
  /\ port \in Seq(Posts)
  /\ asked \in Asks
  /\ ship \in Shipper
  /\ up \in Seq(Ups) /\ down \in Seq(Downs) /\ Len(up) + Len(down) <= 1
  /\ desk \in [cursor : Nat, rows : SUBSET Numbered, trimmed : Nat]
  /\ losses \in 0 .. MaxLosses
  /\ blurred \in BOOLEAN

PeerInit ==
  /\ LogInit
  /\ port = <<>> /\ asked = NoAsk
  /\ ship = Closed
  /\ up = <<>> /\ down = <<>>
  /\ desk = [cursor |-> 0, rows |-> {}, trimmed |-> 0]
  /\ losses = 0
  /\ blurred = FALSE

-----------------------------------------------------------------------------
\* The worker: its steps are those of RunLog, and it posts rows as it goes.
Unseen == waiting # [s \in Session |-> <<>>] \/ task.op = "flush"
Blur(b) == blurred' = (blurred \/ b)
PeerIdle == UNCHANGED <<asked, ship, up, down, desk, losses>>

\* A row that is logged between the insert of another chat's marker and its post
\* overtakes it: the desktop drops the marker, whose number is below its cursor.
LogRow(s) ==
  /\ log(s) \/ pause(s)
  /\ port' = Append(port, [what |-> "row", row |-> NextRow(s)])
  /\ Blur(task.op = "mark") /\ PeerIdle

\* The marker is posted when the queue of the database is done with it.
TurnEndRow(s) ==
  /\ turnEnded(s)
  /\ \E m \in MarkersOf(calls, s) :
       /\ m.seq = MaxSeq(MarkersOf(calls, s))
       /\ port' = Append(port, [what |-> "row", row |-> m])
  /\ UNCHANGED blurred /\ PeerIdle

\* A batch that is moved was posted under its old numbers.
FlushRows(s) ==
  /\ appendEvents(s)
  /\ Blur(waiting[s][1].seq <= MaxSeq(calls))
  /\ UNCHANGED port /\ PeerIdle

\* Rows that are not posted: the stream finds them in the table, or never.
SilentRow(s) ==
  /\ writeDelete(s) \/ foreign
  /\ Blur(ship.on \/ Unseen)
  /\ UNCHANGED port /\ PeerIdle

OtherStep(s) ==
  /\ \/ startTurn(s) \/ saveCheckpoint(s) \/ finish(s) \/ stop(s)
     \/ writeTurnEnd(s) \/ inserted \/ ages
  /\ UNCHANGED <<port, blurred>> /\ PeerIdle

\* The page goes with its worker; numbers may be handed out again that the
\* desktop holds already.
PageReload ==
  /\ reload
  /\ Blur(MaxSeq(calls') < desk.cursor)
  /\ port' = <<>> /\ asked' = NoAsk
  /\ ship' = Closed /\ up' = <<>> /\ down' = <<>>
  /\ UNCHANGED <<desk, losses>>

\* Rows with a number above the cursor, oldest first, at most so many.
Lowest(rows, n) ==
  {r \in rows : Cardinality({q \in rows : q.seq < r.seq}) < n}
loadRowsAfter(after) == Lowest({c \in calls : c.seq > after}, BatchRows)

\* The queue of the database gets to what the page asked.
Answer ==
  /\ asked.what # "nothing" /\ task = NoTask
  /\ port' = Append(port, IF asked.what = "max" THEN [what |-> "max", max |-> MaxSeq(calls)]
                          ELSE [what |-> "rows", rows |-> loadRowsAfter(asked.after)])
  /\ asked' = NoAsk
  /\ UNCHANGED <<ship, up, down, desk, losses, blurred>> /\ UNCHANGED logVars

-----------------------------------------------------------------------------
\* A new connection gets a new shipper, which asks for the highest number.
attachLogStream ==
  /\ ~ship.on
  /\ ship' = [Closed EXCEPT !.on = TRUE]
  /\ asked' = [what |-> "max", after |-> 0]
  /\ Blur(Unseen)
  /\ UNCHANGED <<port, up, down, desk, losses>> /\ UNCHANGED logVars

\* The connection goes, and what was on the way with it; answers to the old
\* shipper are nobody's.
loseConnection ==
  /\ ship.on /\ losses < MaxLosses /\ losses' = losses + 1
  /\ ship' = Closed /\ up' = <<>> /\ down' = <<>>
  /\ asked' = NoAsk
  /\ port' = [k \in DOMAIN port |-> IF port[k].what = "row" THEN port[k] ELSE [what |-> "nobody"]]
  /\ UNCHANGED <<desk, blurred>> /\ UNCHANGED logVars

\* announce
handshake ==
  /\ up' = Append(up, [op |-> "log-handshake", max |-> Head(port).max])
  /\ UNCHANGED <<ship, blurred>>

\* A row that comes live; a backlog that is too long is left to the table, where
\* all of it should be by then, unless a window is being read that
\* is older than the backlog.
Reading == asked.what = "rows" \/ \E k \in DOMAIN port : port[k].what = "rows"
Overlong(rows) == Cardinality(rows) > MaxPending
Newest(rows, n) == {r \in rows : Cardinality({q \in rows : q.seq > r.seq}) < n}
push ==
  LET row == Head(port).row
      pending == {p \in ship.pending : p.seq # row.seq} \cup {row}
  IN /\ ship' = IF ~ship.on \/ row.seq <= ship.cursor THEN ship
                ELSE [ship EXCEPT !.pending = IF Overlong(pending)
                                              THEN Newest(pending, MaxPending \div 2)
                                              ELSE pending,
                                  !.backfill = @ \/ Overlong(pending),
                                  !.due = TRUE]
     /\ Blur(Overlong(pending) /\ (Reading \/ ~(pending \subseteq ship'.pending \cup calls)))
     /\ UNCHANGED up

\* A batch: the lowest rows, as many as its caps in number and in bytes allow.
Batches(rows) == {Lowest(rows, n) : n \in 1 .. BatchRows}
sendBatch(rows) ==
  /\ up' = Append(up, [op |-> "log-batch", events |-> rows])

\* The window of the table arrives: it is sent, or the live rows are next.
backfilled ==
  LET rows == {r \in Head(port).rows : r.seq > ship.cursor}
  IN /\ UNCHANGED blurred
     /\ IF rows = {}
        THEN /\ ship' = [ship EXCEPT !.inflight = FALSE, !.backfill = FALSE, !.due = TRUE]
             /\ UNCHANGED up
        ELSE /\ \E batch \in Batches(rows) : sendBatch(batch)
             /\ UNCHANGED ship

Hear ==
  /\ port # <<>> /\ port' = Tail(port)
  /\ CASE Head(port).what = "row" -> push
       [] Head(port).what = "max" -> handshake
       [] Head(port).what = "rows" -> backfilled
       [] Head(port).what = "nobody" -> UNCHANGED <<ship, up, blurred>>
  /\ UNCHANGED <<asked, down, desk, losses>> /\ UNCHANGED logVars

\* One batch, or one window of the table, at a time.
Busy == ~ship.ready \/ ship.inflight

pump ==
  /\ ship.due
  /\ IF Busy
     THEN ship' = [ship EXCEPT !.due = FALSE] /\ UNCHANGED <<asked, up>>
     ELSE IF ship.backfill
     THEN /\ ship' = [ship EXCEPT !.due = FALSE, !.inflight = TRUE]
          /\ asked' = [what |-> "rows", after |-> ship.cursor]
          /\ UNCHANGED up
     ELSE LET rows == {r \in ship.pending : r.seq > ship.cursor}
          IN IF rows = {}
             THEN ship' = [ship EXCEPT !.due = FALSE, !.pending = {}] /\ UNCHANGED <<asked, up>>
             ELSE \E batch \in Batches(rows) :
                    /\ sendBatch(batch)
                    /\ ship' = [ship EXCEPT !.due = FALSE, !.inflight = TRUE,
                                            !.pending = @ \ batch]
                    /\ UNCHANGED asked
  /\ UNCHANGED <<port, down, desk, losses, blurred>> /\ UNCHANGED logVars

\* The read of a window fails: nothing asks for it again before the next row or
\* the next connection.
loadFails ==
  /\ asked.what = "rows" /\ losses < MaxLosses /\ losses' = losses + 1
  /\ asked' = NoAsk
  /\ ship' = [ship EXCEPT !.inflight = FALSE]
  /\ Blur(TRUE)
  /\ UNCHANGED <<port, up, down, desk>> /\ UNCHANGED logVars

-----------------------------------------------------------------------------
\* The desktop.  A maximum below its cursor is a log that was cleared.
regressed(max) == max < desk.cursor

handshakePeerLog ==
  LET wiped == [cursor |-> 0, rows |-> {}, trimmed |-> 0]
  IN /\ desk' = IF regressed(Head(up).max) THEN wiped ELSE desk
     /\ down' = Append(down, [op |-> "log-cursor", upTo |-> desk'.cursor])
     /\ UNCHANGED <<losses, blurred>>

\* One row more than the oldest quarter goes when the copy is too large.
trimIfOversized(d) ==
  LET keep == (Cardinality(d.rows) * 3) \div 4
      oldest == d.rows \ Newest(d.rows, keep - 1)
  IN {d} \cup (IF keep = 0 \/ d.trimmed > 0 THEN {}
               ELSE {[d EXCEPT !.rows = @ \ oldest, !.trimmed = MaxSeq(oldest)]})

\* Rows at or below the cursor are resends.
appendPeerLog ==
  LET news == {r \in Head(up).events : r.seq > desk.cursor}
      high == MaxSeq(news)
      grown == IF news = {} THEN desk
               ELSE [desk EXCEPT !.rows = @ \cup news, !.cursor = high]
  IN /\ desk' \in trimIfOversized(grown)
     /\ down' = Append(down, [op |-> "log-ack", upTo |-> grown.cursor])
     /\ UNCHANGED <<losses, blurred>>

\* A batch is refused: the disk is full, the database locked.
refuse ==
  /\ losses < MaxLosses /\ losses' = losses + 1
  /\ down' = Append(down, [op |-> "log-error"])
  /\ Blur(TRUE)
  /\ UNCHANGED desk

DeskStep ==
  /\ up # <<>> /\ up' = Tail(up)
  /\ \/ Head(up).op = "log-handshake" /\ handshakePeerLog
     \/ Head(up).op = "log-batch" /\ (appendPeerLog \/ refuse)
  /\ UNCHANGED <<port, asked, ship>> /\ UNCHANGED logVars

-----------------------------------------------------------------------------
\* What the desktop answers.
\* Mutant: the rest waits for the next row.
Acked_NoPump(c, upTo) ==
  [c EXCEPT !.inflight = FALSE, !.cursor = upTo, !.pending = {p \in @ : p.seq > upTo}]
Acked(c, upTo) ==
  [c EXCEPT !.inflight = FALSE, !.due = TRUE, !.cursor = upTo,
            !.pending = {p \in @ : p.seq > upTo}]
\* Mutant: a new connection goes on with the live rows.
onCursor_NoBackfill(c, upTo) == [Acked(c, upTo) EXCEPT !.ready = TRUE, !.backfill = FALSE]
onCursor(c, upTo) == [Acked(c, upTo) EXCEPT !.ready = TRUE, !.backfill = TRUE]

handleControl ==
  /\ down # <<>> /\ down' = Tail(down)
  /\ LET control == Head(down)
     IN ship' = CASE control.op = "log-cursor" -> onCursor(ship, control.upTo)
                  [] control.op = "log-ack" ->
                       Acked(ship, IF control.upTo > ship.cursor THEN control.upTo ELSE ship.cursor)
                  [] control.op = "log-error" -> [ship EXCEPT !.inflight = FALSE]
  /\ UNCHANGED <<port, asked, up, desk, losses, blurred>> /\ UNCHANGED logVars

Worker == \E s \in Session :
            LogRow(s) \/ TurnEndRow(s) \/ FlushRows(s) \/ SilentRow(s) \/ OtherStep(s)
Stream == Answer \/ Hear \/ pump \/ DeskStep \/ handleControl

PeerNext == Worker \/ PageReload \/ Stream \/ attachLogStream \/ loseConnection \/ loadFails

\* The database gets to its tasks, the port and the channel deliver, and a lost
\* connection comes back; no one has to type.
PeerSpec ==
  /\ PeerInit /\ [][PeerNext]_vars
  /\ WF_vars(Stream) /\ WF_vars(attachLogStream)
  /\ \A s \in Session : WF_vars(FlushRows(s)) /\ WF_vars(TurnEndRow(s))
                          /\ WF_vars(OtherStep(s))

-----------------------------------------------------------------------------
\* The copy has no hole: every row of the table up to the cursor is there under
\* its own number, but for what the desktop trimmed.
Complete ==
  ~blurred =>
    \A c \in calls : c.seq <= desk.cursor /\ c.seq > desk.trimmed => c \in desk.rows

\* "Rows logged while the desktop was offline still land": the same without the
\* exception. It does not hold when a connection comes up between the log of a
\* row and its flush.
CompleteAlways ==
  \A c \in calls : c.seq <= desk.cursor /\ c.seq > desk.trimmed => c \in desk.rows

\* The same of markers alone, "a calls row like any engine event". It does not
\* hold of two chats: a marker is posted when the queue of the database is done
\* with it, and a row that another chat logs meanwhile is posted before it.
MarkersLand ==
  \A s \in Session : \A c \in MarkersOf(calls, s) :
    c.seq <= desk.cursor /\ c.seq > desk.trimmed => c \in desk.rows

\* The tab never resumes above what the desktop holds, or the rows in between
\* would reach it no more.
AckedIsHeld == ship.ready => ship.cursor <= desk.cursor

\* In the end every row is on the desktop, whatever connection was lost when.
Lands ==
  <>[](blurred \/ \A c \in calls : c.seq <= desk.trimmed \/ c \in desk.rows)
=============================================================================
