------------------------------- MODULE DbSync -------------------------------
(***************************************************************************)
(* One app database and its text dump on one replica (web/src/db-sync.ts): *)
(* the writes that mark it dirty, the flush that dumps it, the dumps that  *)
(* peers put in the place of ours, and the replay of such a dump into the  *)
(* database, which the agent worker starts one at a time and never in a    *)
(* turn (web/src/agent/agent-worker.ts).  Every await is a point where the *)
(* others may run; the worker and the main thread both flush.              *)
(*                                                                         *)
(* A content of the database is a number and stands for its dump and for   *)
(* the hash of it; 0 is no database, no dump, no hash.                     *)
(***************************************************************************)
EXTENDS Naturals, Sequences

CONSTANTS Flusher,       \* the callers of flushDirtyDumps
          MaxWrites,     \* bound on the statements that change the database
          MaxDeliveries, \* bound on the dumps that arrive
          MaxUpsets      \* bound on the reloads and the replays that throw

ASSUME DbAssumption == MaxWrites \in Nat /\ MaxDeliveries \in Nat /\ MaxUpsets \in Nat

VARIABLES db,       \* <name>.db
          dump,     \* db/<name>.db.sql
          mark,     \* the name is listed in logs/scratch/db-dirty
          base,     \* the name's hash in logs/scratch/db-baseline.json
          timer,    \* the debounced flush is scheduled
          turn,     \* activeStop: a turn is running
          writer,   \* the turn's statement
          flush,    \* what each flush is at, and the dump it holds
          apply,    \* the replay that is running
          queue,    \* dbApplyChain: the replays asked for
          pending,  \* pendingDbApply: the replay a turn deferred
          next, delivered, upsets,  \* fresh contents, counters
          shared,   \* history: the contents that have been in the dump file
          blurred,  \* history: a change lost its mark (see Settles)
          crossed,  \* history: a waiting replay was overtaken (see RefusesOnlyChanges)
          conflict  \* history: what the last replay was refused over

files   == <<db, dump, mark, base>>
work    == <<timer, turn, writer, flush, apply, queue, pending>>
bounds  == <<next, delivered, upsets>>
history == <<shared, blurred, crossed, conflict>>
vars    == <<files, work, bounds, history>>

Content  == Nat
Request  == [clean : BOOLEAN, previous : Content]
NoApply  == [at |-> "idle", clean |-> FALSE, expected |-> 0, committed |-> 0, current |-> 0]
NoFlush  == [at |-> "idle", text |-> 0]
Nothing  == [on |-> FALSE, clean |-> FALSE, previous |-> 0]

FlushAt  == {"idle", "dump", "write", "clear", "baseline"}
ApplyAt  == {"idle", "check", "exec", "clear", "baseline"}

(* Every component of the state keeps its shape.                            *)
TypeOK ==
  /\ {db, dump, base} \cup shared \subseteq Content
  /\ {mark, timer, turn, blurred, crossed} \subseteq BOOLEAN
  /\ writer \in {"idle", "premark", "write", "write only", "mark"}
  /\ flush \in [Flusher -> [at : FlushAt, text : Content]]
  /\ apply \in [at : ApplyAt, clean : BOOLEAN, expected : Content, committed : Content,
                current : Content]
  /\ queue \in Seq(Request)
  /\ pending \in [on : BOOLEAN, clean : BOOLEAN, previous : Content]
  /\ next \in Nat /\ delivered \in Nat /\ upsets \in Nat
  /\ conflict \in {"none", "a dump", "changes"}

(* The boot's replay, for a database that is missing (onlyMissing).         *)
OnlyMissing == IF db = 0 THEN <<[clean |-> FALSE, previous |-> 0]>> ELSE <<>>

(* A replica in step with its dump, one from before baselines, or one that  *)
(* has the dump and no database yet.                                        *)
Init ==
  /\ db \in {0, 1} /\ dump = 1 /\ mark = FALSE /\ base \in {0, db}
  /\ timer = FALSE /\ turn = FALSE /\ writer = "idle"
  /\ flush = [f \in Flusher |-> NoFlush] /\ apply = NoApply
  /\ queue = OnlyMissing /\ pending = Nothing
  /\ next = 2 /\ delivered = 0 /\ upsets = 0
  /\ shared = {1} /\ blurred = FALSE /\ crossed = FALSE /\ conflict = "none"

-----------------------------------------------------------------------------
(* A turn, and the replay that waited for its end: asked for again, it      *)
(* begins before the worker takes the next message, unless one is running.  *)
(* A turn that begins meanwhile defers what waits behind the running one.   *)
TurnStart ==
  /\ ~turn /\ (queue # <<>> => apply.at # "idle")
  /\ next <= MaxWrites + MaxDeliveries + 1
  /\ turn' = TRUE
  /\ crossed' = (crossed \/ queue # <<>>)
  /\ UNCHANGED <<files, timer, writer, flush, apply, queue, pending, bounds,
                 shared, blurred, conflict>>

TurnEnd ==
  /\ turn /\ writer = "idle"
  /\ turn' = FALSE
  /\ queue' = IF pending.on
              THEN Append(queue, [clean |-> pending.clean, previous |-> pending.previous])
              ELSE queue
  /\ pending' = Nothing
  /\ UNCHANGED <<files, timer, writer, flush, apply, bounds, history>>

(* App code (AppStore) marks after it writes, the SQL tool before; a        *)
(* statement of the tool that returns no rows is marked after as well, and  *)
(* goes with the first kind.                                                *)
Statement ==
  /\ turn /\ writer = "idle" /\ next <= MaxWrites + delivered + 1
  /\ writer' \in {"premark", "write"}
  /\ UNCHANGED <<files, timer, turn, flush, apply, queue, pending, bounds, history>>

(* scheduleDatabaseDump                                                     *)
(* Mutant: only a name that was not listed schedules a flush.               *)
Scheduled_New == timer \/ ~mark

Scheduled == TRUE

(* markDatabaseDirty                                                        *)
MarkDatabaseDirty ==
  /\ writer \in {"premark", "mark"}
  /\ mark' = TRUE /\ timer' = Scheduled
  /\ \/ writer = "mark" /\ writer' = "idle"
     \/ writer = "premark" /\ writer' = "write only"
  /\ UNCHANGED <<db, dump, base, turn, flush, apply, queue, pending, bounds, history>>

(* The statement is run and the image stored.                               *)
Write ==
  /\ writer \in {"write", "write only"}
  /\ db' = next /\ next' = next + 1
  /\ writer' = IF writer = "write" THEN "mark" ELSE "idle"
  /\ blurred' = (blurred \/ (writer = "write only" /\ ~(mark /\ timer)))
  /\ UNCHANGED <<dump, mark, base, timer, turn, flush, apply, queue, pending,
                 delivered, upsets, shared, crossed, conflict>>

-----------------------------------------------------------------------------
(* flushDirtyDumps, called by the timer, or by a file tool or a git commit. *)
TimerFires(f) ==
  /\ timer /\ flush[f].at = "idle"
  /\ timer' = FALSE
  /\ flush' = IF mark /\ db # 0 THEN [flush EXCEPT ![f].at = "dump"] ELSE flush
  /\ UNCHANGED <<files, turn, writer, apply, queue, pending, bounds, history>>

FlushAsked(f) ==
  /\ flush[f].at = "idle" /\ db # 0 /\ mark
  /\ flush' = [flush EXCEPT ![f].at = "dump"]
  /\ UNCHANGED <<files, timer, turn, writer, apply, queue, pending, bounds, history>>

DumpDatabase(f) ==
  /\ flush[f].at = "dump"
  /\ flush' = [flush EXCEPT ![f] = [at |-> "write", text |-> db]]
  /\ UNCHANGED <<files, timer, turn, writer, apply, queue, pending, bounds, history>>

(* A dump written while a delivered one waits to be replayed replaces it,   *)
(* and so does one taken before the replay and written after it.            *)
Waiting == pending.on \/ queue # <<>> \/ apply.at # "idle"

WriteDump(f) ==
  /\ flush[f].at = "write"
  /\ dump' = flush[f].text
  /\ shared' = shared \cup {flush[f].text}
  /\ flush' = [flush EXCEPT ![f].at = "clear"]
  /\ crossed' = (crossed \/ Waiting \/ (db # flush[f].text /\ db \in shared))
  /\ UNCHANGED <<db, mark, base, timer, turn, writer, apply, queue, pending, bounds,
                 blurred, conflict>>

(* clearDirty: the mark goes whatever was written since the dump.           *)
ClearDirty(f) ==
  /\ flush[f].at = "clear"
  /\ mark' = FALSE
  /\ blurred' = (blurred \/ (db # dump /\ writer # "mark"))
  /\ flush' = [flush EXCEPT ![f].at = "baseline"]
  /\ UNCHANGED <<db, dump, base, timer, turn, writer, apply, queue, pending, bounds,
                 shared, crossed, conflict>>

(* The baseline is the hash of the text that was written.                   *)
Baseline(f) == flush[f].text

RecordBaseline(f) ==
  /\ flush[f].at = "baseline"
  /\ base' = Baseline(f)
  /\ flush' = [flush EXCEPT ![f] = NoFlush]
  /\ UNCHANGED <<db, dump, mark, timer, turn, writer, apply, queue, pending, bounds, history>>

-----------------------------------------------------------------------------
(* A peer's dump replaces ours, and the host is told what it replaced.      *)
Deliver ==
  /\ delivered < MaxDeliveries
  /\ dump' = next /\ next' = next + 1 /\ delivered' = delivered + 1
  /\ shared' = shared \cup {next}
  /\ queue' = Append(queue, [clean |-> TRUE, previous |-> dump])
  /\ crossed' = (crossed \/ apply.at # "idle" \/ (\E f \in Flusher : flush[f].at # "idle")
                   \/ \E i \in DOMAIN queue : ~queue[i].clean)
  /\ UNCHANGED <<db, mark, base, timer, turn, writer, flush, apply, pending, upsets,
                 blurred, conflict>>

(* Of two deferred deliveries the earliest says what the database matched.  *)
(* Mutant: the latest.                                                      *)
Earliest_Latest(request) ==
  IF request.previous # 0 THEN request.previous ELSE pending.previous

Earliest(request) ==
  IF pending.previous # 0 THEN pending.previous ELSE request.previous

(* queueDatabaseApply: during a turn the replay is deferred; else it reads  *)
(* the baseline and then the dump.                                          *)
StartApply ==
  /\ queue # <<>> /\ apply.at = "idle"
  /\ LET request == Head(queue) IN
       \/ /\ turn
          /\ pending' = [on |-> TRUE, clean |-> pending.clean \/ request.clean,
                         previous |-> Earliest(request)]
          /\ UNCHANGED apply
       \/ /\ ~turn
          /\ apply' = [NoApply EXCEPT !.at = "check", !.clean = request.clean,
                                      !.expected = IF request.previous # 0
                                                   THEN request.previous ELSE base,
                                      !.committed = dump]
          /\ UNCHANGED pending
  /\ queue' = Tail(queue)
  /\ UNCHANGED <<files, timer, turn, writer, flush, bounds, history>>

(* The database may be replaced when nothing is in it that the dump lacks.  *)
(* Mutant: whenever the dump came from a peer.                              *)
Replaceable_Any == db = 0 \/ apply.clean

Replaceable == db = 0 \/ (apply.clean /\ apply.expected = db)

(* applyDatabaseDumps, up to the decision.                                  *)
CheckApply ==
  /\ apply.at = "check"
  /\ \/ /\ db # 0 /\ db = apply.committed          \* unchanged
        /\ apply' = [NoApply EXCEPT !.at = "baseline", !.committed = db]
        /\ conflict' = "none"
     \/ /\ db # apply.committed /\ Replaceable
        /\ apply' = [NoApply EXCEPT !.at = "exec", !.committed = apply.committed, !.current = db]
        /\ conflict' = "none"
     \/ /\ db # apply.committed /\ ~Replaceable
        /\ apply' = NoApply
        /\ conflict' = IF apply.clean /\ db \in shared THEN "a dump" ELSE "changes"
  /\ UNCHANGED <<files, timer, turn, writer, flush, queue, pending, bounds,
                 shared, blurred, crossed>>

(* The replay, which may throw and then leaves the database as it was.  The *)
(* store it goes through marks the database, as for any statement.          *)
ExecDump ==
  /\ apply.at = "exec"
  /\ db' = apply.committed
  /\ mark' = TRUE /\ timer' = Scheduled
  /\ apply' = [apply EXCEPT !.at = "clear", !.current = 0]
  /\ UNCHANGED <<dump, base, turn, writer, flush, queue, pending, bounds, history>>

ExecThrows ==
  /\ apply.at = "exec" /\ upsets < MaxUpsets
  /\ apply' = NoApply
  /\ upsets' = upsets + 1 /\ blurred' = TRUE /\ crossed' = TRUE
  /\ UNCHANGED <<files, timer, turn, writer, flush, queue, pending, next, delivered,
                 shared, conflict>>

ClearApplied ==
  /\ apply.at = "clear"
  /\ mark' = FALSE
  /\ blurred' = (blurred \/ (db # dump /\ writer # "mark"))
  /\ apply' = [apply EXCEPT !.at = "baseline"]
  /\ UNCHANGED <<db, dump, base, timer, turn, writer, flush, queue, pending, bounds,
                 shared, crossed, conflict>>

RecordApplied ==
  /\ apply.at = "baseline"
  /\ base' = apply.committed
  /\ apply' = NoApply
  /\ UNCHANGED <<db, dump, mark, timer, turn, writer, flush, queue, pending, bounds, history>>

(* A reload: what was in memory is gone, and nothing flushes or replays at  *)
(* the next boot (a database that is missing is made from its dump).        *)
Reload ==
  /\ upsets < MaxUpsets
  /\ upsets' = upsets + 1
  /\ timer' = FALSE /\ turn' = FALSE /\ writer' = "idle"
  /\ flush' = [f \in Flusher |-> NoFlush] /\ apply' = NoApply
  /\ queue' = OnlyMissing
  /\ pending' = Nothing
  /\ blurred' = (blurred \/ db # dump)
  /\ crossed' = (crossed \/ Waiting)
  /\ UNCHANGED <<files, next, delivered, shared, conflict>>

-----------------------------------------------------------------------------
FlushStep(f) == DumpDatabase(f) \/ WriteDump(f) \/ ClearDirty(f) \/ RecordBaseline(f)
ApplyStep    == StartApply \/ CheckApply \/ ExecDump \/ ClearApplied \/ RecordApplied
WriterStep   == MarkDatabaseDirty \/ Write

Next == \/ TurnStart \/ TurnEnd \/ Statement \/ WriterStep
        \/ \E f \in Flusher : TimerFires(f) \/ FlushAsked(f) \/ FlushStep(f)
        \/ Deliver \/ ApplyStep \/ ExecThrows \/ Reload

(* Turns end, statements and replays run to their end, the timer fires;     *)
(* nobody is bound to ask for a flush.                                      *)
Fairness == /\ WF_vars(WriterStep) /\ WF_vars(TurnEnd) /\ WF_vars(ApplyStep)
            /\ \A f \in Flusher : WF_vars(FlushStep(f)) /\ WF_vars(TimerFires(f))

Spec == Init /\ [][Next]_vars /\ Fairness

-----------------------------------------------------------------------------
(***************************************************************************)
(* "apply refuses to clobber a DB with local changes the dump doesn't      *)
(* have" (db-sync.ts:17): what a replay replaces has been in the dump file.*)
(* Excused is a statement run between the check and the replay, by a turn  *)
(* that began in between.                                                  *)
(***************************************************************************)
NeverClobbers ==
  [][ExecDump => db \in shared \cup {0} \/ db # apply.current]_vars

(***************************************************************************)
(* A peer's dump stays refused only over changes no dump has:              *)
(* the hash a deferred replay carries is that of the content the database  *)
(* has.  Excused: the dump file changed by a flush while a replay waited,   *)
(* or by a delivery during a replay, a flush or the boot's own replay; a   *)
(* turn that began while replays waited behind the one that ran, which read *)
(* their dump as well, so that the hash they carry is an old one; a replay  *)
(* that a reload or an error dropped.                                       *)
(***************************************************************************)
RefusesOnlyChanges ==
  ~Waiting /\ ~crossed => conflict # "a dump"

(***************************************************************************)
(* "The local DB matches the OLDEST un-applied delivery's previous image"  *)
(* (agent-worker.ts:128), so that the earliest hash is the one to keep.    *)
(* It does not hold: a replay that was asked for while another waited to   *)
(* read the file is deferred with the hash of a dump that nothing has any   *)
(* more, and a later delivery with the right hash is merged behind it.     *)
(***************************************************************************)
EarliestMatches ==
  pending.on /\ pending.clean /\ db \in shared \ {dump} => pending.previous = db

(***************************************************************************)
(* "The local DB still matches its baseline" (db-sync.ts:413): such a      *)
(* database takes a peer's dump.  It does not hold: the hash of a dump that *)
(* was replaced takes precedence over the baseline.                        *)
(***************************************************************************)
CleanIsTaken ==
  [][CheckApply /\ conflict' # "none" /\ apply.clean => db # base]_vars

(***************************************************************************)
(* In the end the database and its dump say the same, whoever wrote last,  *)
(* unless a replay was refused or a change lost its mark: cleared after a  *)
(* write the dump did not see, never set because the statement came after  *)
(* the flush that its own mark caused, or set with its timer lost in a     *)
(* reload.                                                                  *)
(***************************************************************************)
Settles == <>[](db = dump \/ conflict # "none" \/ blurred)

=============================================================================
