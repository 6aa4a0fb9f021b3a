------------------------------ MODULE SyncEngine ------------------------------
(***************************************************************************)
(* Peer-to-peer workspace sync (class SyncEngine, web/src/sync/engine.ts). *)
(*                                                                         *)
(* Every replica keeps a workspace and a journal.  A round sends a map     *)
(* (hashes, stamps, tombstones); the receiver decides what it lost or      *)
(* lacks (module Reconcile) and pulls those files one at a time.  Requests *)
(* and answers are handled as they arrive, maps queue behind the envelope  *)
(* being applied.  Users edit the workspace at the same time; a replica    *)
(* may crash, a connection may drop, a pull may time out.                  *)
(*                                                                         *)
(* A replica is its rank among the replica ids, a content a number: every  *)
(* edit makes a new one, so a content tells which edit it comes from.      *)
(***************************************************************************)
EXTENDS Reconcile, Sequences, FiniteSets

CONSTANTS
  Replica,          \* the replicas, numbered in the order of their ids
  Link,             \* the two-element sets of replicas that may connect
  MTime,            \* file times an adapter reports (0: it reports none)
  Seed,             \* the contents 1..Seed may be on disk at the start
  MaxContent,       \* bound: contents, seeds and edits together
  Empty,            \* the contents that are empty files
  MaxClock,         \* bound: no conflict copy is stamped above it
  WireCap,          \* bound: no map is sent on top of as many waiting ones
  MaxDrops, MaxCrashes, MaxTimeouts,   \* bounds: faults of each kind
  EditOnline,       \* may users edit while a round may be running?
  CanDelete,        \* may users delete files?
  SameSecond        \* may two conflict copies of a path share a name?

ASSUME ReplicaAssumption == Replica \subseteq Nat /\ Replica # {}
ASSUME LinkAssumption == \A l \in Link : l \subseteq Replica /\ Cardinality(l) = 2
ASSUME DataAssumption ==
  /\ MTime \subseteq Nat /\ MTime # {}
  /\ Seed \in Nat /\ MaxContent \in Nat /\ Seed <= MaxContent
  /\ Empty \subseteq 1 .. MaxContent
ASSUME KnobAssumption == {EditOnline, CanDelete, SameSecond} \subseteq BOOLEAN

File == 0 .. MaxContent
Content == File \ {NoFile}

Stamps == Nat
Map == [hash : [Path -> File], mtime : [Path -> Nat],
        lamport : [Path -> Stamps], deletes : [Path -> Stamps \cup {NoTomb}]]

(* Where the drain of a replica is: between two pulls, with a request or   *)
(* its answer in flight, or applying the bytes an answer brought.          *)
Phase == {"idle", "pulling", "asked", "told", "write", "note"}

NoMap == [hash |-> [p \in Path |-> NoFile], mtime |-> [p \in Path |-> 0],
          lamport |-> [p \in Path |-> 0], deletes |-> [p \in Path |-> NoTomb]]

VARIABLES
  disk,     \* replica -> path -> content of the workspace file
  mtime,    \* replica -> path -> the time its adapter reports
  copies,   \* replica -> path -> contents kept in conflict copies
  journal,  \* replica -> the journal in memory
  saved,    \* replica -> the journal on disk
  dirty,    \* replica -> paths a user changed and noteMutation has not seen
  timer,    \* replica -> the pendingReconcile timer, as the set of the peers
            \*            it will tell ({}: no timer, {Replica}: every peer)
  due,      \* replica -> peers reconcile() still owes a map
  inbox,    \* replica -> peer -> its maps, in flight or behind the drain
  job,      \* replica -> the envelope being applied
  up,       \* the links that are connected
  made,     \* the last content made
  retired,  \* history: contents a user overwrote or deleted knowingly
  unread,   \* history: contents a pull overwrote without having read them
  faults    \* drops, crashes and timeouts so far

storage == <<disk, mtime, copies, journal, saved>>
channel == <<due, inbox, up>>
ghosts == <<made, retired, unread, faults>>
vars == <<storage, dirty, timer, channel, job, ghosts>>

Idle == [phase |-> "idle", peer |-> CHOOSE r \in Replica : TRUE, live |-> FALSE,
         map |-> NoMap, reply |-> FALSE, conflicted |-> FALSE, todo |-> {}, path |-> CHOOSE p \in Path : TRUE,
         data |-> NoFile, lamport |-> 0, local |-> NoFile]

Job == [phase : Phase, peer : Replica, live : BOOLEAN, map : Map, reply : BOOLEAN,
        conflicted : BOOLEAN, todo : SUBSET Path, path : Path, data : File,
        lamport : Stamps, local : File]

Letter == [live : BOOLEAN, map : Map, reply : BOOLEAN]

NoFaults == [drop |-> 0, crash |-> 0, timeout |-> 0]

connected(r, s) == {r, s} \in up

(* The pull of a job is over: the next one may start.                      *)
Settled(b) == [b EXCEPT !.phase = "pulling", !.data = NoFile, !.lamport = 0, !.local = NoFile]

-----------------------------------------------------------------------------
(* Initially the replicas hold arbitrary seeds that no journal knows (a    *)
(* fresh profile, or a workspace older than its journal), disconnected; a  *)
(* file that is not there has no time.                                     *)
Init ==
  /\ disk \in [Replica -> [Path -> 0 .. Seed]]
  /\ mtime \in [Replica -> [Path -> {0} \cup MTime]]
  /\ \A r \in Replica, p \in Path : mtime[r][p] \in IF disk[r][p] = NoFile THEN {0} ELSE MTime
  /\ copies = [r \in Replica |-> [p \in Path |-> {}]]
  /\ journal = [r \in Replica |-> EmptyJournal]
  /\ saved = journal
  /\ dirty = [r \in Replica |-> {}]
  /\ timer = [r \in Replica |-> {}]
  /\ due = [r \in Replica |-> {}]
  /\ inbox = [r \in Replica |-> [s \in Replica |-> <<>>]]
  /\ job = [r \in Replica |-> Idle]
  /\ up = {}
  /\ made = Seed
  /\ retired = {} /\ unread = {}
  /\ faults = NoFaults

-----------------------------------------------------------------------------
(* Users.  A tool commits bytes first and calls noteMutation afterwards.   *)

Editable(r) ==
  \/ EditOnline
  \/ /\ \A s \in Replica : ~connected(r, s)
     /\ job[r].phase = "idle"

UserWrite(r, p) ==
  /\ Editable(r)
  /\ made < MaxContent
  /\ made' = made + 1
  /\ disk' = [disk EXCEPT ![r][p] = made']
  /\ \E t \in MTime : mtime' = [mtime EXCEPT ![r][p] = t]
  /\ dirty' = [dirty EXCEPT ![r] = @ \cup {p}]
  /\ retired' = retired \cup {disk[r][p]}
  /\ UNCHANGED <<copies, journal, saved, timer, channel, job, unread, faults>>

UserDelete(r, p) ==
  /\ CanDelete
  /\ Editable(r)
  /\ disk[r][p] # NoFile
  /\ disk' = [disk EXCEPT ![r][p] = NoFile]
  /\ dirty' = [dirty EXCEPT ![r] = @ \cup {p}]
  /\ retired' = retired \cup {disk[r][p]}
  /\ UNCHANGED <<mtime, copies, journal, saved, timer, channel, job, made, unread, faults>>

(* noteMutation: journal what the disk holds now, then make sure a timer   *)
(* is pending.  A pending timer, whoever it tells, is taken as enough.     *)
ArmTimer(r, peers) ==
  timer' = [timer EXCEPT ![r] = IF @ = {} THEN {peers} ELSE @]

NoteMutation(r, p) ==
  /\ p \in dirty[r]
  /\ dirty' = [dirty EXCEPT ![r] = @ \ {p}]
  /\ journal' = [journal EXCEPT ![r] = recordOp(@, p, disk[r][p])]
  /\ ArmTimer(r, Replica)
  /\ UNCHANGED <<disk, mtime, copies, saved, channel, job, ghosts>>

(* The timer fires: reconcile() owes every connected target a map.         *)
FireTimer(r) ==
  \E peers \in timer[r] :
    /\ timer' = [timer EXCEPT ![r] = {}]
    /\ due' = [due EXCEPT ![r] = @ \cup {s \in peers : connected(r, s)}]
    /\ UNCHANGED <<storage, dirty, inbox, up, job, ghosts>>

-----------------------------------------------------------------------------
(* Rounds.                                                                 *)

(* The hashes and the stamps of a map are taken at one moment.  The source *)
(* reads the files one after another and the stamps after them (myMap): a  *)
(* hash may be older than its stamp.  Such an entry pulls nothing, because *)
(* the bytes of an answer are compared with the hash (stale), and what     *)
(* changed the file meanwhile, or the conflict, arms another round.        *)
MyMap(r) == myMap(disk[r], mtime[r], journal[r])

(* A map r sends to s queues with those of r that s has not applied yet:   *)
(* maps are applied in the order of arrival, which no two peers agree on.  *)
Send(r, s, isReply) ==
  inbox' = [inbox EXCEPT ![s][r] =
              Append(@, [live |-> TRUE, map |-> MyMap(r), reply |-> isReply])]

SendMap(r, s) ==
  /\ s \in due[r]
  /\ connected(r, s)
  /\ Len(inbox[s][r]) < WireCap
  /\ due' = [due EXCEPT ![r] = @ \ {s}]
  /\ Send(r, s, FALSE)
  /\ UNCHANGED <<storage, dirty, timer, up, job, ghosts>>

-----------------------------------------------------------------------------
(* The drain: one queued map at a time (onEnvelope, applyDifference).      *)

stampsOf(j, theirs) == {j.clock} \cup {theirs.lamport[p] : p \in Path}

StartEnvelope(r, s) ==
  /\ job[r].phase = "idle"
  /\ inbox[r][s] # <<>>
  /\ LET letter == Head(inbox[r][s])
     IN  /\ job' = [job EXCEPT ![r] =
               [Idle EXCEPT !.phase = "pulling", !.peer = s, !.live = letter.live,
                            !.map = letter.map, !.reply = letter.reply,
                            !.todo = pullSet(journal[r], MyMap(r), letter.map, r, s),
                            !.conflicted = conflictSet(MyMap(r), letter.map) # {}]]
         /\ \E high \in stampsOf(journal[r], letter.map) :
              /\ \A l \in stampsOf(journal[r], letter.map) : l <= high
              /\ journal' = [journal EXCEPT ![r] = [@ EXCEPT !.clock = high]]
  /\ inbox' = [inbox EXCEPT ![r][s] = Tail(@)]
  /\ UNCHANGED <<disk, mtime, copies, saved, dirty, timer, due, up, ghosts>>

(* One pull at a time.  A request is answered as soon as it arrives and its *)
(* answer resolves the pull as soon as it returns, whatever queues around  *)
(* them, so both are in flight in the job of the requester.                *)
RequestPull(r) ==
  /\ job[r].phase = "pulling"
  /\ \E p \in job[r].todo :
       job' = [job EXCEPT ![r] =
                 [@ EXCEPT !.phase = IF job[r].live THEN "asked" ELSE "pulling",
                           !.path = p, !.todo = job[r].todo \ {p}]]
  /\ UNCHANGED <<storage, dirty, timer, channel, ghosts>>

(* answerFile on the peer s of r: what its disk holds now, and its stamp;  *)
(* no bytes stand for a missing file.                                      *)
answerFile(s, r) ==
  LET p == job[r].path
      bytes == IF disk[s][p] \in Empty THEN NoFile ELSE disk[s][p]
  IN  /\ job[r].phase = "asked" /\ job[r].peer = s /\ job[r].live
      /\ job' = [job EXCEPT ![r] = [@ EXCEPT !.phase = "told", !.data = bytes,
                                            !.lamport = lamportFor(journal[s], p)]]
      /\ UNCHANGED <<storage, dirty, timer, channel, ghosts>>

(* No answer in 15 s: the pull is skipped and a late answer finds no       *)
(* pending token.  On a closed connection no answer can come.              *)
PullTimeout(r) ==
  /\ job[r].phase \in {"asked", "told"}
  /\ IF job[r].live
       THEN /\ faults.timeout < MaxTimeouts
            /\ faults' = [faults EXCEPT !.timeout = @ + 1]
       ELSE UNCHANGED faults
  /\ job' = [job EXCEPT ![r] = Settled(@)]
  /\ UNCHANGED <<storage, dirty, timer, channel, made, retired, unread>>

answered(r) == job[r].phase = "told" /\ job[r].live

(* Mutant: the file goes and the journal does not learn of it.             *)
applyRemoteDelete_Unjournaled(r) ==
  /\ answered(r)
  /\ job[r].data = NoFile
  /\ disk' = [disk EXCEPT ![r][job[r].path] = NoFile]
  /\ job' = [job EXCEPT ![r] = Settled(@)]
  /\ UNCHANGED <<mtime, copies, journal, saved, dirty, timer, channel, ghosts>>

(* An answer without bytes is a tombstone (applyRemoteDelete).             *)
applyRemoteDelete(r) ==
  LET p == job[r].path
  IN  /\ answered(r)
      /\ job[r].data = NoFile
      /\ disk' = [disk EXCEPT ![r][p] = NoFile]
      /\ journal' = [journal EXCEPT ![r] = recordRemoteOp(@, p, NoFile, job[r].lamport)]
      /\ job' = [job EXCEPT ![r] = Settled(@)]
      /\ UNCHANGED <<mtime, copies, saved, dirty, timer, channel, ghosts>>

(* Mutant: the bytes are compared with the local file.                     *)
stale_Local(r) == /\ job[r].map.hash[job[r].path] # NoFile
                  /\ disk[r][job[r].path] # job[r].data

(* Bytes that are not what the peer's map advertised are discarded.        *)
stale(r) == /\ job[r].map.hash[job[r].path] # NoFile
            /\ job[r].map.hash[job[r].path] # job[r].data

DiscardAnswer(r) ==
  /\ answered(r)
  /\ job[r].data # NoFile
  /\ stale(r)
  /\ job' = [job EXCEPT ![r] = Settled(@)]
  /\ UNCHANGED <<storage, dirty, timer, channel, ghosts>>

(* applyRemoteWrite reads the local bytes, ...                             *)
PullRead(r) ==
  /\ answered(r)
  /\ job[r].data # NoFile
  /\ ~stale(r)
  /\ job' = [job EXCEPT ![r] = [@ EXCEPT !.phase = "write", !.local = disk[r][job[r].path]]]
  /\ UNCHANGED <<storage, dirty, timer, channel, ghosts>>

(* ... keeps those it read in a conflict copy and overwrites the file, ... *)
KeepCopy(r, p, c) ==
  /\ journal[r].clock < MaxClock
  /\ journal' = [journal EXCEPT ![r] = recordCopy(@)]
  /\ \E lost \in {{}} \cup (IF SameSecond THEN {{x} : x \in copies[r][p]} ELSE {}) :
       copies' = [copies EXCEPT ![r][p] = (@ \ lost) \cup {c}]

(* Mutant: the copy is made of the bytes that arrive.                      *)
PullWrite_CopiesWinner(r) ==
  LET p == job[r].path
  IN  /\ job[r].phase = "write"
      /\ KeepCopy(r, p, job[r].data)
      /\ disk' = [disk EXCEPT ![r][p] = job[r].data]
      /\ job' = [job EXCEPT ![r] = [@ EXCEPT !.phase = "note"]]
      /\ unread' = unread \cup ({disk[r][p]} \ {job[r].local})
      /\ UNCHANGED <<mtime, saved, dirty, timer, channel, made, retired, faults>>

PullWrite(r) ==
  LET p == job[r].path
      c == job[r].local
  IN  /\ job[r].phase = "write"
      /\ IF c # NoFile /\ c # job[r].data
           THEN KeepCopy(r, p, c)
           ELSE UNCHANGED <<copies, journal>>
      /\ disk' = [disk EXCEPT ![r][p] = job[r].data]
      /\ \E t \in MTime : mtime' = [mtime EXCEPT ![r][p] = t]
      /\ job' = [job EXCEPT ![r] = [@ EXCEPT !.phase = "note"]]
      /\ unread' = unread \cup ({disk[r][p]} \ {c})
      /\ UNCHANGED <<saved, dirty, timer, channel, made, retired, faults>>

(* ... and journals the write under the stamp of its origin.               *)
PullNote(r) ==
  LET p == job[r].path
  IN  /\ job[r].phase = "note"
      /\ journal' = [journal EXCEPT ![r] = recordRemoteOp(@, p, job[r].data, job[r].lamport)]
      /\ job' = [job EXCEPT ![r] = Settled(@)]
      /\ UNCHANGED <<disk, mtime, copies, saved, dirty, timer, channel, ghosts>>

(* The round ends: a conflict arms one more round with this peer unless a  *)
(* timer is pending; the journal is saved; a map that asks is answered.    *)
Finish(r) ==
  LET s == job[r].peer
  IN  /\ job[r].phase = "pulling"
      /\ job[r].todo = {}
      /\ IF job[r].conflicted
           THEN ArmTimer(r, IF job[r].live THEN {s} ELSE {})
           ELSE UNCHANGED timer
      /\ saved' = [saved EXCEPT ![r] = journal[r]]
      /\ IF job[r].live /\ ~job[r].reply THEN Send(r, s, TRUE) ELSE UNCHANGED inbox
      /\ job' = [job EXCEPT ![r] = Idle]
      /\ UNCHANGED <<disk, mtime, copies, journal, dirty, due, up, ghosts>>

(* Journal.persist, 500 ms after an op was recorded.  Only a crash to come *)
(* reads what was saved.                                                   *)
Persist(r) ==
  /\ faults.crash < MaxCrashes
  /\ saved[r] # journal[r]
  /\ saved' = [saved EXCEPT ![r] = journal[r]]
  /\ UNCHANGED <<disk, mtime, copies, journal, dirty, timer, channel, job, ghosts>>

-----------------------------------------------------------------------------
(* Connections and crashes.                                                *)

(* attach: a new peer object on both sides, and both send a map.  A        *)
(* configuration without online edits connects workspaces that are noted.  *)
Attach(r, s) ==
  /\ {r, s} \in Link \ up
  /\ EditOnline \/ dirty[r] \cup dirty[s] = {}
  /\ up' = up \cup {{r, s}}
  /\ due' = [due EXCEPT ![r] = @ \cup {s}, ![s] = @ \cup {r}]
  /\ UNCHANGED <<storage, dirty, timer, inbox, job, ghosts>>

(* What the loss of links does: nothing stays in flight, so a replica has  *)
(* heard some first maps of a peer or none; those maps, the pull and the   *)
(* follow-up timer refer to a closed peer.                                 *)
gone(links, r) == {s \in Replica : {r, s} \in links}

Closed(letters, heard) ==
  LET kept == IF heard < Len(letters) THEN heard ELSE Len(letters)
  IN  [i \in 1 .. kept |-> [letters[i] EXCEPT !.live = FALSE]]
CloseJob(b, peers) == [b EXCEPT !.live = @ /\ b.peer \notin peers]
CloseTimer(t, peers) == {IF told = Replica THEN told ELSE told \ peers : told \in t}

Sever(links, crashed) ==
  /\ up' = up \ links
  /\ due' = [r \in Replica |-> due[r] \ gone(links, r)]
  /\ \E heard \in [Replica -> 0 .. WireCap] :
       inbox' = [r \in Replica |-> [s \in Replica |->
                   CASE r \in crashed -> <<>>
                     [] r \notin crashed /\ {r, s} \in links -> Closed(inbox[r][s], heard[r])
                     [] OTHER -> inbox[r][s]]]
  /\ job' = [r \in Replica |->
               IF r \in crashed THEN Idle ELSE CloseJob(job[r], gone(links, r))]
  /\ timer' = [r \in Replica |->
               IF r \in crashed THEN {} ELSE CloseTimer(timer[r], gone(links, r))]

Drop(r, s) ==
  /\ connected(r, s)
  /\ faults.drop < MaxDrops
  /\ faults' = [faults EXCEPT !.drop = @ + 1]
  /\ Sever({{r, s}}, {})
  /\ UNCHANGED <<storage, dirty, made, retired, unread>>

(* A crash or a closed tab: memory is lost, the journal is what was saved. *)
Crash(r) ==
  /\ faults.crash < MaxCrashes
  /\ faults' = [faults EXCEPT !.crash = @ + 1]
  /\ Sever({l \in up : r \in l}, {r})
  /\ journal' = [journal EXCEPT ![r] = load(saved[r])]
  /\ dirty' = [dirty EXCEPT ![r] = {}]
  /\ UNCHANGED <<disk, mtime, copies, saved, made, retired, unread>>

-----------------------------------------------------------------------------
UserStep == \E r \in Replica, p \in Path : UserWrite(r, p) \/ UserDelete(r, p)

PullStep(r) ==
  \/ RequestPull(r) \/ PullTimeout(r) \/ applyRemoteDelete(r) \/ DiscardAnswer(r)
  \/ PullRead(r) \/ PullWrite(r) \/ PullNote(r)

(* What a running replica does by itself.                                  *)
EngineStep(r) ==
  \/ \E p \in Path : NoteMutation(r, p)
  \/ FireTimer(r) \/ PullStep(r) \/ Finish(r)
  \/ \E s \in Replica : SendMap(r, s) \/ StartEnvelope(r, s) \/ answerFile(s, r)

FaultStep == \E r \in Replica : Crash(r) \/ \E s \in Replica : Drop(r, s)

Next ==
  \/ UserStep
  \/ \E r \in Replica : EngineStep(r) \/ Persist(r) \/ \E s \in Replica : Attach(r, s)
  \/ FaultStep

Spec == Init /\ [][Next]_vars

(* Timers fire, promises settle, a transport delivers while it is up and   *)
(* is dialled again when it is down; nothing makes users or faults act.    *)
Fairness ==
  /\ \A r \in Replica :
       /\ \A p \in Path : WF_vars(NoteMutation(r, p))
       /\ WF_vars(FireTimer(r)) /\ WF_vars(PullStep(r)) /\ WF_vars(Finish(r))
  /\ \A r, s \in Replica :
       /\ WF_vars(SendMap(r, s)) /\ WF_vars(StartEnvelope(r, s))
       /\ WF_vars(answerFile(r, s)) /\ WF_vars(Attach(r, s))

FairSpec == Spec /\ Fairness

-----------------------------------------------------------------------------
(* Properties.                                                             *)

(* Every component of the state keeps its shape: stamps are numbers, the   *)
(* maps in flight and in the queues are maps, the drain has one envelope.  *)
TypeOK ==
  /\ disk \in [Replica -> [Path -> File]]
  /\ mtime \in [Replica -> [Path -> Nat]]
  /\ copies \in [Replica -> [Path -> SUBSET Content]]
  /\ journal \in [Replica -> JournalState] /\ saved \in [Replica -> JournalState]
  /\ dirty \in [Replica -> SUBSET Path]
  /\ timer \in [Replica -> SUBSET SUBSET Replica]
  /\ due \in [Replica -> SUBSET Replica]
  /\ inbox \in [Replica -> [Replica -> Seq(Letter)]]
  /\ job \in [Replica -> Job]
  /\ up \subseteq Link
  /\ made \in File /\ retired \subseteq File /\ unread \subseteq File
  /\ faults \in [drop : Nat, crash : Nat, timeout : Nat]

(* README: the bytes that lose a conflict are preserved as a conflict      *)
(* copy, never silently dropped.  Every content a user made is some        *)
(* replica's file or in a conflict copy, unless a user overwrote or        *)
(* deleted it, or a pull that had read the file before overwrote it.       *)
Kept(c) == \E r \in Replica, p \in Path : disk[r][p] = c \/ c \in copies[r][p]
Created(c) == c \in Seed + 1 .. made
NoLostEdit == \A c \in Content : Created(c) => c \in retired \cup unread \/ Kept(c)

(* The same without that exception, as the README of the program has it.   *)
(* The code breaks it: an edit made while a pull keeps its conflict copy   *)
(* is overwritten when the pull goes on.                                   *)
NothingOverwritten == \A c \in Content : Created(c) => c \in retired \/ Kept(c)

(* The journal is what the stamps of a map and the tombstones come from:   *)
(* apart from changes a user has not had noted and the pull being applied, *)
(* the last op of a path is about the file the disk holds.                 *)
Applying(r, p) == job[r].phase = "note" /\ job[r].path = p
JournalDescribesDisk ==
  \A r \in Replica, p \in Path :
    p \notin dirty[r] /\ ~Applying(r, p) /\ journal[r].last[p].op # "none"
      => journal[r].last[p].hash = disk[r][p]

(* A stamp orders the versions of a path: what the journal of a replica    *)
(* says of a path never becomes older, except by a crash that loses ops    *)
(* which were not saved yet.                                               *)
StampsNeverDecrease ==
  [][\A r \in Replica : Crash(r) \/ \A p \in Path :
       lamportFor(journal'[r], p) >= lamportFor(journal[r], p)]_vars

(* The winner rule is stable: content that lost on a replica, and lives in *)
(* its conflict copy, is not pulled back over the winner.  It does not hold *)
(* when a user edits under a round: the replicas may then swap versions.   *)
LoserStaysLost ==
  [][\A r \in Replica, p \in Path : PullWrite(r) /\ job[r].path = p
       => disk'[r][p] \notin copies[r][p]]_vars

(* A tombstone never beats a newer write: the file it removes was written  *)
(* under no later stamp, unless a user has just written it again.          *)
TombstonesRespectNewerWrites ==
  [][\A r \in Replica, p \in Path :
       applyRemoteDelete(r) /\ job[r].path = p /\ disk[r][p] # NoFile
         => lamportFor(journal[r], p) <= job[r].lamport]_vars

(* A file disappears only by a user's hand: when no user deletes, no       *)
(* replica loses a path it had ("missing is not empty").                   *)
OnlyUsersDelete ==
  [][\A r \in Replica, p \in Path :
       disk[r][p] # NoFile /\ disk'[r][p] = NoFile => CanDelete]_vars

(* Replicas that may connect end up with the same workspaces, once users   *)
(* and faults pause.                                                       *)
Agree == \A r, s \in Replica : {r, s} \in Link => disk[r] = disk[s]
Converges == <>[]Agree

(* The same without time: once every link is up and nothing is pending (no *)
(* timer, no map owed or queued, no pull, no change to be noted), nobody   *)
(* will ever speak again by itself, so the workspaces must be the same.    *)
Quiet ==
  /\ up = Link
  /\ \A r \in Replica :
       /\ dirty[r] = {} /\ timer[r] = {} /\ due[r] = {} /\ job[r].phase = "idle"
       /\ \A s \in Replica : inbox[r][s] = <<>>
QuietMeansAgreed == Quiet => Agree
=============================================================================
