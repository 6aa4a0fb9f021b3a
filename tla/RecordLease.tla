------------------------------ MODULE RecordLease ------------------------------
(***************************************************************************)
(* The host lease of a browser without Web Locks (createHostLease with a   *)
(* storage, web/src/host-lease.ts), wired as web/src/main.ts does: without *)
(* a channel, so no tab hears of another but through the stored record.    *)
(*                                                                         *)
(* The record names its holder and the time it was written; the primary    *)
(* writes it again every heartbeat, and a record that is too old reads as  *)
(* none.  An attempt reads the record, writes its own, sleeps and reads    *)
(* again: two tabs may read before either writes.  A page may be frozen    *)
(* (a hidden tab, a laptop asleep): its timers wait while time goes on.    *)
(*                                                                         *)
(* Time is counted in ticks of the sleep of an attempt; a timer holds the  *)
(* ticks it has left, Off when it is not set, and the record its age.      *)
(* HostLease, which instantiates this module, assumes what its constants   *)
(* are: the times at least a tick each, as in the code.                    *)
(***************************************************************************)
EXTENDS Integers

CONSTANTS
  Tab,             \* the pages that open the workspace, each at most once
  NoTab,           \* nobody
  RetryEvery,      \* RETRY_MS
  BeatEvery,       \* HEARTBEAT_MS
  Stale,           \* STALE_MS
  MaxTries,        \* bound: attempts of one take-over
  MaxTakeOvers,    \* bound: take-overs that are asked for
  MaxFreezes,      \* bound: times a page is frozen
  MaxFailures      \* bound: writes that the storage refuses

Sleep == 1
Off == -1

Source == {"timer", "takeOver"}

VARIABLES
  open,       \* the pages that are loaded
  stopped,    \* the pages that called release()
  frozen,     \* the pages that do not run
  status,     \* tab -> LeaseStatus
  record,     \* the stored record; holder NoTab: none, or a release mark
  claim,      \* tab -> what it is about to write the record for, or "no"
  verify,     \* tab -> source of an attempt -> its sleep
  retry,      \* tab -> its retry timer
  beat,       \* tab -> its heartbeat timer
  tries,      \* tab -> attempts its take-over has left
  used        \* take-overs, freezes, refused writes and release marks so far

pages == <<open, stopped, frozen>>
vars == <<pages, status, record, claim, verify, retry, beat, tries, used>>

NoAttempt == [x \in Source |-> Off]

Init ==
  /\ open = {} /\ stopped = {} /\ frozen = {}
  /\ status = [t \in Tab |-> "none"]
  /\ record = [holder |-> NoTab, age |-> 0]
  /\ claim = [t \in Tab |-> "no"]
  /\ verify = [t \in Tab |-> NoAttempt]
  /\ retry = [t \in Tab |-> Off]
  /\ beat = [t \in Tab |-> Off]
  /\ tries = [t \in Tab |-> 0]
  /\ used = [takeOvers |-> 0, freezes |-> 0, failures |-> 0, marks |-> 0]

(* A page runs one task at a time.                                         *)
runs(t) == t \in open \ frozen /\ claim[t] = "no"

(* parseRecord finds a record of another tab.                              *)
heldByOther(t) == record.holder \notin {NoTab, t} /\ record.age <= Stale

startRetry(t, timers) ==
  IF timers[t] = Off /\ t \notin stopped THEN [timers EXCEPT ![t] = RetryEvery] ELSE timers

-----------------------------------------------------------------------------
(* Attempts.                                                               *)

mayAcquire(t) == t \notin stopped /\ status[t] # "primary"

(* heartbeatAcquire reads the record; a tab that sees another is secondary. *)
Read(t, source, timers) ==
  IF heldByOther(t)
  THEN /\ status' = [status EXCEPT ![t] = "secondary"]
       /\ retry' = startRetry(t, timers)
       /\ UNCHANGED claim
  ELSE /\ claim' = [claim EXCEPT ![t] = source]
       /\ retry' = timers
       /\ UNCHANGED status

Open(t) ==
  /\ t \notin open \cup stopped
  /\ open' = open \cup {t}
  /\ Read(t, "timer", retry)
  /\ UNCHANGED <<stopped, frozen, record, verify, beat, tries, used>>

(* The retry interval; its attempts are shorter than its period.           *)
Retry(t) ==
  /\ runs(t)
  /\ retry[t] = 0
  /\ IF mayAcquire(t)
       THEN verify[t]["timer"] = Off /\ Read(t, "timer", [retry EXCEPT ![t] = RetryEvery])
       ELSE retry' = [retry EXCEPT ![t] = Off] /\ UNCHANGED <<status, claim>>
  /\ UNCHANGED <<pages, record, verify, beat, tries, used>>

takeOver(t) ==
  /\ runs(t) /\ t \notin stopped
  /\ status[t] = "secondary"
  /\ tries[t] = 0
  /\ used.takeOvers < MaxTakeOvers
  /\ used' = [used EXCEPT !.takeOvers = @ + 1]
  /\ tries' = [tries EXCEPT ![t] = MaxTries]
  /\ UNCHANGED <<pages, status, record, claim, verify, retry, beat>>

takeOverAttempt(t) ==
  /\ runs(t)
  /\ tries[t] > 0
  /\ verify[t]["takeOver"] = Off
  /\ IF mayAcquire(t)
       THEN Read(t, "takeOver", retry) /\ tries' = [tries EXCEPT ![t] = @ - 1]
       ELSE tries' = [tries EXCEPT ![t] = 0] /\ UNCHANGED <<status, claim, retry>>
  /\ UNCHANGED <<pages, record, verify, beat, used>>

(* writeRecord, of an attempt (then the sleep) or of a heartbeat.  A write *)
(* that is refused ends the attempt; a heartbeat does not notice.          *)
writeRecord(t) ==
  /\ t \in open \ frozen
  /\ claim[t] # "no"
  /\ claim' = [claim EXCEPT ![t] = "no"]
  /\ \/ /\ record' = [holder |-> t, age |-> 0]
        /\ verify' = IF claim[t] \in Source THEN [verify EXCEPT ![t][claim[t]] = Sleep] ELSE verify
        /\ UNCHANGED <<retry, used>>
     \/ /\ used.failures < MaxFailures
        /\ used' = [used EXCEPT !.failures = @ + 1]
        /\ retry' = IF claim[t] \in Source THEN startRetry(t, retry) ELSE retry
        /\ UNCHANGED <<record, verify>>
  /\ UNCHANGED <<pages, status, beat, tries>>

(* Mutant: the attempt does not look again.                                *)
Verify_Blind(t, source) ==
  /\ runs(t)
  /\ verify[t][source] = 0
  /\ verify' = [verify EXCEPT ![t][source] = Off]
  /\ IF t \in stopped
       THEN UNCHANGED <<status, retry, beat>>
       ELSE /\ status' = [status EXCEPT ![t] = "primary"]
            /\ retry' = [retry EXCEPT ![t] = Off]
            /\ beat' = [beat EXCEPT ![t] = IF @ = Off THEN BeatEvery ELSE @]
  /\ UNCHANGED <<pages, record, claim, tries, used>>

(* After the sleep: another tab's record lost this tab the race, any other *)
(* makes it primary, with a heartbeat and without retries.                 *)
Verify(t, source) ==
  /\ runs(t)
  /\ verify[t][source] = 0
  /\ verify' = [verify EXCEPT ![t][source] = Off]
  /\ CASE t \in stopped -> UNCHANGED <<status, retry, beat>>
       [] t \notin stopped /\ heldByOther(t) ->
            /\ status' = [status EXCEPT ![t] = "secondary"]
            /\ retry' = startRetry(t, retry)
            /\ UNCHANGED beat
       [] OTHER ->
            /\ status' = [status EXCEPT ![t] = "primary"]
            /\ retry' = [retry EXCEPT ![t] = Off]
            /\ beat' = [beat EXCEPT ![t] = IF @ = Off THEN BeatEvery ELSE @]
  /\ UNCHANGED <<pages, record, claim, tries, used>>

(* Mutant: a primary writes its heartbeat over whatever record there is.   *)
Beat_Overwrites(t) ==
  /\ runs(t)
  /\ beat[t] = 0
  /\ beat' = [beat EXCEPT ![t] = BeatEvery]
  /\ claim' = [claim EXCEPT ![t] = "beat"]
  /\ UNCHANGED <<pages, record, status, retry, verify, tries, used>>

(* The heartbeat: a primary that finds another holder steps down, and its  *)
(* timer ends a period later; any other primary writes the record.         *)
Beat(t) ==
  /\ runs(t)
  /\ beat[t] = 0
  /\ CASE status[t] # "primary" ->
            beat' = [beat EXCEPT ![t] = Off] /\ UNCHANGED <<status, retry, claim>>
       [] status[t] = "primary" /\ heldByOther(t) ->
            /\ beat' = [beat EXCEPT ![t] = BeatEvery]
            /\ status' = [status EXCEPT ![t] = "secondary"]
            /\ retry' = startRetry(t, retry)
            /\ UNCHANGED claim
       [] OTHER ->
            /\ beat' = [beat EXCEPT ![t] = BeatEvery]
            /\ claim' = [claim EXCEPT ![t] = "beat"]
            /\ UNCHANGED <<status, retry>>
  /\ UNCHANGED <<pages, record, verify, tries, used>>

-----------------------------------------------------------------------------
(* Pages.                                                                  *)

(* pagehide: a primary leaves a release mark.                              *)
release(t) ==
  /\ runs(t) /\ t \notin stopped
  /\ stopped' = stopped \cup {t}
  /\ retry' = [retry EXCEPT ![t] = Off]
  /\ beat' = [beat EXCEPT ![t] = Off]
  /\ IF status[t] = "primary"
       THEN record' = [holder |-> NoTab, age |-> 0] /\ used' = [used EXCEPT !.marks = @ + 1]
       ELSE UNCHANGED <<record, used>>
  /\ status' = [status EXCEPT ![t] = "none"]
  /\ UNCHANGED <<open, frozen, claim, verify, tries>>

(* The page dies, by a crash or after pagehide: its record stays.          *)
Close(t) ==
  /\ t \in open
  /\ open' = open \ {t} /\ frozen' = frozen \ {t}
  /\ stopped' = stopped \cup {t}
  /\ status' = [status EXCEPT ![t] = "none"]
  /\ claim' = [claim EXCEPT ![t] = "no"]
  /\ verify' = [verify EXCEPT ![t] = NoAttempt]
  /\ retry' = [retry EXCEPT ![t] = Off]
  /\ beat' = [beat EXCEPT ![t] = Off]
  /\ tries' = [tries EXCEPT ![t] = 0]
  /\ UNCHANGED <<record, used>>

Freeze(t) ==
  /\ runs(t)
  /\ used.freezes < MaxFreezes
  /\ used' = [used EXCEPT !.freezes = @ + 1]
  /\ frozen' = frozen \cup {t}
  /\ UNCHANGED <<open, stopped, status, record, claim, verify, retry, beat, tries>>

Thaw(t) ==
  /\ t \in frozen
  /\ frozen' = frozen \ {t}
  /\ UNCHANGED <<open, stopped, status, record, claim, verify, retry, beat, tries, used>>

(* Time passes once the pages that run have done what is due.              *)
due(t) == retry[t] = 0 \/ beat[t] = 0 \/ \E x \in Source : verify[t][x] = 0
step(n) == IF n > 0 THEN n - 1 ELSE n

Tick ==
  /\ \A t \in open \ frozen : claim[t] = "no" /\ ~due(t)
  /\ record' = [record EXCEPT !.age = IF @ <= Stale /\ record.holder # NoTab THEN @ + 1 ELSE @]
  /\ verify' = [t \in Tab |-> [x \in Source |-> step(verify[t][x])]]
  /\ retry' = [t \in Tab |-> step(retry[t])]
  /\ beat' = [t \in Tab |-> step(beat[t])]
  /\ UNCHANGED <<pages, status, claim, tries, used>>

-----------------------------------------------------------------------------
PageStep(t) ==
  \/ Retry(t) \/ takeOverAttempt(t) \/ writeRecord(t) \/ Beat(t)
  \/ \E x \in Source : Verify(t, x)

Next ==
  \/ Tick
  \/ \E t \in Tab : Open(t) \/ PageStep(t) \/ takeOver(t) \/ release(t) \/ Close(t) \/ Freeze(t) \/ Thaw(t)

Spec == Init /\ [][Next]_vars

(* Time goes on, pages run what is due, a frozen page runs again.          *)
Fairness ==
  /\ WF_vars(Tick)
  /\ \A t \in Tab : WF_vars(PageStep(t)) /\ WF_vars(Thaw(t))

FairSpec == Spec /\ Fairness

-----------------------------------------------------------------------------
(* Properties.                                                             *)

Status == {"none", "primary", "secondary"}
Timer(n) == Off .. n

(* Every component of the state keeps its shape.                           *)
TypeOK ==
  /\ open \subseteq Tab /\ stopped \subseteq Tab /\ frozen \subseteq open
  /\ status \in [Tab -> Status]
  /\ record \in [holder : Tab \cup {NoTab}, age : 0 .. Stale + 1]
  /\ claim \in [Tab -> Source \cup {"beat", "no"}]
  /\ verify \in [Tab -> [Source -> Timer(Sleep)]]
  /\ retry \in [Tab -> Timer(RetryEvery)]
  /\ beat \in [Tab -> Timer(BeatEvery)]
  /\ tries \in [Tab -> 0 .. MaxTries]
  /\ used \in [takeOvers : 0 .. MaxTakeOvers, freezes : 0 .. MaxFreezes, failures : 0 .. MaxFailures, marks : Nat]

host == {t \in Tab : status[t] = "primary"}
Single == \A t, u \in host : t = u

(* One tab at most may run turns, whoever reads and writes the record      *)
(* first, while no page is frozen, the storage refuses no more writes than *)
(* the age of a record forgives, and no release mark is left: an attempt   *)
(* that wakes up takes a mark for the record it wrote.                     *)
Forgiven == (Stale - Sleep) \div BeatEvery - 1
OneHost ==
  used.freezes = 0 /\ used.failures <= Forgiven /\ used.marks = 0 => Single

(* A page that was frozen past its lease may wake up next to a new host:   *)
(* then a heartbeat finds out and only one of them stays.                  *)
Heals == ~Single ~> Single

(* As long as some page stays, some page becomes primary, even when the    *)
(* last primary crashed and left its record.                               *)
Staying == open \ stopped # {}
AutoPromotes == Staying ~> (host # {} \/ ~Staying)
=============================================================================
