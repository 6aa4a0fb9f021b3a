------------------------------- MODULE LockLease -------------------------------
(***************************************************************************)
(* The host lease of a browser with Web Locks (createHostLease with locks, *)
(* web/src/host-lease.ts).                                                 *)
(*                                                                         *)
(* A tab asks the lock manager of the browser for the lock of the          *)
(* workspace, only if it is free.  The callback of a granted request makes *)
(* the tab primary and keeps the lock until the tab yields, releases or    *)
(* dies.  A refused tab is secondary and asks again every second.  A tab   *)
(* may have several requests open: its retry timer, a "free" message and a *)
(* take-over each make their own.                                          *)
(***************************************************************************)
EXTENDS Naturals, Sequences

CONSTANTS
  Tab,            \* the pages that open the workspace, each at most once
  NoTab,          \* nobody
  Channel,        \* is a BroadcastChannel passed to createHostLease?
  MaxTries,       \* bound: attempts of one take-over
  MaxTakeOvers,   \* bound: take-overs that are asked for
  MaxFailures     \* bound: lock requests that the browser rejects

ASSUME NoTabAssumption == NoTab \notin Tab
ASSUME BoundAssumption == {MaxTries, MaxTakeOvers, MaxFailures} \subseteq Nat /\ Channel \in BOOLEAN

(* Who makes a request.  Bound: one request of each source at a time.      *)
Source == {"timer", "message", "takeOver"}

VARIABLES
  open,       \* the pages that are loaded
  stopped,    \* the pages that called release()
  status,     \* tab -> LeaseStatus
  retry,      \* the tabs whose retry timer is set
  tries,      \* tab -> attempts its take-over has left
  asking,     \* tab -> the sources with an open request
  calls,      \* tab -> its calls on their way to the lock manager
  answers,    \* tab -> the answers on their way back
  mail,       \* tab -> messages of the channel on their way
  lock,       \* the tab that holds the lock, as the lock manager sees it
  hold,       \* the tabs that keep a lock (releaseHold is set)
  used        \* take-overs asked for and requests rejected so far

vars == <<open, stopped, status, retry, tries, asking, calls, answers, mail, lock, hold, used>>

Init ==
  /\ open = {} /\ stopped = {} /\ retry = {} /\ hold = {}
  /\ status = [t \in Tab |-> "none"]
  /\ tries = [t \in Tab |-> 0]
  /\ asking = [t \in Tab |-> {}]
  /\ calls = [t \in Tab |-> <<>>]
  /\ answers = [t \in Tab |-> <<>>]
  /\ mail = [t \in Tab |-> <<>>]
  /\ lock = NoTab
  /\ used = [takeOvers |-> 0, failures |-> 0]

-----------------------------------------------------------------------------
(* Requests.                                                               *)

(* tryAcquire up to its request: nothing happens in a stopped or primary tab. *)
mayAcquire(t) == t \notin stopped /\ status[t] # "primary"

Request(t, source) ==
  /\ calls' = [calls EXCEPT ![t] = Append(@, source)]
  /\ asking' = [asking EXCEPT ![t] = @ \cup {source}]

Open(t) ==
  /\ t \notin open \cup stopped
  /\ status[t] = "none" /\ asking[t] = {} /\ mail[t] = <<>>
  /\ open' = open \cup {t}
  /\ Request(t, "timer")
  /\ UNCHANGED <<stopped, status, retry, tries, answers, mail, lock, hold, used>>

(* The interval of startRetry: it ends once the tab is primary.            *)
Retry(t) ==
  /\ t \in retry
  /\ IF mayAcquire(t)
       THEN "timer" \notin asking[t] /\ Request(t, "timer") /\ UNCHANGED retry
       ELSE retry' = retry \ {t} /\ UNCHANGED <<calls, asking>>
  /\ UNCHANGED <<open, stopped, status, tries, answers, mail, lock, hold, used>>

Post(t, message) ==
  IF Channel
  THEN mail' = [u \in Tab |-> IF u \in open \ {t} THEN Append(mail[u], message) ELSE mail[u]]
  ELSE UNCHANGED mail

(* takeOver: ask the holder to yield, then attempt until the deadline.     *)
takeOver(t) ==
  /\ t \in open \ stopped
  /\ status[t] = "secondary"
  /\ tries[t] = 0
  /\ used.takeOvers < MaxTakeOvers
  /\ used' = [used EXCEPT !.takeOvers = @ + 1]
  /\ "takeOver" \notin asking[t]
  /\ Post(t, "yield-request")
  /\ tries' = [tries EXCEPT ![t] = MaxTries]
  /\ UNCHANGED <<open, stopped, status, retry, asking, calls, answers, lock, hold>>

takeOverAttempt(t) ==
  /\ tries[t] > 0
  /\ "takeOver" \notin asking[t]
  /\ IF mayAcquire(t)
       THEN Request(t, "takeOver") /\ tries' = [tries EXCEPT ![t] = @ - 1]
       ELSE tries' = [tries EXCEPT ![t] = 0] /\ UNCHANGED <<calls, asking>>
  /\ UNCHANGED <<open, stopped, status, retry, answers, mail, lock, hold, used>>

-----------------------------------------------------------------------------
(* The lock manager serves the calls of a tab in their order.              *)

Serve(t) ==
  /\ calls[t] # <<>>
  /\ LET call == Head(calls[t])
     IN  IF call = "release"
         THEN lock' = (IF lock = t THEN NoTab ELSE lock) /\ UNCHANGED answers
         ELSE /\ lock' = (IF lock = NoTab THEN t ELSE lock)
              /\ answers' = [answers EXCEPT ![t] =
                               Append(@, [by |-> call, granted |-> lock = NoTab])]
  /\ calls' = [calls EXCEPT ![t] = Tail(@)]
  /\ UNCHANGED <<open, stopped, status, retry, tries, asking, mail, hold, used>>

(* A request that is rejected settles like a refused one, but for status.  *)
Fail(t) ==
  /\ calls[t] # <<>>
  /\ Head(calls[t]) # "release"
  /\ used.failures < MaxFailures
  /\ used' = [used EXCEPT !.failures = @ + 1]
  /\ calls' = [calls EXCEPT ![t] = Tail(@)]
  /\ asking' = [asking EXCEPT ![t] = @ \ {Head(calls[t])}]
  /\ retry' = IF t \in stopped THEN retry ELSE retry \cup {t}
  /\ UNCHANGED <<open, stopped, status, tries, answers, mail, lock, hold>>

-----------------------------------------------------------------------------
(* The tab.                                                                *)

(* Mutant: a refused tab does not ask again.                               *)
Callback_NoRetry(t) ==
  /\ answers[t] # <<>>
  /\ LET answer == Head(answers[t])
     IN  /\ asking' = [asking EXCEPT ![t] = @ \ {answer.by}]
         /\ status' = [status EXCEPT ![t] = IF answer.granted THEN "primary" ELSE "secondary"]
         /\ hold' = IF answer.granted THEN hold \cup {t} ELSE hold
         /\ retry' = IF answer.granted THEN retry \ {t} ELSE retry
  /\ answers' = [answers EXCEPT ![t] = Tail(@)]
  /\ UNCHANGED <<open, stopped, tries, calls, mail, lock, used>>

(* The callback of a request: a granted lock is kept, a refused tab shows  *)
(* itself secondary and retries.                                           *)
Callback(t) ==
  /\ answers[t] # <<>>
  /\ LET answer == Head(answers[t])
     IN  /\ asking' = [asking EXCEPT ![t] = @ \ {answer.by}]
         /\ IF answer.granted
              THEN /\ status' = [status EXCEPT ![t] = "primary"]
                   /\ hold' = hold \cup {t}
                   /\ retry' = retry \ {t}
              ELSE /\ status' = [status EXCEPT ![t] = "secondary"]
                   /\ retry' = IF t \in stopped THEN retry ELSE retry \cup {t}
                   /\ UNCHANGED hold
  /\ answers' = [answers EXCEPT ![t] = Tail(@)]
  /\ UNCHANGED <<open, stopped, tries, calls, mail, lock, used>>

(* Resolving the hold returns the lock to the browser.                     *)
releaseHold(t) ==
  /\ hold' = hold \ {t}
  /\ calls' = IF t \in hold THEN [calls EXCEPT ![t] = Append(@, "release")] ELSE calls

(* Mutant: the tab returns the lock and goes on as primary.                *)
yieldTo_StaysPrimary(t) ==
  /\ status[t] = "primary"
  /\ releaseHold(t)
  /\ retry' = retry \cup {t}
  /\ UNCHANGED <<status, asking>>

(* A primary that is asked to yield is secondary before the lock is free.  *)
yieldTo(t) ==
  /\ status[t] = "primary"
  /\ status' = [status EXCEPT ![t] = "secondary"]
  /\ releaseHold(t)
  /\ retry' = IF t \in stopped THEN retry ELSE retry \cup {t}
  /\ UNCHANGED asking

tellOthers(t) ==
  mail' = [u \in Tab |-> LET rest == IF u = t THEN Tail(mail[t]) ELSE mail[u]
                         IN  IF u \in open \ {t} THEN Append(rest, "free") ELSE rest]

(* The channel: "free" wakes a secondary, "yield-request" a primary.       *)
onmessage(t) ==
  /\ mail[t] # <<>>
  /\ \/ /\ Head(mail[t]) = "yield-request"
        /\ yieldTo(t)
        /\ tellOthers(t)
     \/ /\ Head(mail[t]) = "free"
        /\ status[t] = "secondary" /\ t \notin stopped
        /\ "message" \notin asking[t]
        /\ Request(t, "message")
        /\ mail' = [mail EXCEPT ![t] = Tail(@)]
        /\ UNCHANGED <<status, retry, hold>>
     \/ /\ status[t] # (IF Head(mail[t]) = "free" THEN "secondary" ELSE "primary") \/ t \in stopped
        /\ mail' = [mail EXCEPT ![t] = Tail(@)]
        /\ UNCHANGED <<status, retry, hold, calls, asking>>
  /\ UNCHANGED <<open, stopped, tries, answers, lock, used>>

(* pagehide of a page that is not kept alive.                              *)
release(t) ==
  /\ t \in open \ stopped
  /\ stopped' = stopped \cup {t}
  /\ retry' = retry \ {t}
  /\ status' = [status EXCEPT ![t] = "none"]
  /\ releaseHold(t)
  /\ IF status[t] = "primary" \/ t \in hold THEN Post(t, "free") ELSE UNCHANGED mail
  /\ UNCHANGED <<open, tries, asking, answers, lock, used>>

(* The page dies, by a crash or after pagehide: the browser frees its lock. *)
Close(t) ==
  /\ t \in open
  /\ open' = open \ {t}
  /\ stopped' = stopped \cup {t}
  /\ status' = [status EXCEPT ![t] = "none"]
  /\ retry' = retry \ {t} /\ hold' = hold \ {t}
  /\ tries' = [tries EXCEPT ![t] = 0]
  /\ asking' = [asking EXCEPT ![t] = {}]
  /\ calls' = [calls EXCEPT ![t] = <<>>]
  /\ answers' = [answers EXCEPT ![t] = <<>>]
  /\ mail' = [mail EXCEPT ![t] = <<>>]
  /\ lock' = IF lock = t THEN NoTab ELSE lock
  /\ UNCHANGED used

-----------------------------------------------------------------------------
PageStep(t) == Retry(t) \/ takeOverAttempt(t) \/ Callback(t) \/ onmessage(t)

Next ==
  \E t \in Tab : \/ Open(t) \/ PageStep(t) \/ takeOver(t) \/ release(t) \/ Close(t)
                 \/ Serve(t) \/ Fail(t)

Spec == Init /\ [][Next]_vars

(* Timers and callbacks run, messages arrive, the lock manager answers.    *)
Fairness ==
  \A t \in Tab : /\ WF_vars(Retry(t)) /\ WF_vars(takeOverAttempt(t))
                 /\ WF_vars(Callback(t)) /\ WF_vars(onmessage(t)) /\ WF_vars(Serve(t))

FairSpec == Spec /\ Fairness

-----------------------------------------------------------------------------
(* Properties.                                                             *)

Status == {"none", "primary", "secondary"}
Answer == [by : Source, granted : BOOLEAN]

(* Every component of the state keeps its shape.                           *)
TypeOK ==
  /\ open \subseteq Tab /\ stopped \subseteq Tab /\ retry \subseteq Tab /\ hold \subseteq Tab
  /\ status \in [Tab -> Status]
  /\ tries \in [Tab -> Nat]
  /\ asking \in [Tab -> SUBSET Source]
  /\ calls \in [Tab -> Seq(Source \cup {"release"})]
  /\ answers \in [Tab -> Seq(Answer)]
  /\ mail \in [Tab -> Seq({"free", "yield-request"})]
  /\ lock \in Tab \cup {NoTab}
  /\ used \in [takeOvers : Nat, failures : Nat]

(* There is one key to the workspace.  A tab that is primary keeps it; a    *)
(* tab that keeps it, has it in an answer on the way or returns it in a    *)
(* call on the way is the holder for the lock manager, in one of these     *)
(* ways and once: no call frees a lock that was taken in the meantime.     *)
At(s, S) == {i \in DOMAIN s : s[i] \in S}
AtMostOne(X) == \A i, j \in X : i = j
Grant == [by : Source, granted : {TRUE}]
Granted(t) == At(answers[t], Grant)
Returned(t) == At(calls[t], {"release"})

Key(t) ==
  /\ status[t] = "primary" => t \in hold
  /\ t \in hold \/ Granted(t) # {} \/ Returned(t) # {} => lock = t
  /\ t \in hold => Granted(t) = {} /\ Returned(t) = {}
  /\ Granted(t) = {} \/ Returned(t) = {}
  /\ AtMostOne(Granted(t)) /\ AtMostOne(Returned(t))

OneKey == \A t \in Tab : Key(t)

host == {t \in Tab : status[t] = "primary"}

(* The lease implements the promise: no tab becomes primary while another  *)
(* is, in whatever order requests, messages and deaths are handled.        *)
Promise == INSTANCE SingleHost WITH host <- host
OneHost == Promise!Spec

(* The lease is never left lying: as long as some page stays, some page    *)
(* takes the lock, whoever yielded, released or died with it.              *)
Staying == open \ stopped # {}
LockTaken == Staying ~> (hold # {} \/ ~Staying)

(* "Further tabs auto-promote when the primary goes away": what is more,   *)
(* some page becomes primary.  Not so when a page has two requests open:   *)
(* the second is refused because of the first and makes it secondary.      *)
AutoPromotes == Staying ~> (host # {} \/ ~Staying)

(* A take-over makes its tab primary, unless someone closes: the holder is *)
(* asked to yield and does.  It holds only with a channel between the      *)
(* pages, which main.ts does not give to the lease.                        *)
TakeOverWorks ==
  \A t \in Tab : (tries[t] > 0) ~> (status[t] = "primary" \/ t \in stopped)
=============================================================================
