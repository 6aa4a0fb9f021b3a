----------------------------- MODULE AgentWorker -----------------------------
(***************************************************************************)
(* The agent worker of a page (web/src/agent/agent-worker.ts): one worker  *)
(* for every chat.  It takes its messages in order, but each handler waits *)
(* many times, so a run goes on while later messages are handled, and two  *)
(* chats can have a run each.                                              *)
(*                                                                         *)
(* What stops a run is one controller, activeStop: a run that begins puts  *)
(* its own there, a stop aborts it when it names its run, and the wrapped  *)
(* fetch gives its signal to the requests of whoever calls.  It is also    *)
(* what tells a replay of database dumps that a turn is running.           *)
(*                                                                         *)
(* A run is named by its turn: the page starts one run per turn.           *)
(***************************************************************************)
EXTENDS Naturals, Sequences, FiniteSets

CONSTANTS
  Turn,     \* turns
  NoTurn    \* none

ASSUME NoTurnAssumption == NoTurn \notin Turn

VARIABLES
  up,          \* the worker's thread runs
  inbox,       \* messages the page has posted
  outbox,      \* messages the worker has posted
  executing,   \* runs whose handler has not returned
  activeStop,  \* the run whose controller stops, or NoTurn
  aborted,     \* runs whose own controller is aborted
  cut,         \* runs that a stop of another run may have taken along
  met,         \* runs that shared the worker with another run
  wedged,      \* runs that never come back
  writing,     \* turns whose marker is being written
  marker,      \* turn -> markers in the run log
  deferred,    \* pendingDbApply
  replays      \* replays of database dumps started so far

runVars == <<executing, activeStop, aborted, cut, met, wedged>>
logVars == <<writing, marker>>
dumpVars == <<deferred, replays>>
workerVars == <<up, inbox, outbox, runVars, logVars, dumpVars>>

Run(m) == [type |-> "run", turn |-> m]
Stop(m) == [type |-> "stop", turn |-> m]
Log(m) == [type |-> "log", turn |-> m]
Apply == [type |-> "db-apply", turn |-> NoTurn]
Outcome == {"done", "stopped", "error"}
Answer == Outcome \cup {"logged", "log failed", "failed"}

WorkerInit ==
  /\ up = TRUE
  /\ inbox = <<>> /\ outbox = <<>>
  /\ executing = {} /\ activeStop = NoTurn
  /\ aborted = {} /\ cut = {} /\ met = {} /\ wedged = {}
  /\ writing = {} /\ marker = [m \in Turn |-> 0]
  /\ deferred = FALSE /\ replays = 0

(* A message posted to a worker that is gone is never handled.             *)
posted(msgs) == IF up THEN inbox \o msgs ELSE inbox

receive(type) ==
  /\ up /\ inbox # <<>> /\ Head(inbox).type = type
  /\ inbox' = Tail(inbox)

post(type, m) == outbox' = Append(outbox, [type |-> type, turn |-> m])

-----------------------------------------------------------------------------
(* onmessage                                                               *)

(* Mutant: one controller serves run after run.                            *)
ReceiveRun_Reuses ==
  /\ receive("run")
  /\ LET m == Head(inbox).turn IN
       /\ executing' = executing \cup {m}
       /\ activeStop' = m
       /\ met' = IF executing = {} THEN met ELSE met \cup executing'
       /\ aborted' = IF aborted = {} THEN aborted ELSE aborted \cup {m}
  /\ UNCHANGED <<up, outbox, cut, wedged, logVars, dumpVars>>

ReceiveRun ==
  /\ receive("run")
  /\ LET m == Head(inbox).turn IN
       /\ executing' = executing \cup {m}
       /\ activeStop' = m
       /\ met' = IF executing = {} THEN met ELSE met \cup executing'
  /\ UNCHANGED <<up, outbox, aborted, cut, wedged, logVars, dumpVars>>

aims(m) == activeStop = m

ReceiveStop ==
  /\ receive("stop")
  /\ IF aims(Head(inbox).turn)
       THEN /\ aborted' = aborted \cup {activeStop}
            /\ cut' = cut \cup (executing \ {activeStop})
       ELSE UNCHANGED <<aborted, cut>>
  /\ UNCHANGED <<up, outbox, executing, activeStop, met, wedged, logVars, dumpVars>>

(* handleLog, turnEnd: the marker is written once the logger has flushed.  *)
ReceiveLog ==
  /\ receive("log")
  /\ writing' = writing \cup {Head(inbox).turn}
  /\ UNCHANGED <<up, outbox, runVars, marker, dumpVars>>

(* queueDatabaseApply: put off while a controller is set.                  *)
busy == activeStop # NoTurn

ReceiveApply ==
  /\ receive("db-apply")
  /\ deferred' = (deferred \/ busy)
  /\ replays' = IF busy THEN replays ELSE replays + 1
  /\ UNCHANGED <<up, outbox, runVars, logVars>>

-----------------------------------------------------------------------------
(* What goes on between messages.                                          *)

(* How a run may come back: an aborted one as stopped, one that a stop     *)
(* took along as stopped as well if it was waiting for a request.          *)
outcomes(m) ==
  IF m \in aborted THEN {"stopped"}
  ELSE IF m \in cut THEN Outcome ELSE {"done", "error"}

Finish(m) ==
  /\ up /\ m \in executing \ wedged
  /\ \E o \in outcomes(m) : post(o, m)
  /\ executing' = executing \ {m}
  /\ activeStop' = IF activeStop = m THEN NoTurn ELSE activeStop
  /\ deferred' = (deferred /\ activeStop' # NoTurn)
  /\ replays' = IF deferred /\ ~deferred' THEN replays + 1 ELSE replays
  /\ UNCHANGED <<up, inbox, aborted, cut, met, wedged, logVars>>

WriteMarker(m) ==
  /\ up /\ m \in writing
  /\ writing' = writing \ {m}
  /\ marker' = [marker EXCEPT ![m] = @ + 1]
  /\ post("logged", m)
  /\ UNCHANGED <<up, inbox, runVars, dumpVars>>

WorkerStep ==
  \/ ReceiveRun \/ ReceiveStop \/ ReceiveLog \/ ReceiveApply
  \/ \E m \in Turn : Finish(m) \/ WriteMarker(m)

-----------------------------------------------------------------------------
(* What may go wrong.                                                      *)

(* The run log cannot be written.                                          *)
LogFails(m) ==
  /\ up /\ m \in writing
  /\ writing' = writing \ {m}
  /\ post("log failed", m)
  /\ UNCHANGED <<up, inbox, runVars, marker, dumpVars>>

(* A run waits for something that never comes.                             *)
Wedge(m) ==
  /\ up /\ m \in executing \ wedged
  /\ wedged' = wedged \cup {m}
  /\ UNCHANGED <<up, inbox, outbox, executing, activeStop, aborted, cut, met, logVars, dumpVars>>

(* An error nobody caught: the page hears of it, the worker goes on.       *)
Uncaught ==
  /\ up
  /\ post("failed", NoTurn)
  /\ UNCHANGED <<up, inbox, runVars, logVars, dumpVars>>

(* The worker is gone and tells nobody.                                    *)
Die ==
  /\ up
  /\ up' = FALSE
  /\ inbox' = <<>> /\ executing' = {} /\ writing' = {}
  /\ UNCHANGED <<outbox, activeStop, aborted, cut, met, wedged, marker, dumpVars>>

WorkerTypeOK ==
  /\ up \in BOOLEAN /\ deferred \in BOOLEAN
  /\ inbox \in Seq([type : {"run", "stop", "log", "db-apply"}, turn : Turn \cup {NoTurn}])
  /\ outbox \in Seq([type : Answer, turn : Turn \cup {NoTurn}])
  /\ {executing, aborted, cut, met, wedged, writing} \subseteq SUBSET Turn
  /\ activeStop \in Turn \cup {NoTurn}
  /\ marker \in [Turn -> Nat] /\ replays \in Nat
=============================================================================
