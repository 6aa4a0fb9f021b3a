------------------------------ MODULE ChatQueue ------------------------------
(***************************************************************************)
(* The chats of a page: submitTurn, drainQueue, runTurn and the routes     *)
(* stop, cancel and delete of web/src/server/local-backend.ts, with the    *)
(* calls of web/src/agent/agent-client.ts and the watchdog of              *)
(* web/src/agent/run-watchdog.ts, over one AgentWorker.                    *)
(*                                                                         *)
(* The page is one thread: an action is what runs between two awaits.  A   *)
(* chat that drains its queue is in one of three awaits of runTurn: the    *)
(* set-up, the promise of the run, the write of the marker.  The watchdog  *)
(* settles a silent turn beside it.                                        *)
(*                                                                         *)
(* Turns are numbered in the order they are sent.                          *)
(***************************************************************************)
EXTENDS AgentWorker, SequencesExt

CONSTANTS
  Chat, NoChat,
  Kept,          \* how many records of a chat are in memory (20)
  Fault,         \* which faults happen
  MaxFaults,     \* bound: how many
  MaxCommands    \* bound: stops, cancels, deletes and pulls of dumps

ASSUME TurnAssumption == Turn \subseteq Nat
ASSUME NoChatAssumption == NoChat \notin Chat
ASSUME KeptAssumption == Kept \in Nat
ASSUME BoundAssumption == {MaxFaults, MaxCommands} \subseteq Nat

VARIABLES
  chatOf,     \* turn -> its chat, NoChat before it is sent
  queue,      \* turnQueues: chat -> turns that wait
  drain,      \* chat -> where drainQueue is, and with which turn
  activeRun,  \* activeRuns: chat -> turn
  watch,      \* chat -> the turn the watchdog tracks
  pending,    \* AgentClient.pending: runs whose promise is open
  status,     \* turn -> TurnRecord.status, "none" without a record
  live,       \* liveTurns: turns with a record in memory
  ended,      \* turn -> turn_end frames the user interface got
  asked,      \* turns a stop was posted for
  gone,       \* chats the user has deleted
  used        \* faults and commands so far

chatVars == <<queue, drain, activeRun>>
turnVars == <<pending, status, live, ended>>
userVars == <<chatOf, asked, gone>>
vars == <<workerVars, chatVars, watch, turnVars, userVars, used>>

At == {"off", "setup", "running", "persist"}
Off == [at |-> "off", turn |-> NoTurn]
inAwait(c, at) == drain[c].at = at

Init ==
  /\ WorkerInit
  /\ chatOf = [m \in Turn |-> NoChat]
  /\ queue = [c \in Chat |-> <<>>]
  /\ drain = [c \in Chat |-> Off]
  /\ activeRun = [c \in Chat |-> NoTurn] /\ watch = [c \in Chat |-> NoTurn]
  /\ pending = {} /\ live = {}
  /\ status = [m \in Turn |-> "none"] /\ ended = [m \in Turn |-> 0]
  /\ asked = {} /\ gone = {}
  /\ used = [faults |-> 0, commands |-> 0]

fault(f) ==
  /\ f \in Fault /\ used.faults < MaxFaults
  /\ used' = [used EXCEPT !.faults = @ + 1]

command ==
  /\ used.commands < MaxCommands
  /\ used' = [used EXCEPT !.commands = @ + 1]

-----------------------------------------------------------------------------
(* drainQueue: the turn at the front of a queue is taken and set up.       *)
next(q) == IF q = <<>> THEN Off ELSE [at |-> "setup", turn |-> Head(q)]
rest(q) == IF q = <<>> THEN q ELSE Tail(q)

(* Mutant: the queue is a stack.                                           *)
enqueued_Front(q, m) == <<m>> \o q
enqueued(q, m) == Append(q, m)

(* Mutant: a chat without an active run starts another.                    *)
idle_NoRun(c) == inAwait(c, "off") \/ (inAwait(c, "running") /\ activeRun[c] = NoTurn)
idle(c) == inAwait(c, "off")

submitTurn(m, c) ==
  /\ chatOf[m] = NoChat /\ c \notin gone
  /\ \A n \in Turn : n < m => chatOf[n] # NoChat
  /\ chatOf' = [chatOf EXCEPT ![m] = c]
  /\ LET q == enqueued(queue[c], m) IN
       IF idle(c)
         THEN queue' = [queue EXCEPT ![c] = rest(q)] /\ drain' = [drain EXCEPT ![c] = next(q)]
         ELSE queue' = [queue EXCEPT ![c] = q] /\ UNCHANGED drain
  /\ UNCHANGED <<workerVars, activeRun, watch, turnVars, asked, gone, used>>

(* awaitingFor asks the worker unless the chat has a live record.          *)
awaitingKnown(c) == up \/ \E m \in live : chatOf[m] = c

(* runTurn up to its first look at the promise of the run.                 *)
(* Mutant: the watchdog is not told.                                       *)
watched_Not(c, m) == watch
watched(c, m) == [watch EXCEPT ![c] = m]

(* liveTurns: one record too many pushes out the one that started first,   *)
(* whether its marker is written or not.                                   *)
records(c, m) == {n \in live : chatOf[n] = c} \cup {m}
first(list) == {m \in list : \A n \in list : m <= n}
shifted(list) == IF Cardinality(list) > Kept THEN first(list) ELSE {}

startRun(c) ==
  LET m == drain[c].turn IN
  /\ inAwait(c, "setup") /\ awaitingKnown(c)
  /\ live' = (live \cup {m}) \ shifted(records(c, m))
  /\ status' = [status EXCEPT ![m] = "running"]
  /\ pending' = pending \cup {m}
  /\ inbox' = posted(<<Run(m)>>)
  /\ activeRun' = [activeRun EXCEPT ![c] = m]
  /\ watch' = watched(c, m)
  /\ drain' = [drain EXCEPT ![c].at = "running"]
  /\ UNCHANGED <<up, outbox, runVars, logVars, dumpVars, queue, ended, userVars, used>>

(* The set-up throws: the rest of the queue waits for the next send.       *)
setupFails(c) ==
  /\ inAwait(c, "setup")
  /\ fault("setup")
  /\ drain' = [drain EXCEPT ![c] = Off]
  /\ UNCHANGED <<workerVars, queue, activeRun, watch, turnVars, userVars>>

-----------------------------------------------------------------------------
(* Answers.  The turns of R get their promise settled with o: one that is  *)
(* still running gets o as its status and its marker is posted; the chat   *)
(* of one that the watchdog has settled goes on.                           *)
(* Mutant: the answer does not ask whether the turn is settled already.    *)
unsettled_All(R) == R
unsettled(R) == {m \in R : status[m] = "running"}

(* Mutant: the answer of a settled turn is ignored.                        *)
late_None(R) == {}
late(R) == R \ unsettled(R)

advance(cs) ==
  /\ queue' = [c \in Chat |-> IF c \in cs THEN rest(queue[c]) ELSE queue[c]]
  /\ watch' = [c \in Chat |-> IF c \in cs /\ watch[c] = drain[c].turn THEN NoTurn ELSE watch[c]]
  /\ activeRun' = [c \in Chat |-> IF c \in cs /\ activeRun[c] = drain[c].turn THEN NoTurn ELSE activeRun[c]]

settle(R, o) ==
  LET open == unsettled(R)
      free == {chatOf[m] : m \in late(R)} IN
  /\ pending' = pending \ R
  /\ status' = [m \in Turn |-> IF m \in open THEN o ELSE status[m]]
  /\ advance(free)
  /\ drain' = [c \in Chat |-> IF c \in free THEN next(queue[c])
                              ELSE IF drain[c].turn \in open THEN [drain[c] EXCEPT !.at = "persist"]
                              ELSE drain[c]]
  /\ \E order \in SetToSeqs(open) : inbox' = posted([i \in DOMAIN order |-> Log(order[i])])
  /\ UNCHANGED <<live, ended>>

arrives(types) ==
  /\ outbox # <<>> /\ Head(outbox).type \in types
  /\ outbox' = Tail(outbox)

receiveResult ==
  /\ arrives(Outcome)
  /\ settle({Head(outbox).turn} \cap pending, Head(outbox).type)
  /\ UNCHANGED <<up, runVars, logVars, dumpVars, userVars, used>>

(* worker.onerror: every open promise is rejected, log calls are not.      *)
receiveError ==
  /\ arrives({"failed"})
  /\ settle(pending, "error")
  /\ UNCHANGED <<up, runVars, logVars, dumpVars, userVars, used>>

(* The record in memory goes when the marker is written, not before.       *)
(* Mutant: it goes whether it is written or not.                           *)
dropsLive_Always(type) == TRUE
dropsLive(type) == type = "logged"

receiveLogged ==
  /\ arrives({"logged", "log failed"})
  /\ LET m == Head(outbox).turn
         c == chatOf[m] IN
       /\ live' = IF dropsLive(Head(outbox).type) THEN live \ {m} ELSE live
       /\ IF drain[c] = [at |-> "persist", turn |-> m]
            THEN /\ ended' = [ended EXCEPT ![m] = @ + 1]
                 /\ advance({c})
                 /\ drain' = [drain EXCEPT ![c] = next(queue[c])]
            ELSE UNCHANGED <<ended, queue, watch, activeRun, drain>>
  /\ UNCHANGED <<up, inbox, runVars, logVars, dumpVars, pending, status, userVars, used>>

-----------------------------------------------------------------------------
(* settleStuck, when the watchdog has not heard of a turn for too long.    *)
reportStale(c) ==
  LET m == watch[c] IN
  /\ m # NoTurn
  /\ watch' = [watch EXCEPT ![c] = NoTurn]
  /\ IF status[m] # "running" THEN UNCHANGED <<inbox, activeRun, status, ended, asked>>
     ELSE /\ status' = [status EXCEPT ![m] = "error"]
          /\ ended' = [ended EXCEPT ![m] = @ + 1]
          /\ activeRun' = [activeRun EXCEPT ![c] = IF @ = m THEN NoTurn ELSE @]
          /\ inbox' = posted(IF activeRun[c] = m THEN <<Stop(m), Log(m)>> ELSE <<Log(m)>>)
          /\ asked' = IF activeRun[c] = m THEN asked \cup {m} ELSE asked
  /\ UNCHANGED <<up, outbox, runVars, logVars, dumpVars, queue, drain, pending, live, chatOf, gone>>

about(msgs, m) == \E i \in DOMAIN msgs : msgs[i].turn = m

(* Nothing will be heard of the turn any more.                             *)
silent(m) ==
  /\ m \notin executing \ wedged /\ m \notin writing
  /\ ~about(inbox, m) /\ ~about(outbox, m)

Stale(c) == watch[c] # NoTurn /\ silent(watch[c]) /\ reportStale(c) /\ UNCHANGED used

(* The computer slept: the clock has moved, the answers have not.          *)
StaleAfterSleep(c) == watch[c] # NoTurn /\ fault("sleep") /\ reportStale(c)

-----------------------------------------------------------------------------
(* What the user asks for.                                                 *)

clearQueue(c) == queue' = [queue EXCEPT ![c] = <<>>]

(* /api/chat/stop                                                          *)
stop(c) ==
  /\ command
  /\ clearQueue(c)
  /\ IF activeRun[c] = NoTurn THEN UNCHANGED <<inbox, asked>>
     ELSE /\ inbox' = posted(<<Stop(activeRun[c])>>)
          /\ asked' = asked \cup {activeRun[c]}
  /\ UNCHANGED <<up, outbox, runVars, logVars, dumpVars, drain, activeRun, watch, turnVars, chatOf, gone>>

(* /api/chat/queue/cancel                                                  *)
cancel(c, i) ==
  /\ i \in DOMAIN queue[c]
  /\ command
  /\ queue' = [queue EXCEPT ![c] = RemoveAt(@, i)]
  /\ UNCHANGED <<workerVars, drain, activeRun, watch, turnVars, userVars>>

(* /api/chats with delete: asks the worker first; the run is not stopped.  *)
deleteChat(c) ==
  /\ c \notin gone /\ up
  /\ command
  /\ gone' = gone \cup {c}
  /\ live' = {m \in live : chatOf[m] # c}
  /\ clearQueue(c)
  /\ UNCHANGED <<workerVars, drain, activeRun, watch, pending, status, ended, chatOf, asked>>

(* applyDatabaseDumps, after the sync engine has pulled dumps.             *)
pullDumps ==
  /\ command
  /\ inbox' = posted(<<Apply>>)
  /\ UNCHANGED <<up, outbox, runVars, logVars, dumpVars, chatVars, watch, turnVars, userVars>>

-----------------------------------------------------------------------------
pageVars == <<chatVars, watch, turnVars, userVars>>

PageStep ==
  \/ receiveResult \/ receiveError \/ receiveLogged
  \/ \E c \in Chat : startRun(c) \/ Stale(c)

User ==
  \/ \E m \in Turn, c \in Chat : submitTurn(m, c)
  \/ \E c \in Chat : stop(c) \/ deleteChat(c) \/ \E i \in DOMAIN queue[c] : cancel(c, i)
  \/ pullDumps

Faulty ==
  \/ \E c \in Chat : setupFails(c) \/ StaleAfterSleep(c)
  \/ /\ \/ \E m \in Turn : (LogFails(m) /\ fault("log")) \/ (Wedge(m) /\ fault("wedge"))
        \/ Uncaught /\ fault("error")
        \/ Die /\ fault("die")
     /\ UNCHANGED pageVars

Next == PageStep \/ (WorkerStep /\ UNCHANGED <<pageVars, used>>) \/ User \/ Faulty

Spec == Init /\ [][Next]_vars

(* The page and the worker handle what arrives; a run that is not wedged   *)
(* comes back, as model calls have deadlines; a marker is written; the     *)
(* watchdog looks every half minute.                                       *)
Fairness ==
  /\ WF_vars(receiveResult) /\ WF_vars(receiveError) /\ WF_vars(receiveLogged)
  /\ \A c \in Chat : WF_vars(startRun(c)) /\ WF_vars(Stale(c))
  /\ WF_vars((ReceiveRun \/ ReceiveStop \/ ReceiveLog \/ ReceiveApply) /\ UNCHANGED <<pageVars, used>>)
  /\ \A m \in Turn :
       /\ WF_vars(Finish(m) /\ UNCHANGED <<pageVars, used>>)
       /\ WF_vars(WriteMarker(m) /\ UNCHANGED <<pageVars, used>>)

FairSpec == Spec /\ Fairness

-----------------------------------------------------------------------------
(* Properties.                                                             *)

(* Every component of the state keeps its shape.                           *)
TypeOK ==
  /\ WorkerTypeOK
  /\ chatOf \in [Turn -> Chat \cup {NoChat}]
  /\ queue \in [Chat -> Seq(Turn)]
  /\ drain \in [Chat -> [at : At, turn : Turn \cup {NoTurn}]]
  /\ {activeRun, watch} \subseteq [Chat -> Turn \cup {NoTurn}]
  /\ {pending, live, asked} \subseteq SUBSET Turn
  /\ status \in [Turn -> Outcome \cup {"none", "running"}]
  /\ ended \in [Turn -> Nat]
  /\ gone \subseteq Chat
  /\ used \in [faults : 0 .. MaxFaults, commands : 0 .. MaxCommands]

(* The answer of a run and the watchdog may both settle its turn: only one *)
(* of them tells the user that it ended and writes its marker.             *)
EndsOnce == \A m \in Turn : ended[m] <= 1 /\ marker[m] <= 1

(* "a session never runs two turns at once": the worker has two runs of a  *)
(* chat only if an error it reported has made the page give one up.        *)
OneRun == \A m, n \in executing \cap pending : chatOf[m] = chatOf[n] => m = n

(* A turn that was started stays visible until its chat is deleted: in the *)
(* records of the page until the run log has its marker.  A turn whose     *)
(* marker was never written goes out of sight when Kept later turns of its *)
(* chat have been started.                                                 *)
followers(m) == {n \in Turn : status[n] # "none" /\ chatOf[n] = chatOf[m] /\ m < n}
crowdedOut(m) == Cardinality(followers(m)) >= Kept
StaysVisible ==
  \A m \in Turn :
    status[m] # "none" /\ chatOf[m] \notin gone => m \in live \/ marker[m] > 0 \/ crowdedOut(m)

(* A stop that crosses the end of its turn stops no other: a turn ends as  *)
(* stopped only if a stop was posted for it, or its run shared the worker. *)
StopsItsTurn == \A m \in Turn : status[m] = "stopped" => m \in asked \cup met

(* Dumps are not replayed under a turn that has the worker for itself.     *)
ReplayWaits == [][replays' > replays => executing' \subseteq met']_vars

(* The messages of a chat run in the order they were sent, one at a time.  *)
phaseOf(m) ==
  IF chatOf[m] = NoChat THEN "unsent"
  ELSE IF ended[m] > 0 THEN "ended"
  ELSE IF status[m] # "none" THEN "running"
  ELSE IF Contains(queue[chatOf[m]], m) \/ drain[chatOf[m]].turn = m THEN "waiting"
  ELSE "dropped"
Order == INSTANCE TurnOrder WITH phase <- [m \in Turn |-> phaseOf(m)]
InOrder == Order!Spec

(* Every turn that started is told to have ended, unless the worker dies.  *)
Ends == \A m \in Turn : status[m] # "none" ~> (ended[m] > 0 \/ ~up)

(* A message that waits is taken, unless a run of its chat never comes     *)
(* back, the worker dies or a failed set-up has left it for the next send. *)
waits(m) == phaseOf(m) = "waiting"
stranded(m) ==
  \/ ~up
  \/ inAwait(chatOf[m], "off")
  \/ \E n \in wedged : chatOf[n] = chatOf[m]
Moves == \A m \in Turn : waits(m) ~> (~waits(m) \/ stranded(m))

(* The error a stuck turn ends with says that "sending a new message       *)
(* resumes it": a message that waits behind such a turn is taken.  It does *)
(* not hold: the loop still awaits the run that is stuck.                  *)
stuck(n) == status[n] = "error" /\ n \in wedged
StuckResumes ==
  \A m, n \in Turn :
    (waits(m) /\ stuck(n) /\ chatOf[n] = chatOf[m] /\ n # m) ~> ~waits(m)
=============================================================================
