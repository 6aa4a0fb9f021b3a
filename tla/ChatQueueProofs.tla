---------------------------- MODULE ChatQueueProofs ----------------------------
(***************************************************************************)
(* Theorems about the chats of a page, for every set of turns and chats    *)
(* and every bound:                                                        *)
(*   TypeCorrect    the type invariant                                     *)
(*   RunsInOrder    a chat implements TurnOrder                            *)
(*   ToldAndMarkedOnce   a turn's end is told and logged at most once      *)
(*   OneRunPerChat       no two runs of one chat at a time                 *)
(*   StopsOnlyItsTurn    a stop reaches the turn it was asked for          *)
(*   StaysInSight        a turn that has not ended is shown                *)
(***************************************************************************)
EXTENDS ChatQueue, SequenceTheorems, FiniteSetTheorems, TLAPS

-----------------------------------------------------------------------------
(* Sequences.                                                              *)

(* The rest of a queue without its front keeps its elements and order.     *)
LEMMA TailOf ==
  ASSUME NEW T, NEW s \in Seq(T), s # <<>>
  PROVE  /\ Tail(s) \in Seq(T) /\ Head(s) \in T /\ Head(s) = s[1]
         /\ Len(s) \in Nat /\ Len(s) >= 1 /\ Len(Tail(s)) = Len(s) - 1
         /\ \A i \in 1 .. Len(Tail(s)) : Tail(s)[i] = s[i + 1]
  BY HeadTailProperties, LenProperties, EmptySeq

(* Taking out one element keeps the others and their order.                *)
LEMMA RemoveAtOf ==
  ASSUME NEW T, NEW s \in Seq(T), NEW i \in DOMAIN s
  PROVE  /\ RemoveAt(s, i) \in Seq(T)
         /\ Len(RemoveAt(s, i)) = Len(s) - 1
         /\ \A j \in 1 .. Len(s) - 1 : RemoveAt(s, i)[j] = IF j < i THEN s[j] ELSE s[j + 1]
<1>1. Len(s) \in Nat /\ DOMAIN s = 1 .. Len(s) /\ i \in 1 .. Len(s)
  BY LenProperties
<1>. DEFINE before == SubSeq(s, 1, i - 1)
            after == SubSeq(s, i + 1, Len(s))
<1>2. /\ before \in Seq(T) /\ Len(before) = i - 1
      /\ \A j \in 1 .. i - 1 : before[j] = s[j]
  BY <1>1, SubSeqProperties
<1>3. /\ after \in Seq(T) /\ Len(after) = Len(s) - i
      /\ \A j \in 1 .. Len(s) - i : after[j] = s[i + j]
  BY <1>1, SubSeqProperties
<1>4. RemoveAt(s, i) = before \o after
  BY DEF RemoveAt
<1>. HIDE DEF before, after
<1>5. /\ before \o after \in Seq(T) /\ Len(before \o after) = Len(before) + Len(after)
      /\ \A j \in 1 .. Len(before) + Len(after) :
           (before \o after)[j] = IF j <= Len(before) THEN before[j] ELSE after[j - Len(before)]
  BY <1>2, <1>3, ConcatProperties
<1>6. Len(before) = i - 1 /\ Len(before) + Len(after) = Len(s) - 1
  BY <1>1, <1>2, <1>3
<1>7. ASSUME NEW j \in 1 .. Len(s) - 1
      PROVE  (before \o after)[j] = IF j < i THEN s[j] ELSE s[j + 1]
  <2>1. (before \o after)[j] = IF j <= i - 1 THEN before[j] ELSE after[j - (i - 1)]
    BY <1>5, <1>6
  <2>2. CASE j < i
    BY <1>1, <1>2, <2>1, <2>2
  <2>3. CASE j >= i
    <3>1. j - (i - 1) \in 1 .. Len(s) - i /\ i + (j - (i - 1)) = j + 1
      BY <1>1, <2>3
    <3>2. after[j - (i - 1)] = s[i + (j - (i - 1))]
      BY <1>3, <3>1
    <3>3. ~(j < i) /\ ~(j <= i - 1)
      BY <1>1, <2>3
    <3>. QED BY <2>1, <3>1, <3>2, <3>3
  <2>4. j < i \/ j >= i
    BY <1>1
  <2>. QED BY <2>2, <2>3, <2>4
<1>. QED BY <1>4, <1>5, <1>6, <1>7

-----------------------------------------------------------------------------
(* The type invariant, strengthened: whatever the page and the worker name *)
(* is a turn that was sent, and the promises that are open are finitely    *)
(* many, so that their markers can be posted one after the other.          *)
Sent == {m \in Turn : chatOf[m] # NoChat}
Messages == [type : {"run", "stop", "log"}, turn : Sent] \cup {Apply}
Replies ==
  [type : Outcome \cup {"logged", "log failed"}, turn : Sent]
    \cup {[type |-> "failed", turn |-> NoTurn]}
Places == [at : {"setup", "running", "persist"}, turn : Sent] \cup {Off}

WorkerInv ==
  /\ up \in BOOLEAN /\ deferred \in BOOLEAN
  /\ inbox \in Seq(Messages) /\ outbox \in Seq(Replies)
  /\ executing \subseteq Sent /\ aborted \subseteq Sent /\ cut \subseteq Sent
  /\ met \subseteq Sent /\ wedged \subseteq Sent /\ writing \subseteq Sent
  /\ activeStop \in Sent \cup {NoTurn}
  /\ marker \in [Turn -> Nat] /\ replays \in Nat

ChatInv ==
  /\ queue \in [Chat -> Seq(Sent)]
  /\ drain \in [Chat -> Places]
  /\ activeRun \in [Chat -> Sent \cup {NoTurn}]
  /\ watch \in [Chat -> Sent \cup {NoTurn}]

TurnInv ==
  /\ pending \subseteq Sent /\ live \subseteq Sent /\ asked \subseteq Sent
  /\ IsFiniteSet(pending)
  /\ status \in [Turn -> Outcome \cup {"none", "running"}]
  /\ ended \in [Turn -> Nat]

UserInv ==
  /\ chatOf \in [Turn -> Chat \cup {NoChat}]
  /\ gone \subseteq Chat
  /\ used \in [faults : 0 .. MaxFaults, commands : 0 .. MaxCommands]

TypeInv == WorkerInv /\ ChatInv /\ TurnInv /\ UserInv

(* Nothing is sent, queued or posted at first.                             *)
LEMMA InitTypeInv == Init => TypeInv
<1>. SUFFICES ASSUME Init PROVE TypeInv
  OBVIOUS
<1>. USE DEF Init, WorkerInit
<1>1. WorkerInv
  BY EmptySeq DEF WorkerInv
<1>2. ChatInv
  BY EmptySeq DEF ChatInv, Places
<1>3. TurnInv
  BY FS_EmptySet DEF TurnInv
<1>4. UserInv
  BY BoundAssumption DEF UserInv
<1>. QED BY <1>1, <1>2, <1>3, <1>4 DEF TypeInv

(* The invariant gives the types of the module.                            *)
LEMMA TypeInvTypes == TypeInv => TypeOK
<1>. SUFFICES ASSUME TypeInv PROVE TypeOK
  OBVIOUS
<1>. USE DEF TypeInv, UserInv
<1>. DEFINE M == [type : {"run", "stop", "log", "db-apply"}, turn : Turn \cup {NoTurn}]
            R == [type : Answer, turn : Turn \cup {NoTurn}]
<1>1. Sent \subseteq Turn /\ Messages \subseteq M /\ Replies \subseteq R
  <2>1. Sent \subseteq Turn
    BY DEF Sent
  <2>2. Messages \subseteq M
    BY <2>1 DEF Messages, Apply
  <2>3. Replies \subseteq R
    <3>1. Outcome \cup {"logged", "log failed"} \subseteq Answer /\ "failed" \in Answer
      BY DEF Answer
    <3>2. [type |-> "failed", turn |-> NoTurn] \in R
      BY <3>1
    <3>. QED BY <2>1, <3>1, <3>2 DEF Replies
  <2>. QED BY <2>1, <2>2, <2>3
<1>2. inbox \in Seq(M) /\ outbox \in Seq(R)
  BY <1>1, SeqMonotonic DEF WorkerInv
<1>3. WorkerTypeOK
  BY <1>1, <1>2 DEF WorkerInv, WorkerTypeOK
<1>4. queue \in [Chat -> Seq(Turn)]
  BY <1>1, SeqMonotonic DEF ChatInv
<1>5. drain \in [Chat -> [at : At, turn : Turn \cup {NoTurn}]]
  BY <1>1 DEF ChatInv, Places, Off, At
<1>6. {activeRun, watch} \subseteq [Chat -> Turn \cup {NoTurn}]
  BY <1>1 DEF ChatInv
<1>7. {pending, live, asked} \subseteq SUBSET Turn
  BY <1>1 DEF TurnInv
<1>8. status \in [Turn -> Outcome \cup {"none", "running"}] /\ ended \in [Turn -> Nat]
  BY DEF TurnInv
<1>9. /\ chatOf \in [Turn -> Chat \cup {NoChat}]
      /\ gone \subseteq Chat
      /\ used \in [faults : 0 .. MaxFaults, commands : 0 .. MaxCommands]
  OBVIOUS
<1>. HIDE DEF TypeInv, UserInv
<1>. QED BY <1>3, <1>4, <1>5, <1>6, <1>7, <1>8, <1>9, Zenon DEF TypeOK

-----------------------------------------------------------------------------
(* The invariant is kept.                                                  *)

(* As long as nothing is sent, the same turns are.                         *)
LEMMA NothingSent ==
  ASSUME UNCHANGED chatOf
  PROVE  Sent' = Sent /\ Messages' = Messages /\ Replies' = Replies /\ Places' = Places
  BY DEF Sent, Messages, Replies, Places, Apply, Off, Outcome

(* What is posted, taken and answered.                                     *)
LEMMA MessagesTyped ==
  ASSUME NEW m \in Sent
  PROVE  /\ Run(m) \in Messages /\ Stop(m) \in Messages /\ Log(m) \in Messages
         /\ \A o \in Outcome \cup {"logged", "log failed"} : [type |-> o, turn |-> m] \in Replies
  BY DEF Run, Stop, Log, Messages, Replies

(* One message, and two.                                                   *)
LEMMA Few ==
  ASSUME NEW T, NEW a \in T, NEW b \in T
  PROVE  <<a>> \in Seq(T) /\ <<a, b>> \in Seq(T)
  OBVIOUS

(* What names no turn: dumps to apply, an error nobody caught.             *)
LEMMA OtherMessagesTyped ==
  Apply \in Messages /\ [type |-> "failed", turn |-> NoTurn] \in Replies
  BY DEF Messages, Replies

(* What the page posts keeps the inbox of the worker typed.                *)
LEMMA PostedTyped ==
  ASSUME TypeInv, NEW msgs \in Seq(Messages)
  PROVE  posted(msgs) \in Seq(Messages)
  BY ConcatProperties DEF posted, TypeInv, WorkerInv

(* Taking a message, which names a turn that was sent.                     *)
LEMMA ReceiveTyped ==
  ASSUME TypeInv, NEW type, receive(type)
  PROVE  /\ inbox' \in Seq(Messages)
         /\ type # "db-apply" => Head(inbox).turn \in Sent
<1>1. inbox' \in Seq(Messages) /\ Head(inbox) \in Messages /\ Head(inbox).type = type
  BY TailOf DEF receive, TypeInv, WorkerInv
<1>. QED BY <1>1 DEF Messages, Apply

(* What the worker answers keeps its outbox typed.                         *)
LEMMA PostTyped ==
  ASSUME TypeInv, NEW o, NEW m, [type |-> o, turn |-> m] \in Replies, post(o, m)
  PROVE  outbox' \in Seq(Replies)
  BY AppendProperties DEF post, TypeInv, WorkerInv

(* Taking an answer, which names a turn that was sent unless it is an      *)
(* error.                                                                  *)
LEMMA ArrivesTyped ==
  ASSUME TypeInv, NEW types, arrives(types)
  PROVE  /\ outbox' \in Seq(Replies) /\ Head(outbox).type \in types
         /\ Head(outbox).type # "failed" => Head(outbox).turn \in Sent
<1>1. outbox' \in Seq(Replies) /\ Head(outbox) \in Replies /\ Head(outbox).type \in types
  BY TailOf DEF arrives, TypeInv, WorkerInv
<1>2. ASSUME NEW r \in Replies, r.type # "failed"
      PROVE  r.turn \in Sent
  <2>1. r # [type |-> "failed", turn |-> NoTurn]
    BY <1>2
  <2>2. r \in [type : Outcome \cup {"logged", "log failed"}, turn : Sent]
    BY <2>1 DEF Replies
  <2>. QED BY <2>2
<1>. QED BY <1>1, <1>2

(* The steps of the worker.                                                *)
WorkerActs ==
  \/ WorkerStep \/ Uncaught \/ Die
  \/ \E m \in Turn : LogFails(m) \/ Wedge(m)

(* No step of the worker, alone or faulty, disturbs its types.             *)
LEMMA WorkerKeeps ==
  ASSUME TypeInv, UNCHANGED chatOf, WorkerActs
  PROVE  WorkerInv'
<1>. USE NothingSent
<1>1. CASE ReceiveRun
  <2>1. inbox' \in Seq(Messages) /\ Head(inbox).turn \in Sent
    BY <1>1, ReceiveTyped DEF ReceiveRun
  <2>. QED BY <1>1, <2>1 DEF ReceiveRun, TypeInv, WorkerInv, logVars, dumpVars
<1>2. CASE ReceiveStop
  <2>1. inbox' \in Seq(Messages)
    BY <1>2, ReceiveTyped DEF ReceiveStop
  <2>2. aborted' \subseteq Sent /\ cut' \subseteq Sent
    BY <1>2, NoTurnAssumption, ReceiveTyped DEF ReceiveStop, TypeInv, WorkerInv, aims, Sent
  <2>. QED BY <1>2, <2>1, <2>2 DEF ReceiveStop, TypeInv, WorkerInv, logVars, dumpVars
<1>3. CASE ReceiveLog
  <2>1. inbox' \in Seq(Messages) /\ Head(inbox).turn \in Sent
    BY <1>3, ReceiveTyped DEF ReceiveLog
  <2>. QED BY <1>3, <2>1 DEF ReceiveLog, TypeInv, WorkerInv, runVars, dumpVars
<1>4. CASE ReceiveApply
  <2>1. inbox' \in Seq(Messages)
    BY <1>4, ReceiveTyped DEF ReceiveApply
  <2>2. deferred' \in BOOLEAN /\ replays' \in Nat
    BY <1>4 DEF ReceiveApply, TypeInv, WorkerInv
  <2>. QED BY <1>4, <2>1, <2>2 DEF ReceiveApply, TypeInv, WorkerInv, runVars, logVars
<1>5. ASSUME NEW m \in Turn, Finish(m)
      PROVE  WorkerInv'
  <2>1. m \in Sent
    BY <1>5 DEF Finish, TypeInv, WorkerInv
  <2>2. PICK o \in outcomes(m) : post(o, m)
    BY <1>5 DEF Finish
  <2>3. o \in Outcome
    BY <2>2 DEF outcomes, Outcome
  <2>4. outbox' \in Seq(Replies)
    BY <2>1, <2>2, <2>3, MessagesTyped, PostTyped
  <2>5. deferred' \in BOOLEAN /\ replays' \in Nat
    BY <1>5 DEF Finish, TypeInv, WorkerInv
  <2>. QED BY <1>5, <2>4, <2>5 DEF Finish, TypeInv, WorkerInv, logVars
<1>6. ASSUME NEW m \in Turn, WriteMarker(m) \/ LogFails(m)
      PROVE  WorkerInv'
  <2>1. m \in Sent
    BY <1>6 DEF WriteMarker, LogFails, TypeInv, WorkerInv
  <2>2. outbox' \in Seq(Replies)
    BY <1>6, <2>1, MessagesTyped, PostTyped DEF WriteMarker, LogFails
  <2>3. writing' \subseteq Sent /\ marker' \in [Turn -> Nat]
    <3>1. CASE WriteMarker(m)
      BY <3>1 DEF WriteMarker, TypeInv, WorkerInv
    <3>2. CASE LogFails(m)
      BY <3>2 DEF LogFails, TypeInv, WorkerInv
    <3>. QED BY <1>6, <3>1, <3>2
  <2>4. UNCHANGED <<up, inbox, runVars, dumpVars>>
    BY <1>6 DEF WriteMarker, LogFails
  <2>. QED BY <2>2, <2>3, <2>4 DEF TypeInv, WorkerInv, runVars, dumpVars
<1>7. ASSUME NEW m \in Turn, Wedge(m)
      PROVE  WorkerInv'
  BY <1>7 DEF Wedge, TypeInv, WorkerInv, logVars, dumpVars
<1>8. CASE Uncaught
  <2>1. outbox' \in Seq(Replies)
    BY <1>8, OtherMessagesTyped, PostTyped DEF Uncaught
  <2>. QED BY <1>8, <2>1 DEF Uncaught, TypeInv, WorkerInv, runVars, logVars, dumpVars
<1>9. CASE Die
  BY <1>9, EmptySeq DEF Die, TypeInv, WorkerInv, dumpVars
<1>. QED BY <1>1, <1>2, <1>3, <1>4, <1>5, <1>6, <1>7, <1>8, <1>9 DEF WorkerActs, WorkerStep

(* The loop of a chat takes the next turn, or stops.                       *)
LEMMA NextTyped ==
  ASSUME NEW q \in Seq(Sent)
  PROVE  rest(q) \in Seq(Sent) /\ next(q) \in Places
  BY TailOf DEF rest, next, Places

(* A chat that goes on keeps the types of its queue, run and watch.        *)
LEMMA AdvanceKeeps ==
  ASSUME TypeInv, NEW cs, advance(cs)
  PROVE  /\ queue' \in [Chat -> Seq(Sent)]
         /\ activeRun' \in [Chat -> Sent \cup {NoTurn}]
         /\ watch' \in [Chat -> Sent \cup {NoTurn}]
<1>1. \A c \in Chat : queue[c] \in Seq(Sent) /\ rest(queue[c]) \in Seq(Sent)
  BY NextTyped DEF TypeInv, ChatInv
<1>2. queue' \in [Chat -> Seq(Sent)]
  BY <1>1 DEF advance
<1>3. /\ activeRun' \in [Chat -> Sent \cup {NoTurn}]
      /\ watch' \in [Chat -> Sent \cup {NoTurn}]
  BY DEF advance, TypeInv, ChatInv
<1>. QED BY <1>2, <1>3

(* A place names a turn that was sent, or is none.                         *)
LEMMA PlaceOf ==
  ASSUME NEW d \in Places
  PROVE  /\ d = [at |-> d.at, turn |-> d.turn]
         /\ d.at = "off" => d = Off
         /\ d.at # "off" => d.at \in {"setup", "running", "persist"} /\ d.turn \in Sent
         /\ d.turn \in Sent => d.at # "off"
<1>1. CASE d = Off
  BY <1>1, NoTurnAssumption DEF Off, Sent
<1>2. CASE d \in [at : {"setup", "running", "persist"}, turn : Sent]
  BY <1>2
<1>. QED BY <1>1, <1>2 DEF Places

(* The markers of finitely many turns can be posted in some order.         *)
LEMMA MarkersTyped ==
  ASSUME NEW open, IsFiniteSet(open), open \subseteq Sent, NEW order \in SetToSeqs(open)
  PROVE  [i \in DOMAIN order |-> Log(order[i])] \in Seq(Messages)
<1>1. Cardinality(open) \in Nat
  BY FS_CardinalityType
<1>2. order \in [1 .. Cardinality(open) -> open]
  BY DEF SetToSeqs
<1>3. /\ DOMAIN order = 1 .. Cardinality(open)
      /\ \A i \in 1 .. Cardinality(open) : Log(order[i]) \in Messages
  BY <1>2, MessagesTyped
<1>. QED BY <1>1, <1>3, IsASeq

(* Settling promises keeps every type it touches, the order of the markers *)
(* included.                                                               *)
LEMMA SettleKeeps ==
  ASSUME TypeInv, NEW R \in SUBSET pending, NEW o \in Outcome, settle(R, o)
  PROVE  /\ inbox' \in Seq(Messages)
         /\ queue' \in [Chat -> Seq(Sent)] /\ drain' \in [Chat -> Places]
         /\ activeRun' \in [Chat -> Sent \cup {NoTurn}]
         /\ watch' \in [Chat -> Sent \cup {NoTurn}]
         /\ pending' \subseteq Sent /\ IsFiniteSet(pending')
         /\ status' \in [Turn -> Outcome \cup {"none", "running"}]
         /\ UNCHANGED <<live, ended>>
<1>. DEFINE open == unsettled(R)
            free == {chatOf[m] : m \in late(R)}
<1>1. open \subseteq pending /\ open \subseteq Sent /\ IsFiniteSet(open)
  BY FS_Subset DEF unsettled, TypeInv, TurnInv
<1>2. PICK order \in SetToSeqs(open) : inbox' = posted([i \in DOMAIN order |-> Log(order[i])])
  BY DEF settle
<1>3. inbox' \in Seq(Messages)
  BY <1>1, <1>2, MarkersTyped, PostedTyped
<1>4. pending' \subseteq Sent /\ IsFiniteSet(pending')
  BY FS_Subset DEF settle, TypeInv, TurnInv
<1>5. status' \in [Turn -> Outcome \cup {"none", "running"}]
  BY DEF settle, TypeInv, TurnInv
<1>6. ASSUME NEW c \in Chat
      PROVE  /\ next(queue[c]) \in Places /\ drain[c] \in Places
             /\ drain[c].turn \in open => [drain[c] EXCEPT !.at = "persist"] \in Places
  <2>1. next(queue[c]) \in Places /\ drain[c] \in Places
    BY NextTyped DEF TypeInv, ChatInv
  <2>2. ASSUME drain[c].turn \in Sent
        PROVE  [drain[c] EXCEPT !.at = "persist"] \in Places
    <3>1. drain[c] = [at |-> drain[c].at, turn |-> drain[c].turn]
      BY <2>1, PlaceOf
    <3>2. [drain[c] EXCEPT !.at = "persist"] = [at |-> "persist", turn |-> drain[c].turn]
      BY <3>1
    <3>. QED BY <2>2, <3>2 DEF Places
  <2>. QED BY <1>1, <2>1, <2>2
<1>7. drain' \in [Chat -> Places]
  BY <1>6 DEF settle
<1>8. advance(free)
  BY DEF settle
<1>9. UNCHANGED <<live, ended>>
  BY DEF settle
<1>. QED BY <1>3, <1>4, <1>5, <1>7, <1>8, <1>9, AdvanceKeeps

(* Sending makes one more turn known: what was named stays named.          *)
LEMMA SubmitKeeps ==
  ASSUME TypeInv, NEW m \in Turn, NEW c \in Chat, submitTurn(m, c)
  PROVE  TypeInv'
<1>1. chatOf' \in [Turn -> Chat \cup {NoChat}] /\ Sent' = Sent \cup {m}
  BY NoChatAssumption DEF submitTurn, TypeInv, UserInv, Sent
<1>2. Messages \subseteq Messages' /\ Replies \subseteq Replies' /\ Places \subseteq Places'
  <2>1. Messages \subseteq Messages'
    BY <1>1 DEF Messages, Apply
  <2>2. Replies \subseteq Replies'
    BY <1>1 DEF Replies, Outcome
  <2>3. Places \subseteq Places'
    BY <1>1 DEF Places, Off
  <2>. QED BY <2>1, <2>2, <2>3
<1>3. UNCHANGED <<workerVars, activeRun, watch, turnVars, asked, gone, used>>
  BY DEF submitTurn
<1>4. WorkerInv'
  <2>1. inbox' \in Seq(Messages') /\ outbox' \in Seq(Replies')
    BY <1>2, <1>3, SeqMonotonic DEF workerVars, TypeInv, WorkerInv
  <2>2. UNCHANGED <<up, executing, activeStop, aborted, cut, met, wedged, writing, marker, deferred, replays>>
    BY <1>3 DEF workerVars, runVars, logVars, dumpVars
  <2>. QED BY <1>1, <2>1, <2>2 DEF TypeInv, WorkerInv
<1>5. ChatInv'
  <2>. DEFINE q == enqueued(queue[c], m)
  <2>1. \A x \in Chat : queue[x] \in Seq(Sent')
    BY <1>1, SeqMonotonic DEF TypeInv, ChatInv
  <2>2. q \in Seq(Sent')
    BY <1>1, <2>1, AppendProperties DEF enqueued
  <2>3. rest(q) \in Seq(Sent') /\ next(q) \in Places'
    <3>1. CASE q = <<>>
      BY <2>2, <3>1 DEF rest, next, Places
    <3>2. CASE q # <<>>
      BY <2>2, <3>2, TailOf DEF rest, next, Places
    <3>. QED BY <3>1, <3>2
  <2>. HIDE DEF q
  <2>4. queue' \in [Chat -> Seq(Sent')] /\ drain' \in [Chat -> Places']
    <3>1. CASE idle(c)
      BY <1>2, <2>1, <2>3, <3>1 DEF submitTurn, q, TypeInv, ChatInv
    <3>2. CASE ~idle(c)
      BY <1>2, <2>1, <2>2, <3>2 DEF submitTurn, q, TypeInv, ChatInv
    <3>. QED BY <3>1, <3>2
  <2>. QED BY <1>1, <1>3, <2>4 DEF TypeInv, ChatInv
<1>6. TurnInv'
  BY <1>1, <1>3 DEF turnVars, TypeInv, TurnInv
<1>7. UserInv'
  BY <1>1, <1>3 DEF TypeInv, UserInv
<1>. QED BY <1>4, <1>5, <1>6, <1>7 DEF TypeInv

(* A stop, a cancel, a delete, a pull and a fault are counted.             *)
LEMMA UsedTyped ==
  ASSUME TypeInv, command \/ \E f \in Fault : fault(f)
  PROVE  used' \in [faults : 0 .. MaxFaults, commands : 0 .. MaxCommands]
<1>1. MaxFaults \in Nat /\ MaxCommands \in Nat
  BY BoundAssumption
<1>2. CASE command
  BY <1>1, <1>2 DEF command, TypeInv, UserInv
<1>3. CASE \E f \in Fault : fault(f)
  BY <1>1, <1>3 DEF fault, TypeInv, UserInv
<1>. QED BY <1>2, <1>3

(* The steps of the loop of a chat.                                        *)
LEMMA StartKeeps ==
  ASSUME TypeInv, NEW c \in Chat, startRun(c)
  PROVE  TypeInv'
<1>. USE NothingSent DEF userVars
<1>. DEFINE m == drain[c].turn
<1>1. UNCHANGED <<chatOf, asked, gone, used, queue, ended>> /\ m \in Sent /\ m \in Turn
  BY PlaceOf DEF startRun, inAwait, TypeInv, ChatInv, Sent
<1>2. WorkerInv'
  <2>1. <<Run(m)>> \in Seq(Messages)
    BY <1>1, MessagesTyped, Few
  <2>2. inbox' \in Seq(Messages)
    BY <2>1, PostedTyped DEF startRun
  <2>. QED BY <1>1, <2>2 DEF startRun, runVars, logVars, dumpVars, TypeInv, WorkerInv
<1>3. ChatInv'
  <2>1. [drain[c] EXCEPT !.at = "running"] \in Places
    <3>1. drain[c] = [at |-> drain[c].at, turn |-> m]
      BY PlaceOf DEF TypeInv, ChatInv
    <3>2. [drain[c] EXCEPT !.at = "running"] = [at |-> "running", turn |-> m]
      BY <3>1
    <3>. QED BY <1>1, <3>2 DEF Places
  <2>2. drain' = [drain EXCEPT ![c] = [drain[c] EXCEPT !.at = "running"]]
    BY DEF startRun
  <2>. QED BY <1>1, <2>1, <2>2 DEF startRun, watched, TypeInv, ChatInv
<1>4. TurnInv'
  BY <1>1, FS_AddElement DEF startRun, TypeInv, TurnInv
<1>. QED BY <1>1, <1>2, <1>3, <1>4 DEF TypeInv, UserInv

(* A set-up that throws leaves the loop at rest.                           *)
LEMMA SetupFailsKeeps ==
  ASSUME TypeInv, NEW c \in Chat, setupFails(c)
  PROVE  TypeInv'
<1>. USE NothingSent DEF setupFails, userVars
<1>1. UNCHANGED <<chatOf, asked, gone>> /\ used' \in [faults : 0 .. MaxFaults, commands : 0 .. MaxCommands]
  BY UsedTyped DEF fault
<1>2. WorkerInv'
  BY <1>1 DEF workerVars, runVars, logVars, dumpVars, TypeInv, WorkerInv
<1>3. ChatInv'
  BY <1>1 DEF TypeInv, ChatInv, Places
<1>4. TurnInv'
  BY <1>1 DEF turnVars, TypeInv, TurnInv
<1>. QED BY <1>1, <1>2, <1>3, <1>4 DEF TypeInv, UserInv

(* The answers.                                                            *)
LEMMA ResultKeeps ==
  ASSUME TypeInv, receiveResult \/ receiveError
  PROVE  TypeInv'
<1>. USE NothingSent DEF userVars
<1>1. UNCHANGED <<up, runVars, logVars, dumpVars, chatOf, asked, gone, used>>
  BY DEF receiveResult, receiveError
<1>2. outbox' \in Seq(Replies)
  BY ArrivesTyped DEF receiveResult, receiveError
<1>3. PICK R \in SUBSET pending, o \in Outcome : settle(R, o)
  <2>1. CASE receiveResult
    BY <2>1 DEF receiveResult, arrives
  <2>2. CASE receiveError
    BY <2>2 DEF receiveError, Outcome
  <2>. QED BY <2>1, <2>2
<1>4. /\ inbox' \in Seq(Messages)
      /\ queue' \in [Chat -> Seq(Sent)] /\ drain' \in [Chat -> Places]
      /\ activeRun' \in [Chat -> Sent \cup {NoTurn}]
      /\ watch' \in [Chat -> Sent \cup {NoTurn}]
      /\ pending' \subseteq Sent /\ IsFiniteSet(pending')
      /\ status' \in [Turn -> Outcome \cup {"none", "running"}]
      /\ UNCHANGED <<live, ended>>
  BY <1>3, SettleKeeps
<1>5. WorkerInv'
  BY <1>1, <1>2, <1>4 DEF runVars, logVars, dumpVars, TypeInv, WorkerInv
<1>6. ChatInv'
  BY <1>1, <1>4 DEF ChatInv
<1>7. TurnInv'
  BY <1>1, <1>4 DEF TypeInv, TurnInv
<1>. QED BY <1>1, <1>5, <1>6, <1>7 DEF TypeInv, UserInv

(* The marker of a turn is written, or has failed.                         *)
LEMMA LoggedKeeps ==
  ASSUME TypeInv, receiveLogged
  PROVE  TypeInv'
<1>. USE NothingSent DEF userVars
<1>. DEFINE m == Head(outbox).turn
            c == chatOf[m]
<1>1. UNCHANGED <<up, inbox, runVars, logVars, dumpVars, pending, status, chatOf, asked, gone, used>>
  BY DEF receiveLogged
<1>2. outbox' \in Seq(Replies) /\ m \in Sent /\ m \in Turn /\ c \in Chat
  <2>1. arrives({"logged", "log failed"})
    BY DEF receiveLogged
  <2>2. outbox' \in Seq(Replies) /\ m \in Sent
    <3>1. /\ outbox' \in Seq(Replies) /\ Head(outbox).type \in {"logged", "log failed"}
          /\ Head(outbox).type # "failed" => m \in Sent
      BY <2>1, ArrivesTyped
    <3>. QED BY <3>1
  <2>. QED BY <2>2 DEF Sent, TypeInv, UserInv
<1>3. WorkerInv'
  BY <1>1, <1>2 DEF runVars, logVars, dumpVars, TypeInv, WorkerInv
<1>4. ChatInv' /\ ended' \in [Turn -> Nat]
  <2>1. CASE drain[c] = [at |-> "persist", turn |-> m]
    <3>1. advance({c}) /\ drain' = [drain EXCEPT ![c] = next(queue[c])]
      BY <2>1 DEF receiveLogged
    <3>2. next(queue[c]) \in Places
      BY <1>2, NextTyped DEF TypeInv, ChatInv
    <3>3. drain' \in [Chat -> Places]
      BY <3>1, <3>2 DEF TypeInv, ChatInv
    <3>4. ended' \in [Turn -> Nat]
      <4>1. ended' = [ended EXCEPT ![m] = @ + 1]
        BY <2>1 DEF receiveLogged
      <4>. HIDE DEF m
      <4>. QED BY <1>2, <4>1 DEF TypeInv, TurnInv
    <3>. QED BY <1>1, <3>1, <3>3, <3>4, AdvanceKeeps DEF ChatInv
  <2>2. CASE drain[c] # [at |-> "persist", turn |-> m]
    <3>1. UNCHANGED <<ended, queue, watch, activeRun, drain>>
      BY <2>2 DEF receiveLogged
    <3>. QED BY <1>1, <3>1 DEF TypeInv, ChatInv, TurnInv
  <2>. QED BY <2>1, <2>2
<1>5. TurnInv'
  BY <1>1, <1>4 DEF receiveLogged, TypeInv, TurnInv
<1>. QED BY <1>1, <1>3, <1>4, <1>5 DEF TypeInv, UserInv

(* The watchdog.                                                           *)
LEMMA StaleKeeps ==
  ASSUME TypeInv, NEW c \in Chat, Stale(c) \/ StaleAfterSleep(c)
  PROVE  TypeInv'
<1>. USE NothingSent
<1>. DEFINE m == watch[c]
<1>1. reportStale(c) /\ UNCHANGED <<up, outbox, runVars, logVars, dumpVars, queue, drain, pending, live, chatOf, gone>>
  BY DEF Stale, StaleAfterSleep, reportStale
<1>2. used' \in [faults : 0 .. MaxFaults, commands : 0 .. MaxCommands]
  BY UsedTyped DEF Stale, StaleAfterSleep, fault, TypeInv, UserInv
<1>3. m \in Sent /\ m \in Turn
  BY <1>1 DEF reportStale, TypeInv, ChatInv, Sent
<1>4. inbox' \in Seq(Messages)
  <2>1. <<Stop(m), Log(m)>> \in Seq(Messages) /\ <<Log(m)>> \in Seq(Messages)
    <3>. HIDE DEF m
    <3>. QED BY <1>3, MessagesTyped, Few
  <2>2. /\ posted(<<Stop(m), Log(m)>>) \in Seq(Messages) /\ posted(<<Log(m)>>) \in Seq(Messages)
        /\ inbox \in Seq(Messages)
    BY <2>1, PostedTyped DEF TypeInv, WorkerInv
  <2>. QED BY <1>1, <2>2 DEF reportStale
<1>5. WorkerInv'
  BY <1>1, <1>4 DEF runVars, logVars, dumpVars, TypeInv, WorkerInv
<1>6. ChatInv'
  BY <1>1 DEF reportStale, TypeInv, ChatInv
<1>7. status' \in [Turn -> Outcome \cup {"none", "running"}] /\ ended' \in [Turn -> Nat]
  BY <1>1, <1>3 DEF reportStale, TypeInv, TurnInv, Outcome
<1>8. asked' \subseteq Sent
  BY <1>1, <1>3 DEF reportStale, TypeInv, TurnInv
<1>9. TurnInv'
  BY <1>1, <1>7, <1>8 DEF TypeInv, TurnInv
<1>. QED BY <1>1, <1>2, <1>5, <1>6, <1>9 DEF TypeInv, UserInv

(* What the user asks for.                                                 *)
LEMMA StopKeeps ==
  ASSUME TypeInv, NEW c \in Chat, stop(c)
  PROVE  TypeInv'
<1>. USE NothingSent
<1>1. UNCHANGED <<up, outbox, runVars, logVars, dumpVars, drain, activeRun, watch, turnVars, chatOf, gone>>
  BY DEF stop
<1>2. used' \in [faults : 0 .. MaxFaults, commands : 0 .. MaxCommands]
  BY UsedTyped DEF stop
<1>3. inbox' \in Seq(Messages) /\ asked' \subseteq Sent
  <2>1. CASE activeRun[c] = NoTurn
    BY <2>1 DEF stop, TypeInv, WorkerInv, TurnInv
  <2>2. CASE activeRun[c] # NoTurn
    <3>1. activeRun[c] \in Sent
      BY <2>2 DEF TypeInv, ChatInv
    <3>2. <<Stop(activeRun[c])>> \in Seq(Messages)
      BY <3>1, MessagesTyped, Few
    <3>3. posted(<<Stop(activeRun[c])>>) \in Seq(Messages)
      BY <3>2, PostedTyped
    <3>. QED BY <2>2, <3>1, <3>3 DEF stop, TypeInv, TurnInv
  <2>. QED BY <2>1, <2>2
<1>4. WorkerInv'
  BY <1>1, <1>3 DEF runVars, logVars, dumpVars, TypeInv, WorkerInv
<1>5. ChatInv'
  BY <1>1, EmptySeq DEF stop, clearQueue, TypeInv, ChatInv
<1>6. TurnInv'
  BY <1>1, <1>3 DEF turnVars, TypeInv, TurnInv
<1>. QED BY <1>1, <1>2, <1>4, <1>5, <1>6 DEF TypeInv, UserInv

(* Cancelling takes one turn out of a queue.                               *)
LEMMA CancelKeeps ==
  ASSUME TypeInv, NEW c \in Chat, NEW i, cancel(c, i)
  PROVE  TypeInv'
<1>. USE NothingSent
<1>1. UNCHANGED <<workerVars, drain, activeRun, watch, turnVars, chatOf, asked, gone>>
  BY DEF cancel, userVars
<1>2. used' \in [faults : 0 .. MaxFaults, commands : 0 .. MaxCommands]
  BY UsedTyped DEF cancel
<1>3. WorkerInv'
  BY <1>1 DEF workerVars, runVars, logVars, dumpVars, TypeInv, WorkerInv
<1>4. RemoveAt(queue[c], i) \in Seq(Sent)
  BY RemoveAtOf DEF cancel, TypeInv, ChatInv
<1>5. ChatInv'
  BY <1>1, <1>4 DEF cancel, TypeInv, ChatInv
<1>6. TurnInv'
  BY <1>1 DEF turnVars, TypeInv, TurnInv
<1>. QED BY <1>1, <1>2, <1>3, <1>5, <1>6 DEF TypeInv, UserInv

(* Deleting a chat empties its queue and forgets its records.              *)
LEMMA DeleteKeeps ==
  ASSUME TypeInv, NEW c \in Chat, deleteChat(c)
  PROVE  TypeInv'
<1>. USE NothingSent
<1>1. UNCHANGED <<workerVars, drain, activeRun, watch, pending, status, ended, chatOf, asked>>
  BY DEF deleteChat
<1>2. used' \in [faults : 0 .. MaxFaults, commands : 0 .. MaxCommands]
  BY UsedTyped DEF deleteChat
<1>3. WorkerInv'
  BY <1>1 DEF workerVars, runVars, logVars, dumpVars, TypeInv, WorkerInv
<1>4. ChatInv'
  BY <1>1, EmptySeq DEF deleteChat, clearQueue, TypeInv, ChatInv
<1>5. TurnInv'
  BY <1>1 DEF deleteChat, TypeInv, TurnInv
<1>6. gone' \subseteq Chat
  BY DEF deleteChat, TypeInv, UserInv
<1>. QED BY <1>1, <1>2, <1>3, <1>4, <1>5, <1>6 DEF TypeInv, UserInv

(* A pull of dumps posts one message.                                      *)
LEMMA PullKeeps ==
  ASSUME TypeInv, pullDumps
  PROVE  TypeInv'
<1>. USE NothingSent
<1>1. UNCHANGED <<up, outbox, runVars, logVars, dumpVars, chatVars, watch, turnVars, chatOf, asked, gone>>
  BY DEF pullDumps, userVars
<1>2. used' \in [faults : 0 .. MaxFaults, commands : 0 .. MaxCommands]
  BY UsedTyped DEF pullDumps
<1>3. inbox' \in Seq(Messages)
  <2>1. <<Apply>> \in Seq(Messages)
    BY OtherMessagesTyped
  <2>. QED BY <2>1, PostedTyped DEF pullDumps
<1>4. WorkerInv'
  BY <1>1, <1>3 DEF runVars, logVars, dumpVars, TypeInv, WorkerInv
<1>5. ChatInv' /\ TurnInv'
  BY <1>1 DEF chatVars, turnVars, TypeInv, ChatInv, TurnInv
<1>. QED BY <1>1, <1>2, <1>4, <1>5 DEF TypeInv, UserInv

(* The worker beside a page that does nothing.                             *)
WorkerAlone ==
  /\ WorkerActs /\ UNCHANGED pageVars
  /\ UNCHANGED used \/ \E f \in Fault : fault(f)

(* Such a step keeps the invariant.                                        *)
LEMMA WorkerAloneKeeps ==
  ASSUME TypeInv, WorkerAlone
  PROVE  TypeInv'
<1>. USE NothingSent
<1>1. UNCHANGED <<chatVars, watch, turnVars, chatOf, asked, gone>>
  BY DEF WorkerAlone, pageVars, userVars
<1>2. used' \in [faults : 0 .. MaxFaults, commands : 0 .. MaxCommands]
  BY UsedTyped DEF WorkerAlone, TypeInv, UserInv
<1>3. WorkerInv'
  BY <1>1, WorkerKeeps DEF WorkerAlone
<1>4. ChatInv' /\ TurnInv'
  BY <1>1 DEF chatVars, turnVars, TypeInv, ChatInv, TurnInv
<1>. QED BY <1>1, <1>2, <1>3, <1>4 DEF TypeInv, UserInv

(* Every step is one of these.                                             *)
LEMMA StepCases ==
  ASSUME Next
  PROVE  \/ \E m \in Turn, c \in Chat : submitTurn(m, c)
         \/ \E c \in Chat : startRun(c) \/ setupFails(c)
         \/ receiveResult \/ receiveError \/ receiveLogged
         \/ \E c \in Chat : Stale(c) \/ StaleAfterSleep(c)
         \/ \E c \in Chat : stop(c) \/ deleteChat(c) \/ \E i \in DOMAIN queue[c] : cancel(c, i)
         \/ pullDumps \/ WorkerAlone
<1>1. CASE PageStep
  BY <1>1 DEF PageStep
<1>2. CASE User
  BY <1>2 DEF User
<1>3. CASE WorkerStep /\ UNCHANGED <<pageVars, used>>
  BY <1>3 DEF WorkerAlone, WorkerActs
<1>4. CASE Faulty
  <2>1. CASE \E c \in Chat : setupFails(c) \/ StaleAfterSleep(c)
    BY <2>1
  <2>2. CASE /\ \/ \E m \in Turn : (LogFails(m) /\ fault("log")) \/ (Wedge(m) /\ fault("wedge"))
                \/ Uncaught /\ fault("error")
                \/ Die /\ fault("die")
             /\ UNCHANGED pageVars
    BY <2>2 DEF WorkerAlone, WorkerActs, fault
  <2>. QED BY <1>4, <2>1, <2>2 DEF Faulty
<1>. QED BY <1>1, <1>2, <1>3, <1>4 DEF Next

(* Every step keeps the invariant.                                         *)
LEMMA NextTypeInv == TypeInv /\ [Next]_vars => TypeInv'
<1>. SUFFICES ASSUME TypeInv, [Next]_vars PROVE TypeInv'
  OBVIOUS
<1>1. CASE UNCHANGED vars
  <2>. USE <1>1, NothingSent DEF vars, userVars
  <2>1. WorkerInv'
    BY DEF workerVars, runVars, logVars, dumpVars, TypeInv, WorkerInv
  <2>2. ChatInv' /\ TurnInv'
    BY DEF chatVars, turnVars, TypeInv, ChatInv, TurnInv
  <2>. QED BY <2>1, <2>2 DEF TypeInv, UserInv
<1>2. CASE Next
  BY <1>2, StepCases, SubmitKeeps, StartKeeps, SetupFailsKeeps, ResultKeeps, LoggedKeeps,
     StaleKeeps, StopKeeps, CancelKeeps, DeleteKeeps, PullKeeps, WorkerAloneKeeps
<1>. QED BY <1>1, <1>2

(* The type invariant: every component of the page and of its worker keeps *)
(* its shape, whatever the interleaving.                                   *)
THEOREM TypeCorrect == Spec => []TypeOK
<1>1. Spec => []TypeInv
  BY InitTypeInv, NextTypeInv, PTL DEF Spec
<1>. QED BY <1>1, TypeInvTypes, PTL

-----------------------------------------------------------------------------
(* Order.  The queue of a chat is sorted and behind the turn of its loop;  *)
(* the loop is where the status of its turn says, and a turn that was      *)
(* started and has not ended, or whose promise is open, is the turn of its *)
(* loop: an answer that comes late moves the chat on from its own turn.    *)
Sorted(q) == \A i, j \in 1 .. Len(q) : i < j => q[i] < q[j]

QueueOk(c) ==
  /\ Sorted(queue[c])
  /\ \A x \in Turn : Contains(queue[c], x) =>
       chatOf[x] = c /\ status[x] = "none" /\ (drain[c] # Off => drain[c].turn < x)

LoopOk(c) ==
  LET m == drain[c].turn IN
  drain[c] # Off =>
    /\ chatOf[m] = c
    /\ drain[c].at = "setup" => status[m] = "none"
    /\ drain[c].at = "running" => status[m] # "none"
    /\ drain[c].at = "persist" => status[m] \in Outcome /\ ended[m] = 0

TurnOk(m) ==
  /\ chatOf[m] = NoChat => status[m] = "none"
  /\ status[m] \in {"none", "running"} => ended[m] = 0
  /\ status[m] = "running" \/ m \in pending => drain[chatOf[m]] = [at |-> "running", turn |-> m]
  /\ status[m] \in Outcome /\ ended[m] = 0 => drain[chatOf[m]] = [at |-> "persist", turn |-> m]

SentFirst == \A m, n \in Turn : n < m /\ chatOf[m] # NoChat => chatOf[n] # NoChat

OrderInv ==
  /\ \A c \in Chat : QueueOk(c) /\ LoopOk(c)
  /\ \A m \in Turn : TurnOk(m)
  /\ SentFirst

(* A queue and the turn of its loop, when the loop goes on.                *)
LEMMA AdvanceOf ==
  ASSUME NEW q \in Seq(Turn), Sorted(q)
  PROVE  /\ Sorted(rest(q))
         /\ \A x \in Turn : Contains(q, x) <=> Contains(rest(q), x) \/ next(q).turn = x
         /\ \A x \in Turn : Contains(rest(q), x) => next(q).turn < x
         /\ next(q) # Off => next(q).at = "setup" /\ next(q).turn \in Turn /\ Contains(q, next(q).turn)
<1>1. CASE q = <<>>
  <2>1. rest(q) = <<>> /\ next(q) = Off /\ Len(<<>>) = 0
    BY <1>1, EmptySeq DEF rest, next
  <2>2. \A x \in Turn : ~Contains(<<>>, x) /\ Off.turn # x
    BY <2>1, NoTurnAssumption DEF Contains, Off
  <2>3. Sorted(<<>>)
    BY <2>1 DEF Sorted
  <2>. QED BY <1>1, <2>1, <2>2, <2>3
<1>2. CASE q # <<>>
  <2>1. rest(q) = Tail(q) /\ next(q) = [at |-> "setup", turn |-> Head(q)]
    BY <1>2 DEF rest, next
  <2>2. /\ Tail(q) \in Seq(Turn) /\ Head(q) \in Turn /\ Head(q) = q[1]
        /\ Len(q) \in Nat /\ Len(q) >= 1 /\ Len(Tail(q)) = Len(q) - 1
        /\ \A i \in 1 .. Len(Tail(q)) : Tail(q)[i] = q[i + 1]
    BY <1>2, TailOf
  <2>3. ASSUME NEW i \in 1 .. Len(Tail(q))
        PROVE  i + 1 \in 1 .. Len(q) /\ Tail(q)[i] = q[i + 1] /\ q[1] < q[i + 1]
    <3>1. i + 1 \in 1 .. Len(q) /\ 1 \in 1 .. Len(q) /\ 1 < i + 1
      BY <2>2
    <3>. QED BY <2>2, <3>1 DEF Sorted
  <2>4. Sorted(Tail(q))
    <3>. SUFFICES ASSUME NEW i \in 1 .. Len(Tail(q)), NEW j \in 1 .. Len(Tail(q)), i < j
                  PROVE  Tail(q)[i] < Tail(q)[j]
      BY DEF Sorted
    <3>1. i + 1 < j + 1
      BY <2>2
    <3>. QED BY <2>3, <3>1 DEF Sorted
  <2>5. ASSUME NEW x \in Turn
        PROVE  Contains(q, x) <=> Contains(Tail(q), x) \/ Head(q) = x
    <3>1. ASSUME Contains(q, x), Head(q) # x
          PROVE  Contains(Tail(q), x)
      <4>1. PICK i \in 1 .. Len(q) : q[i] = x
        BY <3>1 DEF Contains
      <4>2. i # 1
        BY <2>2, <3>1, <4>1
      <4>3. i - 1 \in 1 .. Len(Tail(q)) /\ (i - 1) + 1 = i
        BY <2>2, <4>2
      <4>. QED BY <2>2, <4>1, <4>3 DEF Contains
    <3>2. Contains(Tail(q), x) => Contains(q, x)
      BY <2>3 DEF Contains
    <3>3. Head(q) = x => Contains(q, x)
      BY <2>2 DEF Contains
    <3>. QED BY <3>1, <3>2, <3>3
  <2>6. ASSUME NEW x \in Turn, Contains(Tail(q), x)
        PROVE  Head(q) < x
    BY <2>2, <2>3, <2>6 DEF Contains
  <2>. QED BY <2>1, <2>2, <2>4, <2>5, <2>6
<1>. QED BY <1>1, <1>2

(* A turn behind all that wait.                                            *)
LEMMA AppendOf ==
  ASSUME NEW q \in Seq(Turn), Sorted(q), NEW m \in Turn, \A x \in Turn : Contains(q, x) => x < m
  PROVE  /\ Append(q, m) \in Seq(Turn) /\ Sorted(Append(q, m)) /\ Append(q, m) # <<>>
         /\ \A x \in Turn : Contains(Append(q, m), x) <=> Contains(q, x) \/ x = m
<1>1. /\ Append(q, m) \in Seq(Turn) /\ Len(q) \in Nat /\ Len(Append(q, m)) = Len(q) + 1
      /\ \A i \in 1 .. Len(q) : Append(q, m)[i] = q[i] /\ q[i] \in Turn
      /\ Append(q, m)[Len(q) + 1] = m
  BY AppendProperties, LenProperties, ElementOfSeq
<1>2. Append(q, m) # <<>>
  BY <1>1, EmptySeq
<1>3. Sorted(Append(q, m))
  <2>. SUFFICES ASSUME NEW i \in 1 .. Len(q) + 1, NEW j \in 1 .. Len(q) + 1, i < j
                PROVE  Append(q, m)[i] < Append(q, m)[j]
    BY <1>1 DEF Sorted
  <2>1. i \in 1 .. Len(q)
    BY <1>1
  <2>2. CASE j \in 1 .. Len(q)
    BY <1>1, <2>1, <2>2 DEF Sorted
  <2>3. CASE j = Len(q) + 1
    <3>1. Contains(q, q[i]) /\ q[i] \in Turn
      BY <1>1, <2>1 DEF Contains
    <3>. QED BY <1>1, <2>1, <2>3, <3>1
  <2>. QED BY <1>1, <2>2, <2>3
<1>4. ASSUME NEW x \in Turn
      PROVE  Contains(Append(q, m), x) <=> Contains(q, x) \/ x = m
  <2>1. \A i : i \in 1 .. Len(q) + 1 <=> i \in 1 .. Len(q) \/ i = Len(q) + 1
    BY <1>1
  <2>. QED BY <1>1, <2>1 DEF Contains
<1>. QED BY <1>1, <1>2, <1>3, <1>4

(* A turn that is taken out.                                               *)
LEMMA RemoveAtSorted ==
  ASSUME NEW q \in Seq(Turn), Sorted(q), NEW i \in DOMAIN q
  PROVE  /\ q[i] \in Turn /\ Contains(q, q[i])
         /\ RemoveAt(q, i) \in Seq(Turn) /\ Sorted(RemoveAt(q, i))
         /\ \A x \in Turn : Contains(RemoveAt(q, i), x) <=> Contains(q, x) /\ x # q[i]
<1>. DEFINE r == RemoveAt(q, i)
<1>1. /\ Len(q) \in Nat /\ i \in 1 .. Len(q)
      /\ \A j \in 1 .. Len(q) : q[j] \in Turn /\ q[j] \in Nat
  BY LenProperties, ElementOfSeq, TurnAssumption
<1>2. /\ r \in Seq(Turn) /\ Len(r) = Len(q) - 1
      /\ \A j \in 1 .. Len(q) - 1 : r[j] = IF j < i THEN q[j] ELSE q[j + 1]
  BY RemoveAtOf
<1>. HIDE DEF r
<1>3. ASSUME NEW j \in 1 .. Len(r), NEW k \in 1 .. Len(r), j < k
      PROVE  r[j] < r[k]
  <2>. DEFINE old(n) == IF n < i THEN n ELSE n + 1
  <2>1. old(j) \in 1 .. Len(q) /\ old(k) \in 1 .. Len(q) /\ old(j) < old(k)
    BY <1>1, <1>2, <1>3
  <2>2. r[j] = q[old(j)] /\ r[k] = q[old(k)]
    BY <1>1, <1>2
  <2>. HIDE DEF old
  <2>. QED BY <2>1, <2>2 DEF Sorted
<1>4. ASSUME NEW x \in Turn, Contains(r, x)
      PROVE  Contains(q, x) /\ x # q[i]
  <2>1. PICK j \in 1 .. Len(r) : r[j] = x
    BY <1>4 DEF Contains
  <2>2. PICK k \in 1 .. Len(q) : k # i /\ q[k] = x
    <3>1. CASE j < i
      BY <1>1, <1>2, <2>1, <3>1
    <3>2. CASE ~(j < i)
      <4>1. j + 1 \in 1 .. Len(q) /\ j + 1 # i
        BY <1>1, <1>2, <3>2
      <4>. QED BY <1>2, <2>1, <3>2, <4>1
    <3>. QED BY <3>1, <3>2
  <2>3. q[k] # q[i]
    <3>1. k < i \/ i < k
      BY <1>1, <2>2
    <3>2. q[k] < q[i] \/ q[i] < q[k]
      BY <1>1, <3>1 DEF Sorted
    <3>. QED BY <1>1, <3>2
  <2>. QED BY <2>2, <2>3 DEF Contains
<1>5. ASSUME NEW x \in Turn, Contains(q, x), x # q[i]
      PROVE  Contains(r, x)
  <2>1. PICK k \in 1 .. Len(q) : q[k] = x
    BY <1>5 DEF Contains
  <2>2. k < i \/ i < k
    BY <1>1, <1>5, <2>1
  <2>3. CASE k < i
    BY <1>1, <1>2, <2>1, <2>3 DEF Contains
  <2>4. CASE i < k
    <3>1. k - 1 \in 1 .. Len(r) /\ k - 1 \in 1 .. Len(q) - 1 /\ ~(k - 1 < i) /\ (k - 1) + 1 = k
      BY <1>1, <1>2, <2>4
    <3>2. r[k - 1] = q[k]
      BY <1>2, <3>1
    <3>. QED BY <2>1, <3>1, <3>2 DEF Contains
  <2>. QED BY <2>2, <2>3, <2>4
<1>6. Contains(q, q[i])
  BY <1>1 DEF Contains
<1>. QED BY <1>1, <1>2, <1>3, <1>4, <1>5, <1>6 DEF Sorted, r

-----------------------------------------------------------------------------
(* The steps of TurnOrder, in terms of the phases of single turns.         *)
OrderStep == UNCHANGED Order!vars \/ Order!Next

(* No phase changes: a stutter.                                            *)
LEMMA Stays ==
  ASSUME UNCHANGED chatOf, \A x \in Turn : phaseOf(x)' = phaseOf(x)
  PROVE  OrderStep
  BY DEF OrderStep, Order!vars

(* One phase goes from unsent to waiting: a Submit.                        *)
LEMMA Submits ==
  ASSUME NEW m \in Turn, NEW c \in Chat, phaseOf(m) = "unsent",
         \A n \in Turn : n > m => phaseOf(n) = "unsent",
         chatOf' = [chatOf EXCEPT ![m] = c],
         phaseOf(m)' = "waiting",
         \A x \in Turn : x # m => phaseOf(x)' = phaseOf(x)
  PROVE  OrderStep
<1>. DEFINE phases == [x \in Turn |-> phaseOf(x)]
<1>1. phases' = [phases EXCEPT ![m] = "waiting"]
  OBVIOUS
<1>2. Order!Submit(m, c)
  BY <1>1 DEF Order!Submit
<1>. QED BY <1>2 DEF OrderStep, Order!Next

(* One phase goes from waiting to running, in turn: a Start.               *)
LEMMA Starts ==
  ASSUME NEW m \in Turn, phaseOf(m) = "waiting",
         \A n \in Turn : chatOf[n] = chatOf[m] =>
           phaseOf(n) # "running" /\ (phaseOf(n) = "waiting" => n >= m),
         UNCHANGED chatOf,
         phaseOf(m)' = "running",
         \A x \in Turn : x # m => phaseOf(x)' = phaseOf(x)
  PROVE  OrderStep
<1>. DEFINE phases == [x \in Turn |-> phaseOf(x)]
<1>1. phases' = [phases EXCEPT ![m] = "running"]
  OBVIOUS
<1>2. Order!Start(m)
  BY <1>1 DEF Order!Start, Order!of
<1>. QED BY <1>2 DEF OrderStep, Order!Next

(* One phase goes from running to ended: an End.                           *)
LEMMA EndsOne ==
  ASSUME NEW m \in Turn, phaseOf(m) = "running",
         UNCHANGED chatOf,
         phaseOf(m)' = "ended",
         \A x \in Turn : x # m => phaseOf(x)' = phaseOf(x)
  PROVE  OrderStep
<1>. DEFINE phases == [x \in Turn |-> phaseOf(x)]
<1>1. phases' = [phases EXCEPT ![m] = "ended"]
  OBVIOUS
<1>2. Order!End(m)
  BY <1>1 DEF Order!End
<1>. QED BY <1>2 DEF OrderStep, Order!Next

(* Phases go from waiting to dropped: a Drop.                              *)
LEMMA Drops ==
  ASSUME NEW S \in SUBSET Turn, \A x \in S : phaseOf(x) = "waiting",
         UNCHANGED chatOf,
         \A x \in Turn : phaseOf(x)' = IF x \in S THEN "dropped" ELSE phaseOf(x)
  PROVE  OrderStep
<1>1. Order!Drop(S)
  BY DEF Order!Drop
<1>. QED BY <1>1 DEF OrderStep, Order!Next

-----------------------------------------------------------------------------
(* Order is kept, and every step is one of TurnOrder.                      *)

(* What the type invariant says of a chat and of a turn that was sent.     *)
LEMMA Shape ==
  ASSUME TypeInv
  PROVE  /\ Sent \subseteq Turn /\ NoTurn \notin Turn /\ Turn \subseteq Nat
         /\ \A c \in Chat :
              /\ queue[c] \in Seq(Turn)
              /\ \A x \in Turn : Contains(queue[c], x) => x \in Sent
              /\ drain[c] \in Places
              /\ drain[c] = Off => drain[c].turn = NoTurn /\ drain[c].at = "off"
              /\ drain[c] # Off =>
                   /\ drain[c].turn \in Sent /\ drain[c].at \in {"setup", "running", "persist"}
                   /\ drain[c] = [at |-> drain[c].at, turn |-> drain[c].turn]
         /\ \A m \in Sent : chatOf[m] \in Chat
         /\ \A m \in Turn : m \in Sent <=> chatOf[m] # NoChat
         /\ pending \subseteq Sent
         /\ \A m \in Turn : status[m] \in Outcome \cup {"none", "running"} /\ ended[m] \in Nat
         /\ "none" \notin Outcome /\ "running" \notin Outcome
<1>1. Sent \subseteq Turn /\ NoTurn \notin Turn /\ Turn \subseteq Nat
  BY NoTurnAssumption, TurnAssumption DEF Sent
<1>2. ASSUME NEW c \in Chat
      PROVE  /\ queue[c] \in Seq(Turn)
             /\ \A x \in Turn : Contains(queue[c], x) => x \in Sent
  <2>1. queue[c] \in Seq(Sent)
    BY DEF TypeInv, ChatInv
  <2>. QED BY <1>1, <2>1, SeqMonotonic, ElementOfSeq DEF Contains
<1>3. ASSUME NEW c \in Chat
      PROVE  /\ drain[c] \in Places
             /\ drain[c] = Off => drain[c].turn = NoTurn /\ drain[c].at = "off"
             /\ drain[c] # Off =>
                  /\ drain[c].turn \in Sent /\ drain[c].at \in {"setup", "running", "persist"}
                  /\ drain[c] = [at |-> drain[c].at, turn |-> drain[c].turn]
  <2>1. drain[c] \in Places
    BY DEF TypeInv, ChatInv
  <2>2. Off.turn = NoTurn /\ Off.at = "off"
    BY DEF Off
  <2>. QED BY <2>1, <2>2, PlaceOf
<1>4. /\ \A m \in Sent : chatOf[m] \in Chat
      /\ \A m \in Turn : m \in Sent <=> chatOf[m] # NoChat
  BY DEF Sent, TypeInv, UserInv
<1>5. /\ pending \subseteq Sent
      /\ \A m \in Turn : status[m] \in Outcome \cup {"none", "running"} /\ ended[m] \in Nat
  BY DEF TypeInv, TurnInv
<1>6. "none" \notin Outcome /\ "running" \notin Outcome
  BY DEF Outcome
<1>. QED BY <1>1, <1>2, <1>3, <1>4, <1>5, <1>6

(* Order holds at first, and every message is unsent.                      *)
LEMMA InitOrder == Init => OrderInv /\ Order!Init
<1>. SUFFICES ASSUME Init PROVE OrderInv /\ Order!Init
  OBVIOUS
<1>. USE DEF Init
<1>1. ASSUME NEW c \in Chat
      PROVE  QueueOk(c) /\ LoopOk(c)
  <2>1. queue[c] = <<>> /\ Len(<<>>) = 0 /\ drain[c] = Off
    BY EmptySeq
  <2>. QED BY <2>1 DEF QueueOk, LoopOk, Sorted, Contains
<1>2. ASSUME NEW m \in Turn
      PROVE  TurnOk(m) /\ phaseOf(m) = "unsent"
  BY DEF TurnOk, Outcome, phaseOf
<1>3. SentFirst
  BY DEF SentFirst
<1>. QED BY <1>1, <1>2, <1>3 DEF OrderInv, Order!Init

(* Steps that leave the queues, the loops and the turns alone.             *)
LEMMA AlonePreserves ==
  ASSUME OrderInv, UNCHANGED <<chatOf, queue, drain, status, ended>>, pending' \subseteq pending
  PROVE  OrderInv' /\ OrderStep
<1>1. OrderInv'
  BY DEF OrderInv, QueueOk, LoopOk, TurnOk, SentFirst, Off, Outcome
<1>2. \A x \in Turn : phaseOf(x)' = phaseOf(x)
  BY DEF phaseOf
<1>. QED BY <1>1, <1>2, Stays

(* The turn of a loop, by where the loop is.                               *)
LEMMA LoopTurn ==
  ASSUME TypeInv, OrderInv, NEW c \in Chat, NEW m, m = drain[c].turn, drain[c] # Off
  PROVE  /\ m \in Turn /\ m \in Sent /\ chatOf[m] = c /\ c # NoChat
         /\ drain[c] = [at |-> drain[c].at, turn |-> m]
         /\ drain[c].at \in {"setup", "running", "persist"}
         /\ drain[c].at = "setup" => status[m] = "none" /\ ended[m] = 0
         /\ drain[c].at = "running" => status[m] # "none"
         /\ drain[c].at = "persist" => status[m] \in Outcome /\ ended[m] = 0
         /\ drain[c].at # "running" => m \notin pending
<1>1. /\ m \in Turn /\ m \in Sent /\ drain[c] = [at |-> drain[c].at, turn |-> m]
      /\ drain[c].at \in {"setup", "running", "persist"}
  BY Shape
<1>2. LoopOk(c) /\ TurnOk(m)
  BY <1>1 DEF OrderInv
<1>3. chatOf[m] = c /\ c # NoChat
  BY <1>2, NoChatAssumption DEF LoopOk
<1>4. /\ drain[c].at = "setup" => status[m] = "none"
      /\ drain[c].at = "running" => status[m] # "none"
      /\ drain[c].at = "persist" => status[m] \in Outcome /\ ended[m] = 0
  BY <1>2 DEF LoopOk
<1>5. status[m] = "none" => ended[m] = 0
  BY <1>2 DEF TurnOk
<1>6. drain[c].at # "running" => m \notin pending
  BY <1>2, <1>3 DEF TurnOk
<1>. QED BY <1>1, <1>3, <1>4, <1>5, <1>6

(* Another turn of the chat has not started, or has ended.                 *)
LEMMA OtherTurn ==
  ASSUME TypeInv, OrderInv, NEW c \in Chat, NEW x \in Turn, chatOf[x] = c,
         ~(drain[c].turn = x /\ drain[c].at \in {"running", "persist"})
  PROVE  /\ status[x] # "running" /\ x \notin pending
         /\ ~(status[x] \in Outcome /\ ended[x] = 0)
         /\ phaseOf(x) # "running"
<1>1. TurnOk(x)
  BY DEF OrderInv
<1>2. status[x] # "running" /\ x \notin pending /\ ~(status[x] \in Outcome /\ ended[x] = 0)
  BY <1>1 DEF TurnOk
<1>3. phaseOf(x) # "running"
  BY <1>2, Shape DEF phaseOf
<1>. QED BY <1>2, <1>3

(* What a turn in a queue is.                                              *)
LEMMA QueuedTurn ==
  ASSUME TypeInv, OrderInv, NEW c \in Chat, NEW x \in Turn, Contains(queue[c], x)
  PROVE  /\ chatOf[x] = c /\ c # NoChat /\ status[x] = "none" /\ ended[x] = 0 /\ phaseOf(x) = "waiting"
         /\ drain[c] # Off => drain[c].turn < x
         /\ drain[c].turn # x
<1>1. QueueOk(c) /\ TurnOk(x)
  BY DEF OrderInv
<1>2. chatOf[x] = c /\ c # NoChat /\ status[x] = "none" /\ ended[x] = 0
  BY <1>1, NoChatAssumption DEF QueueOk, TurnOk
<1>3. drain[c] # Off => drain[c].turn < x
  BY <1>1 DEF QueueOk
<1>4. drain[c].turn # x
  <2>1. CASE drain[c] = Off
    BY <2>1, Shape
  <2>2. CASE drain[c] # Off
    BY <1>3, <2>2, Shape
  <2>. QED BY <2>1, <2>2
<1>5. phaseOf(x) = "waiting"
  BY <1>2 DEF phaseOf
<1>. QED BY <1>2, <1>3, <1>4, <1>5

(* The turn of a loop starts when no other of its chat runs, and before    *)
(* those that wait.                                                        *)
LEMMA StartOrder ==
  ASSUME TypeInv, OrderInv, NEW c \in Chat, startRun(c)
  PROVE  OrderInv' /\ OrderStep
<1>1. drain[c] # Off /\ drain[c].at = "setup"
  BY Shape DEF startRun, inAwait
<1>. PICK m : m = drain[c].turn
  OBVIOUS
<1>2. /\ m \in Turn /\ m \in Sent /\ drain[c] = [at |-> "setup", turn |-> m]
      /\ chatOf[m] = c /\ status[m] = "none" /\ ended[m] = 0 /\ c # NoChat
  BY <1>1, LoopTurn
<1>3. /\ UNCHANGED <<chatOf, queue, ended>>
      /\ \A x \in Turn : status'[x] = IF x = m THEN "running" ELSE status[x]
      /\ pending' = pending \cup {m}
  BY Shape DEF startRun, userVars, TypeInv, TurnInv
<1>4. /\ drain'[c] = [at |-> "running", turn |-> m]
      /\ \A d \in Chat : d # c => drain'[d] = drain[d]
  <2>1. drain' = [drain EXCEPT ![c] = [drain[c] EXCEPT !.at = "running"]] /\ DOMAIN drain = Chat
    BY DEF startRun, TypeInv, ChatInv
  <2>2. [drain[c] EXCEPT !.at = "running"] = [at |-> "running", turn |-> m]
    BY <1>2
  <2>. QED BY <2>1, <2>2
<1>5. ASSUME NEW x \in Turn, chatOf[x] = c, x # m
      PROVE  status[x] # "running" /\ x \notin pending /\ ~(status[x] \in Outcome /\ ended[x] = 0)
  BY <1>1, <1>5, OtherTurn
<1>6. ASSUME NEW d \in Chat
      PROVE  QueueOk(d)' /\ LoopOk(d)'
  <2>1. QueueOk(d) /\ LoopOk(d)
    BY DEF OrderInv
  <2>2. CASE d = c
    <3>1. \A x \in Turn : Contains(queue[d], x) => x # m /\ m < x
      BY <1>1, <2>2, QueuedTurn
    <3>2. QueueOk(d)'
      BY <1>3, <1>4, <2>1, <2>2, <3>1 DEF QueueOk
    <3>3. LoopOk(d)'
      BY <1>2, <1>3, <1>4, <2>2 DEF LoopOk
    <3>. QED BY <3>2, <3>3
  <2>3. CASE d # c
    <3>1. \A x \in Turn : Contains(queue[d], x) => x # m
      BY <1>2, <2>1, <2>3 DEF QueueOk
    <3>2. QueueOk(d)'
      BY <1>3, <1>4, <2>1, <2>3, <3>1 DEF QueueOk, Off
    <3>3. drain[d] # Off => drain[d].turn \in Turn /\ drain[d].turn # m
      BY <1>2, <2>1, <2>3, Shape DEF LoopOk
    <3>4. LoopOk(d)'
      BY <1>3, <1>4, <2>1, <2>3, <3>3 DEF LoopOk, Off, Outcome
    <3>. QED BY <3>2, <3>4
  <2>. QED BY <2>2, <2>3
<1>7. ASSUME NEW x \in Turn
      PROVE  TurnOk(x)'
  <2>1. TurnOk(x)
    BY DEF OrderInv
  <2>2. CASE x = m
    BY <1>2, <1>3, <1>4, <2>2 DEF TurnOk, Outcome
  <2>3. CASE x # m /\ chatOf[x] = c
    BY <1>3, <1>5, <2>1, <2>3 DEF TurnOk, Outcome
  <2>4. CASE x # m /\ chatOf[x] # c
    <3>1. chatOf[x] = NoChat => status[x] = "none" /\ x \notin pending
      BY <2>1, Shape DEF TurnOk
    <3>2. chatOf[x] # NoChat => drain'[chatOf[x]] = drain[chatOf[x]]
      BY <1>4, <2>4, Shape
    <3>. QED BY <1>3, <2>1, <2>4, <3>1, <3>2 DEF TurnOk, Outcome
  <2>. QED BY <2>2, <2>3, <2>4
<1>8. OrderInv'
  BY <1>3, <1>6, <1>7 DEF OrderInv, SentFirst
<1>9. phaseOf(m) = "waiting" /\ phaseOf(m)' = "running"
  <2>1. phaseOf(m) = "waiting"
    BY <1>2 DEF phaseOf
  <2>2. chatOf'[m] # NoChat /\ ended'[m] = 0 /\ status'[m] # "none"
    BY <1>2, <1>3
  <2>3. phaseOf(m)' = "running"
    BY <2>2 DEF phaseOf
  <2>. QED BY <2>1, <2>3
<1>10. ASSUME NEW n \in Turn, chatOf[n] = chatOf[m]
       PROVE  phaseOf(n) # "running" /\ (phaseOf(n) = "waiting" => n >= m)
  <2>1. phaseOf(n) # "running"
    BY <1>1, <1>2, <1>10, OtherTurn
  <2>2. ASSUME phaseOf(n) = "waiting"
        PROVE  n >= m
    <3>1. Contains(queue[c], n) \/ n = m
      BY <1>2, <1>10, <2>2 DEF phaseOf
    <3>2. Contains(queue[c], n) => m < n
      BY <1>1, QueuedTurn
    <3>. QED BY <1>2, <3>1, <3>2, Shape
  <2>. QED BY <2>1, <2>2
<1>11. ASSUME NEW x \in Turn, x # m
       PROVE  phaseOf(x)' = phaseOf(x)
  <2>1. chatOf[x] # NoChat => drain'[chatOf[x]].turn = drain[chatOf[x]].turn
    BY <1>2, <1>4, Shape
  <2>. QED BY <1>3, <1>11, <2>1 DEF phaseOf
<1>. QED BY <1>2, <1>3, <1>8, <1>9, <1>10, <1>11, Starts

(* A turn that cannot be set up is dropped.                                *)
LEMMA SetupFailsOrder ==
  ASSUME TypeInv, OrderInv, NEW c \in Chat, setupFails(c)
  PROVE  OrderInv' /\ OrderStep
<1>1. drain[c] # Off /\ drain[c].at = "setup"
  BY Shape DEF setupFails, inAwait
<1>. PICK m : m = drain[c].turn
  OBVIOUS
<1>2. /\ m \in Turn /\ m \in Sent /\ drain[c] = [at |-> "setup", turn |-> m]
      /\ chatOf[m] = c /\ status[m] = "none" /\ ended[m] = 0 /\ c # NoChat
  BY <1>1, LoopTurn
<1>3. UNCHANGED <<chatOf, queue, status, ended, pending>>
  BY DEF setupFails, userVars, turnVars
<1>4. drain'[c] = Off /\ \A d \in Chat : d # c => drain'[d] = drain[d]
  BY DEF setupFails, TypeInv, ChatInv
<1>5. Off' = Off /\ Outcome' = Outcome /\ Off.turn = NoTurn
  BY DEF Off, Outcome
<1>6. ASSUME NEW d \in Chat
      PROVE  QueueOk(d)' /\ LoopOk(d)'
  <2>1. QueueOk(d) /\ LoopOk(d)
    BY DEF OrderInv
  <2>2. QueueOk(d)'
    BY <1>3, <1>4, <1>5, <2>1 DEF QueueOk
  <2>3. LoopOk(d)'
    BY <1>3, <1>4, <1>5, <2>1 DEF LoopOk
  <2>. QED BY <2>2, <2>3
<1>7. ASSUME NEW x \in Turn
      PROVE  TurnOk(x)'
  <2>1. TurnOk(x)
    BY DEF OrderInv
  <2>2. CASE chatOf[x] = NoChat
    BY <1>3, <1>5, <2>1, <2>2, Shape DEF TurnOk
  <2>3. CASE chatOf[x] # NoChat
    <3>1. status[x] = "running" \/ x \in pending => drain[chatOf[x]].at = "running"
      BY <2>1 DEF TurnOk
    <3>2. status[x] \in Outcome /\ ended[x] = 0 => drain[chatOf[x]].at = "persist"
      BY <2>1 DEF TurnOk
    <3>3. CASE chatOf[x] = c
      BY <1>1, <1>3, <1>5, <2>1, <3>1, <3>2, <3>3 DEF TurnOk
    <3>4. CASE chatOf[x] # c
      <4>1. drain'[chatOf[x]] = drain[chatOf[x]]
        BY <1>4, <2>3, <3>4, Shape
      <4>. QED BY <1>3, <1>5, <2>1, <4>1 DEF TurnOk
    <3>. QED BY <3>3, <3>4
  <2>. QED BY <2>2, <2>3
<1>8. OrderInv'
  BY <1>3, <1>6, <1>7 DEF OrderInv, SentFirst
<1>9. phaseOf(m) = "waiting" /\ phaseOf(m)' = "dropped"
  <2>1. ~Contains(queue[c], m) /\ NoTurn # m
    BY <1>2, QueuedTurn, Shape
  <2>2. phaseOf(m) = "waiting"
    BY <1>2 DEF phaseOf
  <2>3. /\ chatOf'[m] = c /\ ended'[m] = 0 /\ status'[m] = "none"
        /\ ~Contains(queue'[c], m) /\ drain'[c].turn # m
    BY <1>2, <1>3, <1>4, <1>5, <2>1
  <2>4. phaseOf(m)' = "dropped"
    BY <1>2, <2>3 DEF phaseOf
  <2>. QED BY <2>2, <2>4
<1>10. ASSUME NEW x \in Turn, x # m
       PROVE  phaseOf(x)' = phaseOf(x)
  <2>1. chatOf[x] # NoChat => (drain'[chatOf[x]].turn = x <=> drain[chatOf[x]].turn = x)
    BY <1>4, <1>5, <1>10, Shape
  <2>. QED BY <1>3, <2>1 DEF phaseOf
<1>11. \A x \in Turn : phaseOf(x)' = IF x \in {m} THEN "dropped" ELSE phaseOf(x)
  BY <1>9, <1>10
<1>12. {m} \in SUBSET Turn /\ \A x \in {m} : phaseOf(x) = "waiting"
  BY <1>2, <1>9
<1>. QED BY <1>3, <1>8, <1>11, <1>12, Drops

(* Turns that are taken out of a queue are dropped.                        *)
LEMMA RemovalOrder ==
  ASSUME TypeInv, OrderInv, NEW c \in Chat, NEW q, Sorted(q),
         \A x \in Turn : Contains(q, x) => Contains(queue[c], x),
         queue' = [queue EXCEPT ![c] = q],
         UNCHANGED <<chatOf, drain, status, ended, pending>>
  PROVE  OrderInv' /\ OrderStep
<1>1. queue'[c] = q /\ \A d \in Chat : d # c => queue'[d] = queue[d]
  BY DEF TypeInv, ChatInv
<1>2. Off' = Off /\ Outcome' = Outcome
  BY DEF Off, Outcome
<1>3. ASSUME NEW d \in Chat
      PROVE  QueueOk(d)' /\ LoopOk(d)'
  <2>1. QueueOk(d) /\ LoopOk(d)
    BY DEF OrderInv
  <2>2. QueueOk(d)'
    <3>1. CASE d = c
      BY <1>1, <1>2, <2>1, <3>1 DEF QueueOk
    <3>2. CASE d # c
      <4>1. queue'[d] = queue[d]
        BY <1>1, <3>2
      <4>. QED BY <1>2, <2>1, <4>1 DEF QueueOk, Sorted, Contains
    <3>. QED BY <3>1, <3>2
  <2>3. LoopOk(d)'
    BY <1>2, <2>1 DEF LoopOk
  <2>. QED BY <2>2, <2>3
<1>4. \A x \in Turn : TurnOk(x)'
  BY <1>2 DEF OrderInv, TurnOk
<1>5. OrderInv'
  BY <1>3, <1>4 DEF OrderInv, SentFirst
<1>. DEFINE S == {x \in Turn : Contains(queue[c], x) /\ ~Contains(q, x)}
<1>. PICK T : T = S
  OBVIOUS
<1>6. T \in SUBSET Turn /\ \A x \in T : phaseOf(x) = "waiting"
  BY QueuedTurn
<1>7. ASSUME NEW x \in Turn, x \in T
      PROVE  phaseOf(x)' = "dropped"
  <2>1. /\ chatOf[x] = c /\ c # NoChat /\ status[x] = "none" /\ ended[x] = 0 /\ drain[c].turn # x
        /\ ~Contains(q, x)
    BY <1>7, QueuedTurn
  <2>2. /\ chatOf'[x] = c /\ status'[x] = "none" /\ ended'[x] = 0 /\ drain'[c].turn # x
        /\ queue'[c] = q
    BY <1>1, <2>1
  <2>. QED BY <2>1, <2>2 DEF phaseOf, Contains
<1>8. ASSUME NEW x \in Turn, x \notin T
      PROVE  phaseOf(x)' = phaseOf(x)
  <2>1. CASE chatOf[x] = c
    <3>1. Contains(queue'[c], x) <=> Contains(queue[c], x)
      BY <1>1, <1>8
    <3>. QED BY <2>1, <3>1 DEF phaseOf, Contains
  <2>2. CASE chatOf[x] # c
    <3>1. chatOf[x] # NoChat => queue'[chatOf[x]] = queue[chatOf[x]]
      BY <1>1, <2>2, Shape
    <3>. QED BY <3>1 DEF phaseOf, Contains
  <2>. QED BY <2>1, <2>2
<1>9. \A x \in Turn : phaseOf(x)' = IF x \in T THEN "dropped" ELSE phaseOf(x)
  BY <1>7, <1>8
<1>. QED BY <1>5, <1>6, <1>9, Drops

(* A stop and a delete drop all that waits in the chat.                    *)
LEMMA ClearOrder ==
  ASSUME TypeInv, OrderInv, NEW c \in Chat, stop(c) \/ deleteChat(c)
  PROVE  OrderInv' /\ OrderStep
<1>1. Len(<<>>) = 0
  BY EmptySeq
<1>2. Sorted(<<>>) /\ \A x \in Turn : ~Contains(<<>>, x)
  BY <1>1 DEF Sorted, Contains
<1>3. /\ queue' = [queue EXCEPT ![c] = <<>>]
      /\ UNCHANGED <<chatOf, drain, status, ended, pending>>
  BY DEF stop, deleteChat, clearQueue, turnVars
<1>. QED BY <1>2, <1>3, RemovalOrder

(* A cancel drops one turn that waits.                                     *)
LEMMA CancelOrder ==
  ASSUME TypeInv, OrderInv, NEW c \in Chat, NEW i, cancel(c, i)
  PROVE  OrderInv' /\ OrderStep
<1>. PICK q : q = RemoveAt(queue[c], i)
  OBVIOUS
<1>1. queue[c] \in Seq(Turn) /\ Sorted(queue[c]) /\ i \in DOMAIN queue[c]
  BY Shape DEF OrderInv, QueueOk, cancel
<1>2. Sorted(q) /\ \A x \in Turn : Contains(q, x) => Contains(queue[c], x)
  BY <1>1, RemoveAtSorted
<1>3. /\ queue' = [queue EXCEPT ![c] = q]
      /\ UNCHANGED <<chatOf, drain, status, ended, pending>>
  BY DEF cancel, turnVars, userVars
<1>. QED BY <1>2, <1>3, RemovalOrder

(* A turn that is settled by the watchdog keeps its loop, but has ended.   *)
LEMMA StaleOrder ==
  ASSUME TypeInv, OrderInv, NEW c \in Chat, Stale(c) \/ StaleAfterSleep(c)
  PROVE  OrderInv' /\ OrderStep
<1>. PICK m : m = watch[c]
  OBVIOUS
<1>1. reportStale(c) /\ UNCHANGED <<chatOf, queue, drain, pending>> /\ m \in Turn /\ m \in Sent
  BY DEF Stale, StaleAfterSleep, reportStale, TypeInv, ChatInv, Sent
<1>2. CASE status[m] # "running"
  BY <1>1, <1>2, AlonePreserves DEF reportStale
<1>3. CASE status[m] = "running"
  <2>1. /\ \A x \in Turn : status'[x] = IF x = m THEN "error" ELSE status[x]
        /\ \A x \in Turn : ended'[x] = IF x = m THEN ended[x] + 1 ELSE ended[x]
    BY <1>1, <1>3 DEF reportStale, TypeInv, TurnInv
  <2>2. ended[m] = 0 /\ drain[chatOf[m]] = [at |-> "running", turn |-> m] /\ chatOf[m] # NoChat
    BY <1>1, <1>3, Shape DEF OrderInv, TurnOk
  <2>3. Off' = Off /\ Outcome' = Outcome /\ "error" \in Outcome
    BY DEF Off, Outcome
  <2>4. ASSUME NEW d \in Chat
        PROVE  QueueOk(d)' /\ LoopOk(d)'
    <3>1. QueueOk(d) /\ LoopOk(d)
      BY DEF OrderInv
    <3>2. QueueOk(d)'
      <4>1. \A x \in Turn : Contains(queue[d], x) => x # m
        BY <1>3, QueuedTurn
      <4>. QED BY <1>1, <2>1, <2>3, <3>1, <4>1 DEF QueueOk
    <3>3. LoopOk(d)'
      <4>1. CASE drain[d] = Off
        BY <1>1, <2>3, <4>1 DEF LoopOk
      <4>2. CASE drain[d] # Off /\ drain[d].turn # m
        <5>1. drain[d].turn \in Turn
          BY <4>2, Shape
        <5>. QED BY <1>1, <2>1, <2>3, <3>1, <4>2, <5>1 DEF LoopOk
      <4>3. CASE drain[d] # Off /\ drain[d].turn = m
        <5>1. chatOf[m] = d
          BY <3>1, <4>3 DEF LoopOk
        <5>. QED BY <1>1, <2>1, <2>2, <2>3, <4>3, <5>1 DEF LoopOk
      <4>. QED BY <4>1, <4>2, <4>3
    <3>. QED BY <3>2, <3>3
  <2>5. ASSUME NEW x \in Turn
        PROVE  TurnOk(x)'
    <3>1. TurnOk(x)
      BY DEF OrderInv
    <3>2. CASE x = m
      BY <1>1, <2>1, <2>2, <2>3, <3>2, Shape DEF TurnOk
    <3>3. CASE x # m
      BY <1>1, <2>1, <2>3, <3>1, <3>3 DEF TurnOk
    <3>. QED BY <3>2, <3>3
  <2>6. OrderInv'
    BY <1>1, <2>4, <2>5 DEF OrderInv, SentFirst
  <2>7. phaseOf(m) = "running" /\ phaseOf(m)' = "ended"
    <3>1. chatOf'[m] # NoChat /\ ended'[m] > 0
      BY <1>1, <2>1, <2>2
    <3>. QED BY <1>3, <2>2, <3>1 DEF phaseOf
  <2>8. \A x \in Turn : x # m => phaseOf(x)' = phaseOf(x)
    BY <1>1, <2>1 DEF phaseOf
  <2>. QED BY <1>1, <2>6, <2>7, <2>8, EndsOne
<1>. QED BY <1>2, <1>3

(* A chat goes on from the turn of its loop, which is under way, to the    *)
(* next that waits, if any.                                                *)
LEMMA GoesOn ==
  ASSUME TypeInv, OrderInv, UNCHANGED chatOf, NEW c \in Chat, NEW m \in Turn, m = drain[c].turn,
         \A x \in Turn : Contains(queue[c], x) => status'[x] = "none",
         queue'[c] = rest(queue[c]), drain'[c] = next(queue[c])
  PROVE  /\ QueueOk(c)' /\ LoopOk(c)'
         /\ \A x \in Turn : x # m =>
              ((Contains(queue[c], x) \/ drain[c].turn = x)
                 <=> (Contains(queue'[c], x) \/ drain'[c].turn = x))
<1>1. queue[c] \in Seq(Turn) /\ Sorted(queue[c])
  BY Shape DEF OrderInv, QueueOk
<1>2. /\ Sorted(rest(queue[c]))
      /\ \A x \in Turn :
           Contains(queue[c], x) <=> Contains(rest(queue[c]), x) \/ next(queue[c]).turn = x
      /\ \A x \in Turn : Contains(rest(queue[c]), x) => next(queue[c]).turn < x
      /\ next(queue[c]) # Off =>
           /\ next(queue[c]).at = "setup" /\ next(queue[c]).turn \in Turn
           /\ Contains(queue[c], next(queue[c]).turn)
  BY <1>1, AdvanceOf
<1>3. \A x \in Turn : Contains(queue[c], x) => chatOf'[x] = c
  BY QueuedTurn
<1>4. Off' = Off
  BY DEF Off
<1>. PICK q, d : q = rest(queue[c]) /\ d = next(queue[c])
  OBVIOUS
<1>5. Sorted(queue'[c]) /\ queue'[c] = q /\ drain'[c] = d
  BY <1>2
<1>6. QueueOk(c)'
  <2>. SUFFICES ASSUME NEW x \in Turn, Contains(q, x)
                PROVE  chatOf'[x] = c /\ status'[x] = "none" /\ (d # Off => d.turn < x)
    BY <1>4, <1>5 DEF QueueOk, Sorted, Contains
  <2>. QED BY <1>2, <1>3
<1>7. LoopOk(c)'
  <2>1. CASE d = Off
    BY <1>4, <1>5, <2>1 DEF LoopOk
  <2>2. CASE d # Off
    <3>1. d.at = "setup" /\ chatOf'[d.turn] = c /\ status'[d.turn] = "none"
      BY <1>2, <1>3, <2>2
    <3>. QED BY <1>5, <3>1 DEF LoopOk
  <2>. QED BY <2>1, <2>2
<1>8. \A x \in Turn : x # m =>
        ((Contains(queue[c], x) \/ drain[c].turn = x) <=> (Contains(q, x) \/ d.turn = x))
  BY <1>2
<1>. QED BY <1>5, <1>6, <1>7, <1>8

(* A chat that is left alone.                                              *)
LEMMA LeftAlone ==
  ASSUME OrderInv, UNCHANGED chatOf, NEW c \in Chat,
         queue'[c] = queue[c], drain'[c] = drain[c],
         \A x \in Turn : chatOf[x] = c => status'[x] = status[x] /\ ended'[x] = ended[x],
         drain[c] # Off => drain[c].turn \in Turn
  PROVE  QueueOk(c)' /\ LoopOk(c)'
<1>1. QueueOk(c) /\ LoopOk(c) /\ Off' = Off /\ Outcome' = Outcome
  BY DEF OrderInv, Off, Outcome
<1>2. QueueOk(c)'
  BY <1>1 DEF QueueOk, Sorted, Contains
<1>3. LoopOk(c)'
  BY <1>1 DEF LoopOk
<1>. QED BY <1>2, <1>3

(* The marker of the turn of a loop is written or has failed: the turn has *)
(* ended, and the chat goes on.                                            *)
LEMMA LoggedOrder ==
  ASSUME TypeInv, OrderInv, receiveLogged
  PROVE  OrderInv' /\ OrderStep
<1>. PICK m : m = Head(outbox).turn
  OBVIOUS
<1>. PICK c : c = chatOf[m]
  OBVIOUS
<1>1. UNCHANGED <<pending, status, chatOf>>
  BY DEF receiveLogged, userVars
<1>2. m \in Sent /\ m \in Turn /\ c \in Chat
  <2>1. arrives({"logged", "log failed"})
    BY DEF receiveLogged
  <2>2. /\ Head(outbox).type \in {"logged", "log failed"}
        /\ Head(outbox).type # "failed" => m \in Sent
    BY <2>1, ArrivesTyped
  <2>. QED BY <2>2, Shape
<1>3. CASE drain[c] # [at |-> "persist", turn |-> m]
  <2>1. UNCHANGED <<ended, queue, drain>>
    BY <1>3 DEF receiveLogged
  <2>. QED BY <1>1, <2>1, AlonePreserves
<1>4. CASE drain[c] = [at |-> "persist", turn |-> m]
  <2>1. advance({c}) /\ ended' = [ended EXCEPT ![m] = @ + 1] /\ drain' = [drain EXCEPT ![c] = next(queue[c])]
    BY <1>4 DEF receiveLogged
  <2>2. /\ queue'[c] = rest(queue[c]) /\ drain'[c] = next(queue[c])
        /\ \A d \in Chat : d # c => queue'[d] = queue[d] /\ drain'[d] = drain[d]
        /\ \A x \in Turn : ended'[x] = IF x = m THEN ended[x] + 1 ELSE ended[x]
    BY <1>2, <2>1 DEF advance, TypeInv, ChatInv, TurnInv
  <2>3. /\ drain[c].at = "persist" /\ drain[c].turn = m /\ drain[c] # Off
        /\ status[m] \in Outcome /\ ended[m] = 0 /\ m \notin pending /\ c # NoChat
    <3>1. drain[c].at = "persist" /\ drain[c].turn = m /\ drain[c] # Off
      BY <1>4 DEF Off
    <3>2. m = drain[c].turn
      BY <3>1
    <3>3. status[m] \in Outcome /\ ended[m] = 0 /\ m \notin pending /\ c # NoChat
      <4>1. LoopOk(c) /\ TurnOk(m) /\ c # NoChat
        BY <1>2, NoChatAssumption DEF OrderInv
      <4>2. status[m] \in Outcome /\ ended[m] = 0
        BY <3>1, <4>1 DEF LoopOk
      <4>3. m \notin pending
        BY <3>1, <4>1 DEF TurnOk
      <4>. QED BY <4>1, <4>2, <4>3
    <3>. QED BY <3>1, <3>3
  <2>4. /\ QueueOk(c)' /\ LoopOk(c)'
        /\ \A x \in Turn : x # m =>
             ((Contains(queue[c], x) \/ drain[c].turn = x)
                <=> (Contains(queue'[c], x) \/ drain'[c].turn = x))
    <3>1. \A x \in Turn : Contains(queue[c], x) => status'[x] = "none"
      BY <1>1, <1>2, QueuedTurn
    <3>. QED BY <1>1, <1>2, <2>2, <2>3, <3>1, GoesOn
  <2>5. ASSUME NEW d \in Chat, d # c
        PROVE  QueueOk(d)' /\ LoopOk(d)'
    BY <1>1, <2>2, <2>5, Shape, LeftAlone
  <2>6. ASSUME NEW x \in Turn
        PROVE  TurnOk(x)'
    <3>1. TurnOk(x) /\ Outcome' = Outcome
      BY DEF OrderInv, Outcome
    <3>2. CASE x = m
      BY <1>1, <1>2, <2>2, <2>3, <3>1, <3>2, Shape DEF TurnOk
    <3>3. CASE x # m /\ chatOf[x] = c
      <4>1. status[x] # "running" /\ x \notin pending /\ ~(status[x] \in Outcome /\ ended[x] = 0)
        BY <1>2, <2>3, <3>3, OtherTurn
      <4>. QED BY <1>1, <2>2, <3>1, <3>3, <4>1 DEF TurnOk
    <3>4. CASE chatOf[x] # c
      <4>1. chatOf[x] # NoChat => drain'[chatOf[x]] = drain[chatOf[x]]
        BY <2>2, <3>4, Shape
      <4>2. chatOf[x] = NoChat => status[x] = "none" /\ x \notin pending
        BY <3>1, Shape DEF TurnOk
      <4>3. x # m
        BY <3>4
      <4>. QED BY <1>1, <2>2, <3>1, <4>1, <4>2, <4>3, Shape DEF TurnOk
    <3>. QED BY <3>2, <3>3, <3>4
  <2>7. OrderInv'
    BY <1>1, <2>4, <2>5, <2>6 DEF OrderInv, SentFirst
  <2>8. phaseOf(m) = "running" /\ phaseOf(m)' = "ended"
    <3>1. phaseOf(m) = "running"
      BY <2>3, Shape DEF phaseOf
    <3>2. chatOf'[m] # NoChat /\ ended'[m] > 0
      BY <1>1, <1>2, <2>2, <2>3
    <3>. QED BY <3>1, <3>2 DEF phaseOf
  <2>9. ASSUME NEW x \in Turn, x # m
        PROVE  phaseOf(x)' = phaseOf(x)
    <3>1. CASE chatOf[x] = c
      BY <1>1, <2>2, <2>4, <2>9, <3>1 DEF phaseOf, Contains
    <3>2. CASE chatOf[x] # c
      <4>1. chatOf[x] # NoChat => queue'[chatOf[x]] = queue[chatOf[x]] /\ drain'[chatOf[x]] = drain[chatOf[x]]
        BY <2>2, <3>2, Shape
      <4>. QED BY <1>1, <2>2, <2>9, <4>1 DEF phaseOf, Contains
    <3>. QED BY <3>1, <3>2
  <2>. QED BY <1>1, <1>2, <2>7, <2>8, <2>9, EndsOne
<1>. QED BY <1>3, <1>4

(* An answer settles turns that are running, whose loops go on to write    *)
(* the marker, and moves on the chats of those that were settled before.   *)
LEMMA SettleOrder ==
  ASSUME TypeInv, OrderInv, UNCHANGED chatOf, NEW R \in SUBSET pending, NEW o \in Outcome, settle(R, o)
  PROVE  OrderInv' /\ OrderStep
<1>. PICK open, free : open = unsettled(R) /\ free = {chatOf[m] : m \in late(R)}
  OBVIOUS
<1>1. /\ UNCHANGED ended
      /\ \A x \in Turn : status'[x] = IF x \in open THEN o ELSE status[x]
      /\ pending' = pending \ R
      /\ \A c \in Chat : queue'[c] = IF c \in free THEN rest(queue[c]) ELSE queue[c]
      /\ \A c \in Chat : drain'[c] = IF c \in free THEN next(queue[c])
                                   ELSE IF drain[c].turn \in open THEN [drain[c] EXCEPT !.at = "persist"]
                                   ELSE drain[c]
  BY DEF settle, advance
<1>2. /\ \A m \in open : m \in R /\ m \in Turn /\ status[m] = "running"
      /\ \A m \in late(R) : m \in R /\ m \in Turn /\ m \notin open /\ status[m] # "running"
      /\ \A m \in R : m \in Turn /\ m \in pending /\ chatOf[m] \in Chat
  BY Shape DEF unsettled, late
<1>3. Off' = Off /\ Outcome' = Outcome /\ o # "none" /\ o # "running"
  BY Shape DEF Off, Outcome
<1>4. ASSUME NEW m \in R
      PROVE  drain[chatOf[m]] = [at |-> "running", turn |-> m]
  BY <1>2 DEF OrderInv, TurnOk
<1>5. \A c \in Chat, x \in Turn : Contains(queue[c], x) => x \notin open
  BY <1>2, QueuedTurn
<1>6. ASSUME NEW c \in Chat
      PROVE  /\ QueueOk(c)' /\ LoopOk(c)'
             /\ \A x \in Turn : chatOf[x] = c => TurnOk(x)'
             /\ \A x \in Turn : chatOf[x] = c => phaseOf(x)' = phaseOf(x)
  <2>1. \A x \in Turn : Contains(queue[c], x) => status'[x] = "none"
    BY <1>1, <1>5, QueuedTurn
  <2>2. ASSUME c \in free
        PROVE  /\ QueueOk(c)' /\ LoopOk(c)'
               /\ \A x \in Turn : chatOf[x] = c => TurnOk(x)'
               /\ \A x \in Turn : chatOf[x] = c => phaseOf(x)' = phaseOf(x)
    <3>1. PICK m \in late(R) : chatOf[m] = c
      BY <2>2
    <3>2. /\ m \in R /\ m \in Turn /\ m \notin open /\ status[m] # "running" /\ m \notin pending'
          /\ drain[c] = [at |-> "running", turn |-> m] /\ drain[c].turn = m /\ drain[c].at = "running"
      BY <1>1, <1>2, <1>4, <3>1
    <3>3. drain[c] # Off
      BY <3>2 DEF Off
    <3>4. status[m] # "none" /\ status[m] \in Outcome /\ ended[m] # 0
      <4>1. status[m] # "none"
        BY <3>2, <3>3, LoopTurn
      <4>2. status[m] \in Outcome
        BY <3>2, <4>1, Shape
      <4>3. TurnOk(m) /\ drain[chatOf[m]].at # "persist"
        BY <3>1, <3>2 DEF OrderInv
      <4>4. ended[m] # 0
        BY <4>2, <4>3 DEF TurnOk
      <4>. QED BY <4>1, <4>2, <4>4
    <3>5. /\ QueueOk(c)' /\ LoopOk(c)'
          /\ \A x \in Turn : x # m =>
               ((Contains(queue[c], x) \/ drain[c].turn = x)
                  <=> (Contains(queue'[c], x) \/ drain'[c].turn = x))
      BY <1>1, <2>1, <2>2, <3>2, GoesOn
    <3>6. ASSUME NEW x \in Turn, chatOf[x] = c, x # m
          PROVE  /\ status[x] # "running" /\ x \notin pending /\ ~(status[x] \in Outcome /\ ended[x] = 0)
                 /\ x \notin open /\ status'[x] = status[x]
      <4>1. status[x] # "running" /\ x \notin pending /\ ~(status[x] \in Outcome /\ ended[x] = 0)
        BY <3>2, <3>6, OtherTurn
      <4>2. x \notin open
        BY <1>2, <4>1
      <4>. QED BY <1>1, <4>1, <4>2
    <3>7. ASSUME NEW x \in Turn, chatOf[x] = c
          PROVE  TurnOk(x)'
      <4>1. TurnOk(x)
        BY DEF OrderInv
      <4>2. CASE x = m
        BY <1>1, <1>3, <3>2, <3>4, <4>1, <4>2 DEF TurnOk
      <4>3. CASE x # m
        BY <1>1, <1>3, <3>6, <3>7, <4>1, <4>3 DEF TurnOk
      <4>. QED BY <4>2, <4>3
    <3>8. ASSUME NEW x \in Turn, chatOf[x] = c
          PROVE  phaseOf(x)' = phaseOf(x)
      <4>1. CASE x = m
        BY <1>1, <3>2, <3>4, <4>1 DEF phaseOf
      <4>2. CASE x # m
        BY <1>1, <3>5, <3>6, <3>8, <4>2 DEF phaseOf, Contains
      <4>. QED BY <4>1, <4>2
    <3>. QED BY <3>5, <3>7, <3>8
  <2>3. ASSUME c \notin free, drain[c].turn \in open
        PROVE  /\ QueueOk(c)' /\ LoopOk(c)'
               /\ \A x \in Turn : chatOf[x] = c => TurnOk(x)'
               /\ \A x \in Turn : chatOf[x] = c => phaseOf(x)' = phaseOf(x)
    <3>. PICK m : m = drain[c].turn
      OBVIOUS
    <3>1. m \in Turn /\ m \in R /\ m \in open /\ status[m] = "running" /\ m \notin pending' /\ drain[c] # Off
      BY <1>1, <1>2, <2>3, Shape
    <3>2. chatOf[m] = c /\ ended[m] = 0 /\ c # NoChat
      BY <3>1, LoopTurn DEF OrderInv, TurnOk
    <3>3. /\ drain[c] = [at |-> "running", turn |-> m] /\ drain[c].at = "running"
          /\ drain'[c] = [at |-> "persist", turn |-> m] /\ queue'[c] = queue[c] /\ status'[m] = o
      <4>1. drain[c] = [at |-> "running", turn |-> m]
        BY <1>4, <3>1, <3>2
      <4>2. drain'[c] = [drain[c] EXCEPT !.at = "persist"]
        BY <1>1, <2>3
      <4>. QED BY <1>1, <2>3, <3>1, <4>1, <4>2
    <3>4. QueueOk(c)'
      <4>1. QueueOk(c)
        BY DEF OrderInv
      <4>2. drain'[c].turn = drain[c].turn
        BY <3>3
      <4>. QED BY <1>3, <2>1, <3>1, <3>3, <4>1, <4>2 DEF QueueOk, Sorted, Contains
    <3>5. LoopOk(c)'
      BY <1>1, <1>3, <3>1, <3>2, <3>3 DEF LoopOk
    <3>6. ASSUME NEW x \in Turn, chatOf[x] = c, x # m
          PROVE  /\ status[x] # "running" /\ x \notin pending /\ ~(status[x] \in Outcome /\ ended[x] = 0)
                 /\ status'[x] = status[x]
      <4>1. status[x] # "running" /\ x \notin pending /\ ~(status[x] \in Outcome /\ ended[x] = 0)
        BY <3>6, OtherTurn
      <4>. QED BY <1>1, <1>2, <4>1
    <3>7. ASSUME NEW x \in Turn, chatOf[x] = c
          PROVE  TurnOk(x)'
      <4>1. TurnOk(x)
        BY DEF OrderInv
      <4>2. CASE x = m
        BY <1>1, <1>3, <3>1, <3>2, <3>3, <4>2 DEF TurnOk
      <4>3. CASE x # m
        BY <1>1, <1>3, <3>6, <3>7, <4>1, <4>3 DEF TurnOk
      <4>. QED BY <4>2, <4>3
    <3>8. ASSUME NEW x \in Turn, chatOf[x] = c
          PROVE  phaseOf(x)' = phaseOf(x)
      <4>1. drain'[c].turn = drain[c].turn
        BY <3>3
      <4>2. status'[x] = "none" <=> status[x] = "none"
        BY <1>3, <3>1, <3>3, <3>6, <3>8
      <4>. QED BY <1>1, <3>3, <3>8, <4>1, <4>2 DEF phaseOf, Contains
    <3>. QED BY <3>4, <3>5, <3>7, <3>8
  <2>4. ASSUME c \notin free, drain[c].turn \notin open
        PROVE  /\ QueueOk(c)' /\ LoopOk(c)'
               /\ \A x \in Turn : chatOf[x] = c => TurnOk(x)'
               /\ \A x \in Turn : chatOf[x] = c => phaseOf(x)' = phaseOf(x)
    <3>1. queue'[c] = queue[c] /\ drain'[c] = drain[c]
      BY <1>1, <2>4
    <3>2. ASSUME NEW x \in Turn, chatOf[x] = c
          PROVE  x \notin open
      <4>1. ASSUME x \in open
            PROVE  drain[c].turn = x
        <5>1. x \in R
          BY <1>2, <4>1
        <5>2. drain[c] = [at |-> "running", turn |-> x]
          BY <1>4, <3>2, <5>1
        <5>. QED BY <5>2
      <4>. QED BY <2>4, <4>1
    <3>3. \A x \in Turn : chatOf[x] = c => status'[x] = status[x] /\ ended'[x] = ended[x]
      BY <1>1, <3>2
    <3>4. QueueOk(c)' /\ LoopOk(c)'
      BY <3>1, <3>3, Shape, LeftAlone
    <3>5. \A x \in Turn : chatOf[x] = c => TurnOk(x)'
      BY <1>1, <1>3, <3>1, <3>3 DEF OrderInv, TurnOk
    <3>6. \A x \in Turn : chatOf[x] = c => phaseOf(x)' = phaseOf(x)
      BY <3>1, <3>3 DEF phaseOf, Contains
    <3>. QED BY <3>4, <3>5, <3>6
  <2>. QED BY <2>2, <2>3, <2>4
<1>7. ASSUME NEW x \in Turn, chatOf[x] = NoChat
      PROVE  TurnOk(x)' /\ phaseOf(x)' = phaseOf(x)
  <2>1. TurnOk(x)
    BY DEF OrderInv
  <2>2. status[x] = "none" /\ ended[x] = 0 /\ x \notin pending /\ x \notin open
    BY <1>2, <1>7, <2>1, Shape DEF TurnOk
  <2>3. /\ chatOf'[x] = NoChat /\ status'[x] = "none" /\ ended'[x] = 0 /\ x \notin pending'
        /\ "none" \notin Outcome
    BY <1>1, <1>3, <1>7, <2>2, Shape
  <2>4. TurnOk(x)'
    BY <1>3, <2>3 DEF TurnOk
  <2>5. phaseOf(x)' = phaseOf(x)
    BY <1>7, <2>3 DEF phaseOf
  <2>. QED BY <2>4, <2>5
<1>8. \A x \in Turn : chatOf[x] = NoChat \/ chatOf[x] \in Chat
  BY DEF TypeInv, UserInv
<1>9. OrderInv'
  BY <1>6, <1>7, <1>8 DEF OrderInv, SentFirst
<1>10. \A x \in Turn : phaseOf(x)' = phaseOf(x)
  BY <1>6, <1>7, <1>8
<1>. QED BY <1>9, <1>10, Stays

(* A message that is sent goes behind all that were sent before.           *)
LEMMA SubmitOrder ==
  ASSUME TypeInv, OrderInv, NEW m \in Turn, NEW c \in Chat, submitTurn(m, c)
  PROVE  OrderInv' /\ OrderStep
<1>. PICK q : q = Append(queue[c], m)
  OBVIOUS
<1>1. /\ chatOf[m] = NoChat /\ m \notin Sent /\ c # NoChat
      /\ chatOf' = [chatOf EXCEPT ![m] = c]
      /\ chatOf'[m] = c /\ \A x \in Turn : x # m => chatOf'[x] = chatOf[x]
      /\ UNCHANGED <<status, ended, pending>>
  BY NoChatAssumption DEF submitTurn, turnVars, Sent, TypeInv, UserInv
<1>2. status[m] = "none" /\ ended[m] = 0 /\ m \notin pending
  BY <1>1, Shape DEF OrderInv, TurnOk
<1>3. ASSUME NEW x \in Turn, x \in Sent
      PROVE  x < m
  <2>1. chatOf[x] # NoChat
    BY <1>3 DEF Sent
  <2>2. ~(m < x) /\ x # m
    BY <1>1, <2>1 DEF OrderInv, SentFirst
  <2>. QED BY <2>2, Shape
<1>4. /\ q \in Seq(Turn) /\ Sorted(q)
      /\ \A x \in Turn : Contains(q, x) <=> Contains(queue[c], x) \/ x = m
  <2>1. queue[c] \in Seq(Turn) /\ Sorted(queue[c]) /\ \A x \in Turn : Contains(queue[c], x) => x < m
    BY <1>3, Shape DEF OrderInv, QueueOk
  <2>. QED BY <2>1, AppendOf
<1>5. \A x \in Turn : Contains(q, x) => chatOf'[x] = c /\ status'[x] = "none"
  BY <1>1, <1>2, <1>4, QueuedTurn
<1>6. \A d \in Chat : d # c => queue'[d] = queue[d] /\ drain'[d] = drain[d]
  <2>1. CASE idle(c)
    BY <2>1 DEF submitTurn, TypeInv, ChatInv
  <2>2. CASE ~idle(c)
    BY <2>2 DEF submitTurn, TypeInv, ChatInv
  <2>. QED BY <2>1, <2>2
<1>7. Off' = Off /\ Outcome' = Outcome
  BY DEF Off, Outcome
<1>8. /\ QueueOk(c)' /\ LoopOk(c)'
      /\ \A x \in Turn :
           (Contains(queue'[c], x) \/ drain'[c].turn = x)
             <=> (Contains(queue[c], x) \/ drain[c].turn = x \/ x = m)
      /\ drain[c] # Off => drain'[c] = drain[c]
  <2>1. CASE idle(c)
    <3>. PICK r, d : r = rest(q) /\ d = next(q)
      OBVIOUS
    <3>1. drain[c] = Off /\ drain[c].turn = NoTurn
      BY <2>1, Shape DEF idle, inAwait
    <3>2. queue'[c] = r /\ drain'[c] = d
      BY <2>1 DEF submitTurn, enqueued, TypeInv, ChatInv
    <3>3. /\ Sorted(r)
          /\ \A x \in Turn : Contains(q, x) <=> Contains(r, x) \/ d.turn = x
          /\ \A x \in Turn : Contains(r, x) => d.turn < x
          /\ d # Off => d.at = "setup" /\ d.turn \in Turn /\ Contains(q, d.turn)
      BY <1>4, AdvanceOf
    <3>4. QueueOk(c)'
      BY <1>5, <1>7, <3>2, <3>3 DEF QueueOk, Sorted, Contains
    <3>5. LoopOk(c)'
      <4>1. CASE d = Off
        BY <1>7, <3>2, <4>1 DEF LoopOk
      <4>2. CASE d # Off
        <5>1. d.at = "setup" /\ chatOf'[d.turn] = c /\ status'[d.turn] = "none"
          BY <1>5, <3>3, <4>2
        <5>. QED BY <3>2, <5>1 DEF LoopOk
      <4>. QED BY <4>1, <4>2
    <3>6. \A x \in Turn : (Contains(r, x) \/ d.turn = x)
                            <=> (Contains(queue[c], x) \/ drain[c].turn = x \/ x = m)
      BY <1>4, <3>1, <3>3, Shape
    <3>. QED BY <3>1, <3>2, <3>4, <3>5, <3>6
  <2>2. CASE ~idle(c)
    <3>1. drain[c] # Off
      BY <2>2, Shape DEF idle, inAwait
    <3>2. queue'[c] = q /\ drain'[c] = drain[c]
      BY <2>2 DEF submitTurn, enqueued, TypeInv, ChatInv
    <3>3. drain[c].turn \in Turn /\ drain[c].turn \in Sent /\ drain[c].turn < m /\ drain[c].turn # m
      BY <1>1, <1>3, <3>1, Shape
    <3>4. QueueOk(c)'
      <4>1. \A x \in Turn : Contains(q, x) => drain[c].turn < x
        BY <1>4, <3>1, <3>3, QueuedTurn
      <4>. QED BY <1>4, <1>5, <3>2, <4>1 DEF QueueOk, Sorted, Contains
    <3>5. LoopOk(c)'
      <4>1. LoopOk(c)
        BY DEF OrderInv
      <4>. QED BY <1>1, <1>7, <3>2, <3>3, <4>1 DEF LoopOk
    <3>. QED BY <1>4, <3>2, <3>4, <3>5
  <2>. QED BY <2>1, <2>2
<1>9. ASSUME NEW d \in Chat, d # c
      PROVE  QueueOk(d)' /\ LoopOk(d)'
  <2>1. QueueOk(d) /\ LoopOk(d) /\ queue'[d] = queue[d] /\ drain'[d] = drain[d]
    BY <1>6, <1>9 DEF OrderInv
  <2>2. \A x \in Turn : Contains(queue[d], x) => x # m
    BY <1>1, Shape
  <2>3. QueueOk(d)'
    BY <1>1, <1>7, <2>1, <2>2 DEF QueueOk, Sorted, Contains
  <2>4. drain[d] # Off => drain[d].turn \in Turn /\ drain[d].turn # m
    BY <1>1, Shape
  <2>5. LoopOk(d)'
    BY <1>1, <1>7, <2>1, <2>4 DEF LoopOk
  <2>. QED BY <2>3, <2>5
<1>10. ASSUME NEW x \in Turn
       PROVE  TurnOk(x)'
  <2>1. TurnOk(x)
    BY DEF OrderInv
  <2>2. CASE x = m
    <3>1. "none" \notin Outcome
      BY DEF Outcome
    <3>. QED BY <1>1, <1>2, <1>7, <2>2, <3>1 DEF TurnOk
  <2>3. CASE x # m /\ chatOf[x] = c /\ drain[c] = Off
    <3>1. drain[c].turn # x
      BY <2>3, Shape
    <3>2. status[x] # "running" /\ x \notin pending /\ ~(status[x] \in Outcome /\ ended[x] = 0)
      BY <2>3, <3>1, OtherTurn
    <3>. QED BY <1>1, <1>7, <2>1, <2>3, <3>2 DEF TurnOk
  <2>4. CASE x # m /\ (chatOf[x] # c \/ drain[c] # Off)
    <3>1. chatOf[x] # NoChat => drain'[chatOf[x]] = drain[chatOf[x]]
      BY <1>6, <1>8, <2>4, Shape
    <3>2. chatOf[x] = NoChat => status[x] = "none" /\ x \notin pending /\ "none" \notin Outcome
      BY <2>1, Shape DEF TurnOk
    <3>3. chatOf'[x] = chatOf[x]
      BY <1>1, <2>4
    <3>. QED BY <1>1, <1>7, <2>1, <3>1, <3>2, <3>3 DEF TurnOk
  <2>. QED BY <2>2, <2>3, <2>4
<1>11. SentFirst'
  <2>. SUFFICES ASSUME NEW x \in Turn, NEW n \in Turn, n < x, chatOf'[x] # NoChat
                PROVE  chatOf'[n] # NoChat
    BY DEF SentFirst
  <2>1. CASE n = m
    BY <1>1, <2>1
  <2>2. CASE n # m /\ x = m
    BY <1>1, <2>2 DEF submitTurn
  <2>3. CASE n # m /\ x # m
    BY <1>1, <2>3 DEF OrderInv, SentFirst
  <2>. QED BY <2>1, <2>2, <2>3
<1>12. OrderInv'
  BY <1>8, <1>9, <1>10, <1>11 DEF OrderInv
<1>13. /\ phaseOf(m) = "unsent" /\ phaseOf(m)' = "waiting"
       /\ \A n \in Turn : n > m => phaseOf(n) = "unsent"
  <2>1. phaseOf(m) = "unsent"
    BY <1>1 DEF phaseOf
  <2>2. Contains(queue'[c], m) \/ drain'[c].turn = m
    BY <1>8
  <2>3. chatOf'[m] = c /\ c # NoChat /\ ended'[m] = 0 /\ status'[m] = "none"
    BY <1>1, <1>2
  <2>4. phaseOf(m)' = "waiting"
    BY <2>2, <2>3 DEF phaseOf, Contains
  <2>5. ASSUME NEW n \in Turn, n > m
        PROVE  phaseOf(n) = "unsent"
    <3>1. n \notin Sent
      BY <1>3, <2>5, Shape
    <3>. QED BY <3>1 DEF phaseOf, Sent
  <2>. QED BY <2>1, <2>4, <2>5
<1>14. ASSUME NEW x \in Turn, x # m
       PROVE  phaseOf(x)' = phaseOf(x)
  <2>1. chatOf'[x] = chatOf[x]
    BY <1>1, <1>14
  <2>2. CASE chatOf[x] = c
    <3>1. (Contains(queue'[c], x) \/ drain'[c].turn = x) <=> (Contains(queue[c], x) \/ drain[c].turn = x)
      BY <1>8, <1>14
    <3>. QED BY <1>1, <2>1, <2>2, <3>1 DEF phaseOf, Contains
  <2>3. CASE chatOf[x] # c
    <3>1. chatOf[x] # NoChat => queue'[chatOf[x]] = queue[chatOf[x]] /\ drain'[chatOf[x]] = drain[chatOf[x]]
      BY <1>6, <2>3, Shape
    <3>. QED BY <1>1, <2>1, <3>1 DEF phaseOf, Contains
  <2>. QED BY <2>2, <2>3
<1>. QED BY <1>1, <1>12, <1>13, <1>14, Submits

(* Every step keeps order and is a step of TurnOrder, or a stutter.        *)
LEMMA NextOrder == TypeInv /\ OrderInv /\ [Next]_vars => OrderInv' /\ OrderStep
<1>. SUFFICES ASSUME TypeInv, OrderInv, [Next]_vars PROVE OrderInv' /\ OrderStep
  OBVIOUS
<1>1. CASE UNCHANGED vars
  <2>1. UNCHANGED <<chatOf, queue, drain, status, ended, pending>>
    BY <1>1 DEF vars, chatVars, turnVars, userVars
  <2>. QED BY <2>1, AlonePreserves
<1>2. CASE WorkerAlone \/ pullDumps
  <2>1. UNCHANGED <<chatOf, queue, drain, status, ended, pending>>
    BY <1>2 DEF WorkerAlone, pullDumps, pageVars, chatVars, turnVars, userVars
  <2>. QED BY <2>1, AlonePreserves
<1>3. CASE receiveResult
  <2>. PICK R, o : R = {Head(outbox).turn} \cap pending /\ o = Head(outbox).type
    OBVIOUS
  <2>1. R \in SUBSET pending /\ o \in Outcome /\ settle(R, o) /\ UNCHANGED chatOf
    BY <1>3 DEF receiveResult, arrives, userVars
  <2>. QED BY <2>1, SettleOrder
<1>4. CASE receiveError
  <2>1. pending \in SUBSET pending /\ "error" \in Outcome /\ settle(pending, "error") /\ UNCHANGED chatOf
    BY <1>4 DEF receiveError, userVars, Outcome
  <2>. PICK R, o : R = pending /\ o = "error"
    OBVIOUS
  <2>2. R \in SUBSET pending /\ o \in Outcome /\ settle(R, o)
    BY <2>1
  <2>. QED BY <2>1, <2>2, SettleOrder
<1>5. CASE Next
  BY <1>2, <1>3, <1>4, <1>5, StepCases, SubmitOrder, StartOrder, SetupFailsOrder, LoggedOrder,
     StaleOrder, ClearOrder, CancelOrder
<1>. QED BY <1>1, <1>5

(* The messages of a chat run in the order they were sent, one at a time,  *)
(* and each ends once, whatever stops, cancels, deletes, late answers,     *)
(* errors of the worker and reports of the watchdog come in between.       *)
THEOREM RunsInOrder == Spec => InOrder
<1>1. Spec => [](TypeInv /\ OrderInv)
  <2>1. Init => TypeInv /\ OrderInv
    BY InitTypeInv, InitOrder
  <2>2. TypeInv /\ OrderInv /\ [Next]_vars => (TypeInv /\ OrderInv)'
    BY NextTypeInv, NextOrder
  <2>. QED BY <2>1, <2>2, PTL DEF Spec
<1>2. Init => Order!Init
  BY InitOrder
<1>3. TypeInv /\ OrderInv /\ [Next]_vars => [Order!Next]_(Order!vars)
  BY NextOrder DEF OrderStep
<1>. QED BY <1>1, <1>2, <1>3, PTL DEF Spec, InOrder, Order!Spec

-----------------------------------------------------------------------------
(* How turns end.  A message is in a queue of messages, or there once.       *)
Single(s, x) == \A i, j \in 1 .. Len(s) : s[i] = x /\ s[j] = x => i = j

LEMMA TailHas ==
  ASSUME NEW T, NEW s \in Seq(T), s # <<>>, NEW x
  PROVE  /\ Contains(s, Head(s))
         /\ Contains(Tail(s), x) => Contains(s, x)
         /\ Single(s, x) => Single(Tail(s), x)
         /\ Single(s, x) /\ Head(s) = x => ~Contains(Tail(s), x)
<1>1. /\ Tail(s) \in Seq(T) /\ Head(s) = s[1] /\ Len(s) \in Nat /\ Len(s) >= 1
      /\ Len(Tail(s)) = Len(s) - 1
      /\ \A i \in 1 .. Len(Tail(s)) : Tail(s)[i] = s[i + 1]
  BY TailOf
<1>2. ASSUME NEW i \in 1 .. Len(Tail(s))
      PROVE  i + 1 \in 1 .. Len(s) /\ Tail(s)[i] = s[i + 1] /\ i + 1 # 1 /\ 1 \in 1 .. Len(s)
  BY <1>1
<1>3. Contains(s, Head(s))
  BY <1>1 DEF Contains
<1>4. Contains(Tail(s), x) => Contains(s, x)
  BY <1>2 DEF Contains
<1>5. ASSUME Single(s, x)
      PROVE  Single(Tail(s), x) /\ (Head(s) = x => ~Contains(Tail(s), x))
  <2>1. ASSUME NEW i \in 1 .. Len(Tail(s)), NEW j \in 1 .. Len(Tail(s)),
               Tail(s)[i] = x, Tail(s)[j] = x
        PROVE  i = j
    <3>1. i + 1 = j + 1
      BY <1>2, <1>5, <2>1 DEF Single
    <3>. QED BY <1>1, <3>1
  <2>2. ASSUME NEW i \in 1 .. Len(Tail(s)), Tail(s)[i] = x
        PROVE  Head(s) # x
    BY <1>1, <1>2, <1>5, <2>2 DEF Single
  <2>. QED BY <2>1, <2>2 DEF Single, Contains
<1>. QED BY <1>3, <1>4, <1>5

LEMMA ConcatHas ==
  ASSUME NEW T, NEW s \in Seq(T), NEW t \in Seq(T), NEW x
  PROVE  /\ Contains(s \o t, x) => Contains(s, x) \/ Contains(t, x)
         /\ Single(s, x) /\ Single(t, x) /\ ~(Contains(s, x) /\ Contains(t, x)) => Single(s \o t, x)
<1>. DEFINE u == s \o t
<1>1. /\ Len(s) \in Nat /\ Len(t) \in Nat /\ Len(u) = Len(s) + Len(t)
      /\ \A i \in 1 .. Len(u) : u[i] = IF i <= Len(s) THEN s[i] ELSE t[i - Len(s)]
  BY ConcatProperties, LenProperties
<1>. HIDE DEF u
<1>2. ASSUME NEW i \in 1 .. Len(u)
      PROVE  \/ i \in 1 .. Len(s) /\ u[i] = s[i]
             \/ i - Len(s) \in 1 .. Len(t) /\ u[i] = t[i - Len(s)]
  BY <1>1
<1>3. Contains(u, x) => Contains(s, x) \/ Contains(t, x)
  BY <1>2 DEF Contains
<1>4. ASSUME Single(s, x), Single(t, x), ~(Contains(s, x) /\ Contains(t, x)),
             NEW i \in 1 .. Len(u), NEW j \in 1 .. Len(u), u[i] = x, u[j] = x
      PROVE  i = j
  <2>1. CASE i \in 1 .. Len(s) /\ u[i] = s[i] /\ j \in 1 .. Len(s) /\ u[j] = s[j]
    BY <1>4, <2>1 DEF Single
  <2>2. CASE /\ i - Len(s) \in 1 .. Len(t) /\ u[i] = t[i - Len(s)]
             /\ j - Len(s) \in 1 .. Len(t) /\ u[j] = t[j - Len(s)]
    <3>1. i - Len(s) = j - Len(s)
      BY <1>4, <2>2 DEF Single
    <3>. QED BY <1>1, <3>1
  <2>. QED BY <1>2, <1>4, <2>1, <2>2 DEF Contains
<1>. QED BY <1>3, <1>4 DEF Single, u

LEMMA OneHas ==
  ASSUME NEW a, NEW x
  PROVE  /\ ~Contains(<<>>, x) /\ Single(<<>>, x)
         /\ Contains(<<a>>, x) => x = a
         /\ Single(<<a>>, x)
<1>1. Len(<<>>) = 0 /\ Len(<<a>>) = 1 /\ <<a>>[1] = a
  OBVIOUS
<1>. QED BY <1>1 DEF Contains, Single

LEMMA TwoHas ==
  ASSUME NEW a, NEW b, a # b, NEW x
  PROVE  /\ Contains(<<a, b>>, x) => x = a \/ x = b
         /\ Single(<<a, b>>, x)
<1>1. Len(<<a, b>>) = 2 /\ <<a, b>>[1] = a /\ <<a, b>>[2] = b
  OBVIOUS
<1>2. \A i \in 1 .. 2 : i = 1 \/ i = 2
  OBVIOUS
<1>. QED BY <1>1, <1>2 DEF Contains, Single

LEMMA AppendHas ==
  ASSUME NEW T, NEW s \in Seq(T), NEW y \in T, NEW x
  PROVE  Contains(Append(s, y), x) => Contains(s, x) \/ x = y
<1>1. /\ Len(s) \in Nat /\ Len(Append(s, y)) = Len(s) + 1
      /\ \A i \in 1 .. Len(s) : Append(s, y)[i] = s[i]
      /\ Append(s, y)[Len(s) + 1] = y
  BY AppendProperties, LenProperties
<1>2. \A i \in 1 .. Len(s) + 1 : i \in 1 .. Len(s) \/ i = Len(s) + 1
  BY <1>1
<1>. QED BY <1>1, <1>2 DEF Contains

(* Messages of different kinds or turns differ.                              *)
LEMMA Different ==
  /\ \A m, n : Log(m) = Log(n) <=> m = n
  /\ \A m, n : Stop(m) = Stop(n) <=> m = n
  /\ \A m, n : Log(m) # Stop(n) /\ Log(m) # Run(n) /\ Stop(m) # Run(n)
  /\ \A m : Log(m) # Apply /\ Stop(m) # Apply
<1>1. /\ \A m : Log(m).type = "log" /\ Log(m).turn = m
      /\ \A m : Stop(m).type = "stop" /\ Stop(m).turn = m
      /\ \A m : Run(m).type = "run"
      /\ Apply.type = "db-apply"
  BY DEF Log, Stop, Run, Apply
<1>. QED BY <1>1

(* The markers of a settled set of turns: each is posted once.               *)
LEMMA MarkersOnce ==
  ASSUME NEW open, IsFiniteSet(open), NEW order \in SetToSeqs(open),
         NEW msgs, msgs = [i \in DOMAIN order |-> Log(order[i])]
  PROVE  /\ \A m : Contains(msgs, Log(m)) => m \in open
         /\ \A m : Single(msgs, Log(m))
         /\ \A m : ~Contains(msgs, Stop(m))
<1>1. Cardinality(open) \in Nat
  BY FS_CardinalityType
<1>2. /\ order \in [1 .. Cardinality(open) -> open]
      /\ \A i, j \in 1 .. Cardinality(open) : i # j => order[i] # order[j]
  BY DEF SetToSeqs
<1>3. /\ DOMAIN msgs = 1 .. Cardinality(open)
      /\ \A i \in 1 .. Cardinality(open) : msgs[i] = Log(order[i]) /\ order[i] \in open
      /\ \A i, j \in 1 .. Cardinality(open) : order[i] = order[j] => i = j
  BY <1>2
<1>4. msgs \in Seq({Log(m) : m \in open})
  BY <1>1, <1>3, IsASeq
<1>5. Len(msgs) = Cardinality(open)
  BY <1>1, <1>3, <1>4, LenProperties
<1>. QED BY <1>3, <1>5, Different DEF Contains, Single


-----------------------------------------------------------------------------
(* A turn that was settled is posted its marker once, and the user is told   *)
(* once that it ended.                                                       *)
MarkerOk(m) ==
  /\ Single(inbox, Log(m))
  /\ Contains(inbox, Log(m)) => m \notin writing
  /\ Contains(inbox, Log(m)) \/ m \in writing => marker[m] = 0 /\ status[m] \in Outcome
  /\ marker[m] <= 1
  /\ marker[m] > 0 => status[m] \in Outcome
  /\ ended[m] <= 1
MarkerInv == \A m \in Turn : MarkerOk(m)

(* A stop names a turn it was asked for; a run it takes along has shared the *)
(* worker with the run it aims at.                                           *)
StopInv ==
  /\ \A m \in Turn : Contains(inbox, Stop(m)) => m \in asked
  /\ \A m, n \in executing : m # n => m \in met
  /\ up /\ activeStop # NoTurn => activeStop \in executing
  /\ aborted \subseteq asked /\ cut \subseteq met
  /\ \A m \in Turn : Contains(outbox, [type |-> "stopped", turn |-> m]) => m \in asked \cup met
  /\ StopsItsTurn

(* The page drops a record when it hears that its marker is written.         *)
Started == {m \in Turn : status[m] # "none"}
LiveInv ==
  /\ IsFiniteSet(Started) /\ live \subseteq Started
  /\ \A m \in Turn : Contains(outbox, [type |-> "logged", turn |-> m]) => marker[m] > 0
  /\ StaysVisible

EndInv == MarkerInv /\ StopInv /\ LiveInv

LEMMA InitEnds == Init => EndInv
<1>. SUFFICES ASSUME Init PROVE EndInv
  OBVIOUS
<1>1. inbox = <<>> /\ outbox = <<>> /\ \A x : ~Contains(<<>>, x) /\ Single(<<>>, x)
  BY OneHas DEF Init, WorkerInit
<1>2. MarkerInv
  BY <1>1 DEF Init, WorkerInit, MarkerInv, MarkerOk
<1>3. StopInv
  BY <1>1 DEF Init, WorkerInit, StopInv, StopsItsTurn
<1>4. LiveInv
  <2>1. Started = {} /\ live = {} /\ \A m \in Turn : status[m] = "none"
    BY DEF Init, Started
  <2>. QED BY <1>1, <2>1, FS_EmptySet DEF LiveInv, StaysVisible
<1>. QED BY <1>2, <1>3, <1>4 DEF EndInv

(* What the page does: it posts messages, settles turns, hears answers.      *)
LEMMA PostedHas ==
  ASSUME TypeInv, NEW msgs \in Seq(Messages), inbox' = posted(msgs), NEW x
  PROVE  /\ Contains(inbox', x) => Contains(inbox, x) \/ Contains(msgs, x)
         /\ Single(inbox, x) /\ Single(msgs, x) /\ ~(Contains(inbox, x) /\ Contains(msgs, x))
              => Single(inbox', x)
<1>1. inbox \in Seq(Messages)
  BY DEF TypeInv, WorkerInv
<1>. QED BY <1>1, ConcatHas DEF posted

LEMMA PageMarkers ==
  ASSUME TypeInv, MarkerInv, NEW msgs \in Seq(Messages), inbox' = posted(msgs),
         UNCHANGED <<writing, marker>>,
         \A m \in Turn : Single(msgs, Log(m)),
         \A m \in Turn : Contains(msgs, Log(m)) => status[m] \notin Outcome /\ status'[m] \in Outcome,
         \A m \in Turn : status[m] \in Outcome => status'[m] \in Outcome,
         \A m \in Turn : ended'[m] <= 1
  PROVE  MarkerInv'
<1>1. SUFFICES ASSUME NEW m \in Turn PROVE MarkerOk(m)'
  BY DEF MarkerInv
<1>2. MarkerOk(m)
  BY DEF MarkerInv
<1>3. Contains(msgs, Log(m)) => ~Contains(inbox, Log(m)) /\ m \notin writing /\ marker[m] = 0
  <2>1. marker[m] \in Nat
    BY DEF TypeInv, WorkerInv
  <2>. QED BY <1>2, <2>1 DEF MarkerOk
<1>4. /\ Contains(inbox', Log(m)) => Contains(inbox, Log(m)) \/ Contains(msgs, Log(m))
      /\ Single(inbox', Log(m))
  BY <1>2, <1>3, PostedHas DEF MarkerOk
<1>. QED BY <1>2, <1>3, <1>4 DEF MarkerOk

LEMMA PageStops ==
  ASSUME TypeInv, StopInv, NEW msgs \in Seq(Messages), inbox' = posted(msgs),
         UNCHANGED <<up, runVars>>,
         \A m \in Turn : Contains(msgs, Stop(m)) => m \in asked',
         asked \subseteq asked',
         \A x : Contains(outbox', x) => Contains(outbox, x),
         \A m \in Turn : status'[m] = "stopped" => status[m] = "stopped" \/ m \in asked \cup met
  PROVE  StopInv'
<1>1. \A m \in Turn : Contains(inbox', Stop(m)) => Contains(inbox, Stop(m)) \/ Contains(msgs, Stop(m))
  BY PostedHas
<1>. QED BY <1>1 DEF StopInv, StopsItsTurn, runVars

LEMMA PageLives ==
  ASSUME LiveInv, UNCHANGED marker, \A x : Contains(outbox', x) => Contains(outbox, x),
         \A m \in Turn : status'[m] # "none" <=> status[m] # "none",
         live' \subseteq live,
         \A m \in Turn : status[m] # "none" => chatOf'[m] = chatOf[m],
         \A m \in Turn : status[m] # "none" /\ chatOf'[m] \notin gone' => chatOf[m] \notin gone,
         \A m \in Turn : m \in live /\ chatOf'[m] \notin gone' => m \in live' \/ marker[m] > 0
  PROVE  LiveInv'
<1>1. Started' = Started
  BY DEF Started
<1>2. ASSUME NEW m \in Turn, status[m] # "none"
      PROVE  crowdedOut(m)' <=> crowdedOut(m)
  <2>1. followers(m)' = followers(m)
    BY <1>2 DEF followers
  <2>. QED BY <2>1 DEF crowdedOut
<1>. QED BY <1>1, <1>2 DEF LiveInv, StaysVisible

(* The user is told at most once.                                            *)
LEMMA ToldOnce ==
  ASSUME TypeInv, OrderInv, MarkerInv, NEW m \in Turn
  PROVE  /\ ended[m] \in Nat /\ ended[m] <= 1 /\ (ended[m] = 0 => ended[m] + 1 <= 1)
         /\ status[m] \in {"none", "running"} => ended[m] = 0
         /\ status[m] \notin Outcome <=> status[m] \in {"none", "running"}
<1>1. /\ status[m] \in Outcome \cup {"none", "running"} /\ ended[m] \in Nat
      /\ "none" \notin Outcome /\ "running" \notin Outcome
  BY Shape
<1>2. TurnOk(m) /\ MarkerOk(m)
  BY DEF OrderInv, MarkerInv
<1>3. ended[m] <= 1 /\ (status[m] \in {"none", "running"} => ended[m] = 0)
  BY <1>2 DEF TurnOk, MarkerOk
<1>. QED BY <1>1, <1>3


(* Steps of the page that post nothing, or one message that is no marker.    *)
LEMMA QuietEnds ==
  ASSUME TypeInv, OrderInv, EndInv, NEW msgs \in Seq(Messages), inbox' = posted(msgs),
         UNCHANGED <<up, outbox, runVars, logVars, status, ended>>,
         \A m \in Turn : ~Contains(msgs, Log(m)) /\ Single(msgs, Log(m)),
         \A m \in Turn : Contains(msgs, Stop(m)) => m \in asked',
         asked \subseteq asked',
         live' \subseteq live,
         \A m \in Turn : status[m] # "none" => chatOf'[m] = chatOf[m],
         \A m \in Turn : status[m] # "none" /\ chatOf'[m] \notin gone' => chatOf[m] \notin gone,
         \A m \in Turn : m \in live /\ chatOf'[m] \notin gone' => m \in live'
  PROVE  EndInv'
<1>1. MarkerInv'
  BY PageMarkers, ToldOnce DEF EndInv, logVars
<1>2. StopInv'
  BY PageStops DEF EndInv
<1>3. LiveInv'
  BY PageLives DEF EndInv, logVars
<1>. QED BY <1>1, <1>2, <1>3 DEF EndInv

LEMMA NoneEnds ==
  ASSUME TypeInv, OrderInv, EndInv,
         UNCHANGED <<up, inbox, outbox, runVars, logVars, status, ended, asked>>,
         live' \subseteq live,
         \A m \in Turn : status[m] # "none" => chatOf'[m] = chatOf[m],
         \A m \in Turn : status[m] # "none" /\ chatOf'[m] \notin gone' => chatOf[m] \notin gone,
         \A m \in Turn : m \in live /\ chatOf'[m] \notin gone' => m \in live'
  PROVE  EndInv'
<1>1. <<>> \in Seq(Messages) /\ inbox \in Seq(Messages)
  BY EmptySeq DEF TypeInv, WorkerInv
<1>2. inbox' = posted(<<>>)
  BY <1>1 DEF posted
<1>. QED BY <1>1, <1>2, OneHas, QuietEnds

LEMMA SubmitEnds ==
  ASSUME TypeInv, OrderInv, EndInv, NEW m \in Turn, NEW c \in Chat, submitTurn(m, c)
  PROVE  EndInv'
<1>1. /\ UNCHANGED <<up, inbox, outbox, runVars, logVars, status, ended, asked, live, gone>>
      /\ chatOf[m] = NoChat /\ chatOf' = [chatOf EXCEPT ![m] = c]
  BY DEF submitTurn, workerVars, turnVars
<1>2. chatOf \in [Turn -> Chat \cup {NoChat}]
  BY DEF TypeInv, UserInv
<1>3. status[m] = "none"
  BY <1>1 DEF OrderInv, TurnOk
<1>4. \A x \in Turn : status[x] # "none" => chatOf'[x] = chatOf[x]
  BY <1>1, <1>2, <1>3
<1>. QED BY <1>1, <1>4, NoneEnds

(* The record that a new one pushes out is followed by the others.           *)
LEMMA StartLives ==
  ASSUME TypeInv, LiveInv, NEW c \in Chat, NEW m \in Sent, chatOf[m] = c,
         UNCHANGED <<marker, outbox, chatOf, gone>>,
         live' = (live \cup {m}) \ shifted(records(c, m)),
         \A x \in Turn : status'[x] = IF x = m THEN "running" ELSE status[x]
  PROVE  LiveInv'
<1>1. m \in Turn /\ live \subseteq Turn /\ Turn \subseteq Nat
  BY Shape DEF TypeInv, TurnInv
<1>2. IsFiniteSet(Started) /\ IsFiniteSet(Started \cup {m})
  BY FS_AddElement DEF LiveInv
<1>3. Started' \subseteq Started \cup {m} /\ Started \subseteq Started'
  BY DEF Started
<1>4. IsFiniteSet(Started')
  BY <1>2, <1>3, FS_Subset
<1>5. ASSUME NEW k \in Turn
      PROVE  IsFiniteSet(followers(k)') /\ Cardinality(followers(k)') \in Nat
  <2>1. followers(k)' \subseteq Started'
    BY DEF followers, Started
  <2>. QED BY <1>4, <2>1, FS_Subset, FS_CardinalityType
<1>6. ASSUME NEW k \in Turn, crowdedOut(k)
      PROVE  crowdedOut(k)'
  <2>1. followers(k) \subseteq followers(k)'
    BY DEF followers
  <2>2. Cardinality(followers(k)) \in Nat /\ Cardinality(followers(k)) <= Cardinality(followers(k)')
    BY <1>5, <2>1, FS_Subset, FS_CardinalityType
  <2>. QED BY <1>5, <1>6, <2>2, KeptAssumption DEF crowdedOut
<1>7. PICK list : list = records(c, m)
  OBVIOUS
<1>8. ASSUME NEW k \in Turn, k \in shifted(list)
      PROVE  crowdedOut(k)'
  <2>1. k \in list /\ Cardinality(list) > Kept /\ \A n \in list : k <= n
    BY <1>8 DEF shifted, first
  <2>2. list \subseteq Started' /\ list \subseteq Turn /\ \A n \in list : chatOf[n] = c
    BY <1>1, <1>3, <1>7 DEF records, Started, LiveInv
  <2>3. IsFiniteSet(list)
    BY <1>4, <2>2, FS_Subset
  <2>4. /\ Cardinality(list \ {k}) = Cardinality(list) - 1
        /\ Cardinality(list) \in Nat
    BY <2>1, <2>3, FS_RemoveElement, FS_CardinalityType
  <2>5. list \ {k} \subseteq followers(k)'
    <3>1. \A n \in list : n \in Turn /\ n \in Nat /\ k \in Nat /\ (n # k => k < n)
      BY <1>1, <2>1, <2>2
    <3>. QED BY <2>1, <2>2, <3>1 DEF followers, Started
  <2>6. Cardinality(list \ {k}) <= Cardinality(followers(k)')
    BY <1>5, <2>5, FS_Subset
  <2>. QED BY <1>5, <2>1, <2>4, <2>6, KeptAssumption DEF crowdedOut
<1>9. live' \subseteq Started'
  BY <1>1, <1>3 DEF LiveInv, Started
<1>. QED BY <1>1, <1>4, <1>6, <1>7, <1>8, <1>9 DEF LiveInv, StaysVisible

LEMMA StartEnds ==
  ASSUME TypeInv, OrderInv, EndInv, NEW c \in Chat, startRun(c)
  PROVE  EndInv'
<1>1. drain[c] # Off /\ drain[c].at = "setup"
  BY Shape DEF startRun, inAwait
<1>2. PICK m : m = drain[c].turn
  OBVIOUS
<1>3. m \in Turn /\ m \in Sent /\ status[m] = "none"
  <2>1. LoopOk(c) /\ m \in Sent /\ Sent \subseteq Turn
    BY <1>1, <1>2, Shape DEF OrderInv
  <2>. QED BY <1>1, <1>2, <2>1 DEF LoopOk
<1>4. /\ UNCHANGED <<up, outbox, runVars, logVars, ended, asked, gone, chatOf>>
      /\ live' = (live \cup {m}) \ shifted(records(c, m)) /\ status' = [status EXCEPT ![m] = "running"]
      /\ inbox' = posted(<<Run(m)>>)
  BY <1>2 DEF startRun, userVars
<1>5. <<Run(m)>> \in Seq(Messages)
  BY <1>3, MessagesTyped, Few
<1>6. \A x \in Turn : ~Contains(<<Run(m)>>, Log(x)) /\ ~Contains(<<Run(m)>>, Stop(x)) /\ Single(<<Run(m)>>, Log(x))
  BY OneHas, Different
<1>7. /\ \A x \in Turn : status'[x] = IF x = m THEN "running" ELSE status[x]
      /\ status[m] \notin Outcome /\ "running" # "stopped" /\ "running" # "none"
  BY <1>3, <1>4 DEF TypeInv, TurnInv, Outcome
<1>8. MarkerInv'
  BY <1>4, <1>5, <1>6, <1>7, PageMarkers, ToldOnce DEF EndInv, logVars
<1>9. StopInv'
  BY <1>4, <1>5, <1>6, <1>7, PageStops DEF EndInv
<1>10. LiveInv'
  <2>1. chatOf[m] = c
    BY <1>1, <1>2 DEF OrderInv, LoopOk
  <2>. QED BY <1>3, <1>4, <1>7, <2>1, StartLives DEF EndInv, logVars
<1>. QED BY <1>8, <1>9, <1>10 DEF EndInv

(* An answer settles the turns that are still running, each with its marker. *)
LEMMA SettleEnds ==
  ASSUME TypeInv, OrderInv, EndInv, NEW R \in SUBSET pending, NEW o \in Outcome, settle(R, o),
         UNCHANGED <<up, runVars, logVars, userVars>>,
         \A x : Contains(outbox', x) => Contains(outbox, x),
         o = "stopped" => \A m \in R : m \in asked \cup met
  PROVE  EndInv'
<1>1. PICK open : open = unsettled(R)
  OBVIOUS
<1>2. /\ open \subseteq R /\ open \subseteq Sent /\ IsFiniteSet(open) /\ Sent \subseteq Turn
      /\ \A m \in open : status[m] = "running"
  BY <1>1, FS_Subset, Shape DEF unsettled, TypeInv, TurnInv
<1>3. PICK order \in SetToSeqs(open) : inbox' = posted([i \in DOMAIN order |-> Log(order[i])])
  BY <1>1 DEF settle
<1>4. PICK msgs : msgs = [i \in DOMAIN order |-> Log(order[i])]
  OBVIOUS
<1>5. /\ msgs \in Seq(Messages) /\ inbox' = posted(msgs)
      /\ \A m : Contains(msgs, Log(m)) => m \in open
      /\ \A m : Single(msgs, Log(m))
      /\ \A m : ~Contains(msgs, Stop(m))
  BY <1>2, <1>3, <1>4, MarkersTyped, MarkersOnce
<1>6. /\ \A m \in Turn : status'[m] = IF m \in open THEN o ELSE status[m]
      /\ UNCHANGED <<live, ended>>
  BY <1>1 DEF settle
<1>7. "running" \notin Outcome /\ "none" \notin Outcome
  BY DEF Outcome
<1>8. MarkerInv'
  BY <1>2, <1>5, <1>6, <1>7, PageMarkers, ToldOnce DEF EndInv, logVars
<1>9. StopInv'
  BY <1>2, <1>5, <1>6, PageStops DEF EndInv, userVars
<1>10. LiveInv'
  BY <1>2, <1>6, <1>7, PageLives DEF EndInv, logVars, userVars
<1>. QED BY <1>8, <1>9, <1>10 DEF EndInv

LEMMA ArrivesHas ==
  ASSUME TypeInv, NEW types, arrives(types)
  PROVE  /\ Contains(outbox, Head(outbox)) /\ Head(outbox) \in Replies
         /\ \A x : Contains(outbox', x) => Contains(outbox, x)
         /\ Head(outbox) = [type |-> Head(outbox).type, turn |-> Head(outbox).turn]
<1>1. outbox \in Seq(Replies) /\ outbox # <<>> /\ outbox' = Tail(outbox)
  BY DEF arrives, TypeInv, WorkerInv
<1>2. Head(outbox) \in Replies
  BY <1>1, TailOf
<1>3. ASSUME NEW r \in Replies
      PROVE  r = [type |-> r.type, turn |-> r.turn]
  <2>1. CASE r = [type |-> "failed", turn |-> NoTurn]
    BY <2>1
  <2>2. ASSUME NEW T, r \in [type : T, turn : Sent]
        PROVE  r = [type |-> r.type, turn |-> r.turn]
    BY <2>2
  <2>. QED BY <2>1, <2>2, Zenon DEF Replies
<1>. QED BY <1>1, <1>2, <1>3, TailHas

LEMMA ResultEnds ==
  ASSUME TypeInv, OrderInv, EndInv, receiveResult \/ receiveError
  PROVE  EndInv'
<1>1. CASE receiveResult
  <2>1. PICK R, o, m : m = Head(outbox).turn /\ R = {m} \cap pending /\ o = Head(outbox).type
    OBVIOUS
  <2>2. /\ R \in SUBSET pending /\ o \in Outcome /\ settle(R, o) /\ arrives(Outcome)
        /\ UNCHANGED <<up, runVars, logVars, userVars>>
    BY <1>1, <2>1 DEF receiveResult, arrives
  <2>3. R \subseteq Turn
    BY <2>2, Shape
  <2>4. o = "stopped" => \A x \in R : x \in asked \cup met
    <3>1. Contains(outbox, Head(outbox)) /\ Head(outbox) = [type |-> o, turn |-> m]
      BY <2>1, <2>2, ArrivesHas
    <3>2. ASSUME o = "stopped", NEW x \in R PROVE x \in asked \cup met
      <4>1. x = m /\ m \in Turn
        BY <2>1, <2>3, <3>2
      <4>2. Contains(outbox, [type |-> "stopped", turn |-> m])
        BY <3>1, <3>2
      <4>. QED BY <4>1, <4>2 DEF EndInv, StopInv
    <3>. QED BY <3>2
  <2>. QED BY <2>2, <2>4, ArrivesHas, SettleEnds
<1>2. CASE receiveError
  <2>1. PICK R, o : R = pending /\ o = "error"
    OBVIOUS
  <2>2. /\ R \in SUBSET pending /\ o \in Outcome /\ settle(R, o) /\ arrives({"failed"}) /\ o # "stopped"
        /\ UNCHANGED <<up, runVars, logVars, userVars>>
    BY <1>2, <2>1 DEF receiveError, Outcome
  <2>. QED BY <2>2, ArrivesHas, SettleEnds
<1>. QED BY <1>1, <1>2

LEMMA LoggedEnds ==
  ASSUME TypeInv, OrderInv, EndInv, receiveLogged
  PROVE  EndInv'
<1>1. PICK m : m = Head(outbox).turn
  OBVIOUS
<1>2. PICK c : c = chatOf[m]
  OBVIOUS
<1>3. /\ arrives({"logged", "log failed"})
      /\ UNCHANGED <<up, inbox, runVars, logVars, pending, status, userVars>>
      /\ live' = IF Head(outbox).type = "logged" THEN live \ {m} ELSE live
      /\ IF drain[c] = [at |-> "persist", turn |-> m]
           THEN ended' = [ended EXCEPT ![m] = @ + 1]
           ELSE ended' = ended
  BY <1>1, <1>2 DEF receiveLogged, dropsLive
<1>4. m \in Sent /\ m \in Turn /\ c \in Chat
  <2>1. /\ Head(outbox).type \in {"logged", "log failed"}
        /\ Head(outbox).type # "failed" => m \in Sent
    BY <1>1, <1>3, ArrivesTyped, Zenon
  <2>2. m \in Sent
    BY <2>1
  <2>. QED BY <1>2, <2>2, Shape
<1>5. \A x \in Turn : ended'[x] <= 1
  <2>1. CASE drain[c] = [at |-> "persist", turn |-> m]
    <3>1. drain[c] # Off /\ drain[c].at = "persist" /\ m = drain[c].turn
      BY <2>1 DEF Off
    <3>2. ended[m] = 0
      BY <1>4, <3>1 DEF OrderInv, LoopOk
    <3>. QED BY <1>3, <1>4, <2>1, <3>2, ToldOnce DEF EndInv, TypeInv, TurnInv
  <2>2. CASE drain[c] # [at |-> "persist", turn |-> m]
    BY <1>3, <2>2, ToldOnce DEF EndInv
  <2>. QED BY <2>1, <2>2
<1>6. \A x : Contains(outbox', x) => Contains(outbox, x)
  BY <1>3, ArrivesHas
<1>7. MarkerInv'
  BY <1>3, <1>5 DEF EndInv, MarkerInv, MarkerOk, logVars
<1>8. StopInv'
  BY <1>3, <1>6 DEF EndInv, StopInv, StopsItsTurn, runVars, userVars
<1>9. Head(outbox).type = "logged" => marker[m] > 0
  BY <1>1, <1>3, <1>4, ArrivesHas DEF EndInv, LiveInv
<1>10. LiveInv'
  BY <1>3, <1>6, <1>9 DEF EndInv, LiveInv, StaysVisible, Started, crowdedOut, followers, logVars, userVars
<1>. QED BY <1>7, <1>8, <1>10 DEF EndInv


(* The watchdog settles a turn that is still running, with its marker.       *)
LEMMA StaleEnds ==
  ASSUME TypeInv, OrderInv, EndInv, NEW c \in Chat, Stale(c) \/ StaleAfterSleep(c)
  PROVE  EndInv'
<1>1. PICK m : m = watch[c]
  OBVIOUS
<1>2. reportStale(c) /\ m \in Turn /\ m \in Sent
  BY <1>1, Shape DEF Stale, StaleAfterSleep, reportStale, TypeInv, ChatInv
<1>3. UNCHANGED <<up, outbox, runVars, logVars, live, chatOf, gone>>
  BY <1>2 DEF reportStale
<1>4. CASE status[m] # "running"
  <2>1. UNCHANGED <<inbox, status, ended, asked>>
    BY <1>1, <1>2, <1>4 DEF reportStale
  <2>. QED BY <1>3, <2>1, NoneEnds
<1>5. CASE status[m] = "running"
  <2>1. PICK msgs : msgs = IF activeRun[c] = m THEN <<Stop(m), Log(m)>> ELSE <<Log(m)>>
    OBVIOUS
  <2>2. /\ status' = [status EXCEPT ![m] = "error"]
        /\ ended' = [ended EXCEPT ![m] = @ + 1]
        /\ inbox' = posted(msgs)
        /\ asked' = IF activeRun[c] = m THEN asked \cup {m} ELSE asked
    BY <1>1, <1>2, <1>5, <2>1 DEF reportStale
  <2>3. msgs \in Seq(Messages)
    BY <1>2, <2>1, MessagesTyped, Few
  <2>4. /\ \A x \in Turn : Contains(msgs, Log(x)) => x = m
        /\ \A x \in Turn : Single(msgs, Log(x))
        /\ \A x \in Turn : Contains(msgs, Stop(x)) => x \in asked'
    <3>1. CASE activeRun[c] = m
      <4>1. msgs = <<Stop(m), Log(m)>> /\ Stop(m) # Log(m) /\ m \in asked'
        BY <2>1, <2>2, <3>1, Different
      <4>. QED BY <4>1, TwoHas, Different
    <3>2. CASE activeRun[c] # m
      <4>1. msgs = <<Log(m)>>
        BY <2>1, <3>2
      <4>. QED BY <4>1, OneHas, Different
    <3>. QED BY <3>1, <3>2
  <2>5. /\ \A x \in Turn : status'[x] = IF x = m THEN "error" ELSE status[x]
        /\ \A x \in Turn : ended'[x] = IF x = m THEN ended[x] + 1 ELSE ended[x]
        /\ "running" \notin Outcome /\ "error" \in Outcome
    BY <1>2, <2>2 DEF TypeInv, TurnInv, Outcome
  <2>6. \A x \in Turn : ended'[x] <= 1
    BY <1>2, <1>5, <2>5, ToldOnce DEF EndInv
  <2>7. MarkerInv'
    BY <1>3, <1>5, <2>2, <2>3, <2>4, <2>5, <2>6, PageMarkers DEF EndInv, logVars
  <2>8. asked \subseteq asked'
    BY <2>2
  <2>9. StopInv'
    BY <1>3, <2>2, <2>3, <2>4, <2>5, <2>8, PageStops DEF EndInv
  <2>10. LiveInv'
    BY <1>3, <1>5, <2>5, PageLives DEF EndInv, logVars
  <2>. QED BY <2>7, <2>9, <2>10 DEF EndInv
<1>. QED BY <1>4, <1>5

LEMMA StopEnds ==
  ASSUME TypeInv, OrderInv, EndInv, NEW c \in Chat, stop(c)
  PROVE  EndInv'
<1>1. UNCHANGED <<up, outbox, runVars, logVars, status, ended, live, chatOf, gone>>
  BY DEF stop, turnVars
<1>2. CASE activeRun[c] = NoTurn
  BY <1>1, <1>2, NoneEnds DEF stop
<1>3. CASE activeRun[c] # NoTurn
  <2>1. PICK m : m = activeRun[c]
    OBVIOUS
  <2>2. inbox' = posted(<<Stop(m)>>) /\ asked' = asked \cup {m} /\ m \in Sent
    BY <1>3, <2>1 DEF stop, TypeInv, ChatInv
  <2>3. <<Stop(m)>> \in Seq(Messages)
    BY <2>2, MessagesTyped, Few
  <2>4. \A x \in Turn : /\ ~Contains(<<Stop(m)>>, Log(x)) /\ Single(<<Stop(m)>>, Log(x))
                        /\ Contains(<<Stop(m)>>, Stop(x)) => x = m
    BY OneHas, Different
  <2>. QED BY <1>1, <2>2, <2>3, <2>4, QuietEnds
<1>. QED BY <1>2, <1>3

(* A deleted chat takes its records along.                                   *)
LEMMA DeleteEnds ==
  ASSUME TypeInv, OrderInv, EndInv, NEW c \in Chat, deleteChat(c)
  PROVE  EndInv'
<1>1. /\ UNCHANGED <<up, inbox, outbox, runVars, logVars, status, ended, asked, chatOf>>
      /\ gone' = gone \cup {c} /\ live' = {m \in live : chatOf[m] # c}
  BY DEF deleteChat, workerVars
<1>. QED BY <1>1, NoneEnds

LEMMA OtherEnds ==
  ASSUME TypeInv, OrderInv, EndInv,
         \/ \E c \in Chat : setupFails(c) \/ \E i \in DOMAIN queue[c] : cancel(c, i)
         \/ UNCHANGED vars
  PROVE  EndInv'
<1>1. UNCHANGED <<up, inbox, outbox, runVars, logVars, status, ended, asked, live, chatOf, gone>>
  BY DEF setupFails, cancel, workerVars, turnVars, userVars, vars
<1>. QED BY <1>1, NoneEnds

LEMMA PullEnds ==
  ASSUME TypeInv, OrderInv, EndInv, pullDumps
  PROVE  EndInv'
<1>1. /\ UNCHANGED <<up, outbox, runVars, logVars, status, ended, live, chatOf, gone, asked>>
      /\ inbox' = posted(<<Apply>>)
  BY DEF pullDumps, turnVars, userVars
<1>2. <<Apply>> \in Seq(Messages)
  BY OtherMessagesTyped, Few
<1>3. \A x \in Turn : /\ ~Contains(<<Apply>>, Log(x)) /\ Single(<<Apply>>, Log(x))
                      /\ ~Contains(<<Apply>>, Stop(x))
  BY OneHas, Different
<1>. QED BY <1>1, <1>2, <1>3, QuietEnds

(* What the worker does.                                                     *)
LEMMA TakenHas ==
  ASSUME TypeInv, NEW type, receive(type)
  PROVE  /\ up /\ Contains(inbox, Head(inbox)) /\ Head(inbox).type = type /\ Head(inbox) \in Messages
         /\ \A x : Contains(inbox', x) => Contains(inbox, x)
         /\ \A x : Single(inbox, x) => Single(inbox', x)
         /\ \A x : Single(inbox, x) /\ Head(inbox) = x => ~Contains(inbox', x)
<1>1. inbox \in Seq(Messages) /\ inbox # <<>> /\ inbox' = Tail(inbox)
  BY DEF receive, TypeInv, WorkerInv
<1>2. Head(inbox) \in Messages
  BY <1>1, TailOf
<1>. QED BY <1>1, <1>2, TailHas DEF receive

LEMMA NamedTurn ==
  ASSUME NEW r \in Messages, r.type # "db-apply"
  PROVE  /\ r.turn \in Sent
         /\ r.type = "log" => r = Log(r.turn)
         /\ r.type = "stop" => r = Stop(r.turn)
  BY DEF Messages, Apply, Log, Stop

(* It takes a message that it neither writes nor answers.                    *)
LEMMA TakenMarkers ==
  ASSUME TypeInv, MarkerInv, NEW type, receive(type), UNCHANGED <<logVars, status, ended>>
  PROVE  MarkerInv'
<1>1. SUFFICES ASSUME NEW m \in Turn PROVE MarkerOk(m)'
  BY DEF MarkerInv
<1>. QED BY <1>1, TakenHas DEF MarkerInv, MarkerOk, logVars

LEMMA RunTakenEnds ==
  ASSUME TypeInv, EndInv, ReceiveRun, UNCHANGED pageVars
  PROVE  EndInv'
<1>1. PICK m : m = Head(inbox).turn
  OBVIOUS
<1>2. /\ receive("run") /\ UNCHANGED <<up, outbox, aborted, cut, logVars, status, ended, asked>>
      /\ executing' = executing \cup {m} /\ activeStop' = m
      /\ met' = IF executing = {} THEN met ELSE met \cup executing'
  BY <1>1 DEF ReceiveRun, pageVars, turnVars, userVars
<1>3. MarkerInv'
  BY <1>2, TakenMarkers DEF EndInv
<1>4. StopInv'
  <2>1. met \subseteq met' /\ \A x, y \in executing' : x # y => x \in met'
    BY <1>2
  <2>. QED BY <1>2, <2>1, TakenHas DEF EndInv, StopInv, StopsItsTurn
<1>5. LiveInv'
  BY <1>2 DEF EndInv, LiveInv, StaysVisible, Started, crowdedOut, followers, logVars, pageVars, turnVars, userVars
<1>. QED BY <1>3, <1>4, <1>5 DEF EndInv

LEMMA StopTakenEnds ==
  ASSUME TypeInv, EndInv, ReceiveStop, UNCHANGED pageVars
  PROVE  EndInv'
<1>1. PICK m : m = Head(inbox).turn
  OBVIOUS
<1>2. /\ receive("stop") /\ UNCHANGED <<up, outbox, executing, activeStop, met, logVars, status, ended, asked>>
      /\ IF activeStop = m
           THEN aborted' = aborted \cup {m} /\ cut' = cut \cup (executing \ {m})
           ELSE UNCHANGED <<aborted, cut>>
  BY <1>1 DEF ReceiveStop, aims, pageVars, turnVars, userVars
<1>3. MarkerInv'
  BY <1>2, TakenMarkers DEF EndInv
<1>4. m \in Sent /\ m \in Turn /\ m # NoTurn /\ Contains(inbox, Stop(m)) /\ up
  BY <1>1, <1>2, TakenHas, NamedTurn, Shape
<1>5. StopInv'
  <2>1. m \in asked
    BY <1>4 DEF EndInv, StopInv
  <2>2. activeStop = m => m \in executing /\ executing \ {m} \subseteq met
    BY <1>4 DEF EndInv, StopInv
  <2>3. aborted' \subseteq asked /\ cut' \subseteq met
    BY <1>2, <2>1, <2>2 DEF EndInv, StopInv
  <2>. QED BY <1>2, <2>3, TakenHas DEF EndInv, StopInv, StopsItsTurn
<1>6. LiveInv'
  BY <1>2 DEF EndInv, LiveInv, StaysVisible, Started, crowdedOut, followers, logVars, pageVars, turnVars, userVars
<1>. QED BY <1>3, <1>5, <1>6 DEF EndInv

LEMMA LogTakenEnds ==
  ASSUME TypeInv, EndInv, ReceiveLog, UNCHANGED pageVars
  PROVE  EndInv'
<1>1. PICK n : n = Head(inbox).turn
  OBVIOUS
<1>2. /\ receive("log") /\ UNCHANGED <<up, outbox, runVars, marker, status, ended, asked>>
      /\ writing' = writing \cup {n}
  BY <1>1 DEF ReceiveLog, pageVars, turnVars, userVars
<1>3. n \in Sent /\ n \in Turn /\ Head(inbox) = Log(n) /\ Contains(inbox, Log(n))
  BY <1>1, <1>2, TakenHas, NamedTurn, Shape
<1>4. ASSUME NEW m \in Turn PROVE MarkerOk(m)'
  <2>1. MarkerOk(m)
    BY DEF EndInv, MarkerInv
  <2>2. CASE m = n
    <3>1. ~Contains(inbox', Log(m))
      BY <1>2, <1>3, <2>1, <2>2, TakenHas DEF MarkerOk
    <3>. QED BY <1>2, <1>3, <2>1, <2>2, <3>1, TakenHas DEF MarkerOk
  <2>3. CASE m # n
    BY <1>2, <2>1, <2>3, TakenHas DEF MarkerOk
  <2>. QED BY <2>2, <2>3
<1>5. StopInv'
  BY <1>2, TakenHas DEF EndInv, StopInv, StopsItsTurn, runVars
<1>6. LiveInv'
  BY <1>2 DEF EndInv, LiveInv, StaysVisible, Started, crowdedOut, followers, pageVars, turnVars, userVars
<1>. QED BY <1>4, <1>5, <1>6 DEF EndInv, MarkerInv

LEMMA ApplyTakenEnds ==
  ASSUME TypeInv, EndInv, ReceiveApply, UNCHANGED pageVars
  PROVE  EndInv'
<1>1. receive("db-apply") /\ UNCHANGED <<up, outbox, runVars, logVars, status, ended, asked>>
  BY DEF ReceiveApply, pageVars, turnVars, userVars
<1>2. MarkerInv'
  BY <1>1, TakenMarkers DEF EndInv
<1>3. StopInv'
  BY <1>1, TakenHas DEF EndInv, StopInv, StopsItsTurn, runVars
<1>4. LiveInv'
  BY <1>1 DEF EndInv, LiveInv, StaysVisible, Started, crowdedOut, followers, logVars, pageVars, turnVars, userVars
<1>. QED BY <1>2, <1>3, <1>4 DEF EndInv


(* It answers.                                                               *)
LEMMA AnsweredHas ==
  ASSUME TypeInv, NEW o, NEW m, [type |-> o, turn |-> m] \in Replies, post(o, m), NEW x
  PROVE  Contains(outbox', x) => Contains(outbox, x) \/ x = [type |-> o, turn |-> m]
<1>1. outbox \in Seq(Replies) /\ outbox' = Append(outbox, [type |-> o, turn |-> m])
  BY DEF TypeInv, WorkerInv, post
<1>. QED BY <1>1, AppendHas

LEMMA FinishEnds ==
  ASSUME TypeInv, EndInv, NEW m \in Turn, Finish(m), UNCHANGED pageVars
  PROVE  EndInv'
<1>1. PICK o \in outcomes(m) : post(o, m)
  BY DEF Finish
<1>2. /\ UNCHANGED <<up, inbox, aborted, cut, met, logVars, status, ended, asked, live, chatOf, gone>>
      /\ up /\ m \in executing /\ executing' = executing \ {m}
      /\ activeStop' = IF activeStop = m THEN NoTurn ELSE activeStop
  BY DEF Finish, pageVars, turnVars, userVars
<1>3. o \in Outcome /\ m \in Sent
  BY <1>1, <1>2 DEF outcomes, Outcome, TypeInv, WorkerInv
<1>4. [type |-> o, turn |-> m] \in Replies
  BY <1>3, MessagesTyped
<1>5. PICK r : r = [type |-> o, turn |-> m]
  OBVIOUS
<1>6. /\ \A x : Contains(outbox', x) => Contains(outbox, x) \/ x = r
      /\ r.type = o /\ r.turn = m
  BY <1>1, <1>4, <1>5, AnsweredHas
<1>7. o = "stopped" => m \in asked \cup met
  <2>1. o = "stopped" => m \in aborted \/ m \in cut
    BY <1>1 DEF outcomes
  <2>. QED BY <2>1 DEF EndInv, StopInv
<1>8. MarkerInv'
  BY <1>2 DEF EndInv, MarkerInv, MarkerOk, logVars
<1>9. StopInv'
  <2>1. ASSUME NEW x \in Turn, Contains(outbox', [type |-> "stopped", turn |-> x])
        PROVE  x \in asked \cup met
    <3>1. CASE [type |-> "stopped", turn |-> x] = r
      BY <1>6, <1>7, <3>1
    <3>2. CASE Contains(outbox, [type |-> "stopped", turn |-> x])
      BY <3>2 DEF EndInv, StopInv
    <3>. QED BY <1>6, <2>1, <3>1, <3>2
  <2>2. up' /\ activeStop' # NoTurn => activeStop' \in executing'
    BY <1>2 DEF EndInv, StopInv
  <2>3. \A x, y \in executing' : x # y => x \in met'
    BY <1>2 DEF EndInv, StopInv
  <2>4. (\A x \in Turn : Contains(inbox, Stop(x)) => x \in asked)'
    BY <1>2 DEF EndInv, StopInv
  <2>5. aborted' \subseteq asked' /\ cut' \subseteq met' /\ StopsItsTurn'
    BY <1>2 DEF EndInv, StopInv, StopsItsTurn
  <2>. QED BY <1>2, <2>1, <2>2, <2>3, <2>4, <2>5 DEF StopInv
<1>10. LiveInv'
  <2>1. o # "logged"
    BY <1>3 DEF Outcome
  <2>2. \A x \in Turn : Contains(outbox', [type |-> "logged", turn |-> x]) =>
                        Contains(outbox, [type |-> "logged", turn |-> x])
    BY <1>6, <2>1
  <2>. QED BY <1>2, <2>2 DEF EndInv, LiveInv, StaysVisible, Started, crowdedOut, followers, logVars
<1>. QED BY <1>8, <1>9, <1>10 DEF EndInv

(* The marker is written, or the log cannot be.                              *)
LEMMA WriteEnds ==
  ASSUME TypeInv, EndInv, NEW m \in Turn, WriteMarker(m) \/ LogFails(m), UNCHANGED pageVars
  PROVE  EndInv'
<1>1. PICK o : o = IF WriteMarker(m) THEN "logged" ELSE "log failed"
  OBVIOUS
<1>2. /\ UNCHANGED <<up, inbox, runVars, status, ended, asked, live, chatOf, gone>>
      /\ m \in writing /\ writing' = writing \ {m} /\ post(o, m)
      /\ marker' = [marker EXCEPT ![m] = @ + 1] \/ (marker' = marker /\ o # "logged")
  BY <1>1 DEF WriteMarker, LogFails, pageVars, turnVars, userVars
<1>3. m \in Sent
  BY <1>2 DEF TypeInv, WorkerInv
<1>4. [type |-> o, turn |-> m] \in Replies
  BY <1>1, <1>3, MessagesTyped
<1>5. o # "stopped"
  BY <1>1
<1>6. PICK r : r = [type |-> o, turn |-> m]
  OBVIOUS
<1>7. /\ \A x : Contains(outbox', x) => Contains(outbox, x) \/ x = r
      /\ r.type = o /\ r.turn = m
  BY <1>2, <1>4, <1>6, AnsweredHas
<1>8. /\ \A x \in Turn : x # m => marker'[x] = marker[x]
      /\ marker'[m] = marker[m] + 1 \/ (marker'[m] = marker[m] /\ o # "logged")
      /\ \A x \in Turn : marker[x] \in Nat
  BY <1>2 DEF TypeInv, WorkerInv
<1>9. ASSUME NEW x \in Turn PROVE MarkerOk(x)'
  <2>1. MarkerOk(x) /\ MarkerOk(m)
    BY DEF EndInv, MarkerInv
  <2>2. CASE x # m
    BY <1>2, <1>8, <2>1, <2>2 DEF MarkerOk
  <2>3. CASE x = m
    <3>1. ~Contains(inbox, Log(m)) /\ marker[m] = 0 /\ status[m] \in Outcome
      BY <1>2, <2>1 DEF MarkerOk
    <3>2. marker'[m] <= 1
      BY <1>8, <3>1
    <3>. QED BY <1>2, <2>1, <2>3, <3>1, <3>2 DEF MarkerOk
  <2>. QED BY <2>2, <2>3
<1>10. StopInv'
  <2>1. \A x \in Turn : Contains(outbox', [type |-> "stopped", turn |-> x]) =>
                        Contains(outbox, [type |-> "stopped", turn |-> x])
    BY <1>5, <1>7
  <2>. QED BY <1>2, <2>1 DEF EndInv, StopInv, StopsItsTurn, runVars
<1>11. LiveInv'
  <2>1. ASSUME NEW x \in Turn, Contains(outbox', [type |-> "logged", turn |-> x])
        PROVE  marker'[x] > 0
    <3>1. CASE [type |-> "logged", turn |-> x] = r
      BY <1>7, <1>8, <3>1
    <3>2. CASE Contains(outbox, [type |-> "logged", turn |-> x])
      <4>1. marker[x] > 0
        BY <3>2 DEF EndInv, LiveInv
      <4>. QED BY <1>8, <4>1
    <3>. QED BY <1>7, <2>1, <3>1, <3>2
  <2>2. \A x \in Turn : marker[x] > 0 => marker'[x] > 0
    BY <1>8
  <2>. QED BY <1>2, <2>1, <2>2 DEF EndInv, LiveInv, StaysVisible, Started, crowdedOut, followers
<1>. QED BY <1>9, <1>10, <1>11 DEF EndInv, MarkerInv

LEMMA FaultyEnds ==
  ASSUME TypeInv, EndInv, Uncaught \/ Die \/ \E m \in Turn : Wedge(m), UNCHANGED pageVars
  PROVE  EndInv'
<1>1. CASE \E m \in Turn : Wedge(m)
  <2>1. UNCHANGED <<up, inbox, outbox, executing, activeStop, aborted, cut, met, logVars, status,
                    ended, asked, live, chatOf, gone>>
    BY <1>1 DEF Wedge, pageVars, turnVars, userVars
  <2>. QED BY <2>1 DEF EndInv, MarkerInv, MarkerOk, StopInv, StopsItsTurn, LiveInv, StaysVisible, Started, crowdedOut, followers, logVars
<1>2. CASE Uncaught
  <2>1. /\ UNCHANGED <<up, inbox, runVars, logVars, status, ended, asked, live, chatOf, gone>>
        /\ post("failed", NoTurn)
    BY <1>2 DEF Uncaught, pageVars, turnVars, userVars
  <2>2. PICK r : r = [type |-> "failed", turn |-> NoTurn]
    OBVIOUS
  <2>3. (\A x : Contains(outbox', x) => Contains(outbox, x) \/ x = r) /\ r.type = "failed"
    BY <2>1, <2>2, OtherMessagesTyped, AnsweredHas
  <2>4. /\ \A x \in Turn : Contains(outbox', [type |-> "stopped", turn |-> x]) =>
                           Contains(outbox, [type |-> "stopped", turn |-> x])
        /\ \A x \in Turn : Contains(outbox', [type |-> "logged", turn |-> x]) =>
                           Contains(outbox, [type |-> "logged", turn |-> x])
    BY <2>3
  <2>5. MarkerInv'
    BY <2>1 DEF EndInv, MarkerInv, MarkerOk, logVars
  <2>6. StopInv'
    BY <2>1, <2>4 DEF EndInv, StopInv, StopsItsTurn, runVars
  <2>7. LiveInv'
    BY <2>1, <2>4 DEF EndInv, LiveInv, StaysVisible, Started, crowdedOut, followers, logVars
  <2>. QED BY <2>5, <2>6, <2>7 DEF EndInv
<1>3. CASE Die
  <2>1. /\ UNCHANGED <<outbox, aborted, cut, met, marker, status, ended, asked, live, chatOf, gone>>
        /\ up' = FALSE /\ inbox' = <<>> /\ executing' = {} /\ writing' = {}
    BY <1>3 DEF Die, pageVars, turnVars, userVars
  <2>2. \A x : ~Contains(inbox', x) /\ Single(inbox', x)
    BY <2>1, OneHas
  <2>3. MarkerInv'
    BY <2>1, <2>2 DEF EndInv, MarkerInv, MarkerOk
  <2>4. StopInv'
    BY <2>1, <2>2 DEF EndInv, StopInv, StopsItsTurn
  <2>5. LiveInv'
    BY <2>1 DEF EndInv, LiveInv, StaysVisible, Started, crowdedOut, followers
  <2>. QED BY <2>3, <2>4, <2>5 DEF EndInv
<1>. QED BY <1>1, <1>2, <1>3

LEMMA AloneEnds ==
  ASSUME TypeInv, EndInv, WorkerAlone
  PROVE  EndInv'
<1>1. WorkerActs /\ UNCHANGED pageVars
  BY DEF WorkerAlone
<1>. QED BY <1>1, RunTakenEnds, StopTakenEnds, LogTakenEnds, ApplyTakenEnds, FinishEnds, WriteEnds,
         FaultyEnds DEF WorkerActs, WorkerStep

LEMMA NextEnds == TypeInv /\ OrderInv /\ EndInv /\ [Next]_vars => EndInv'
<1>. SUFFICES ASSUME TypeInv, OrderInv, EndInv, [Next]_vars PROVE EndInv'
  OBVIOUS
<1>1. CASE Next
  BY <1>1, StepCases, SubmitEnds, StartEnds, ResultEnds, LoggedEnds, StaleEnds, StopEnds, DeleteEnds,
     OtherEnds, PullEnds, AloneEnds
<1>2. CASE UNCHANGED vars
  BY <1>2, OtherEnds
<1>. QED BY <1>1, <1>2

LEMMA EndsAlways == Spec => [](TypeInv /\ OrderInv /\ EndInv)
<1>1. Init => TypeInv /\ OrderInv /\ EndInv
  BY InitTypeInv, InitOrder, InitEnds
<1>2. TypeInv /\ OrderInv /\ EndInv /\ [Next]_vars => (TypeInv /\ OrderInv /\ EndInv)'
  BY NextTypeInv, NextOrder, NextEnds
<1>. QED BY <1>1, <1>2, PTL DEF Spec

(* The answer of a run and the watchdog may both come to settle its turn:    *)
(* one of them tells the user and has the marker written (settleStuck,       *)
(* runTurn).                                                                 *)
THEOREM ToldAndMarkedOnce == Spec => []EndsOnce
<1>1. EndInv => EndsOnce
  BY DEF EndInv, MarkerInv, MarkerOk, EndsOnce
<1>. QED BY <1>1, EndsAlways, PTL

(* A chat has one run at a time whose answer the page awaits (drainQueue).   *)
THEOREM OneRunPerChat == Spec => []OneRun
<1>1. TypeInv /\ OrderInv => OneRun
  <2>. SUFFICES ASSUME TypeInv, OrderInv, NEW m \in executing \cap pending,
                       NEW n \in executing \cap pending, chatOf[m] = chatOf[n]
                PROVE  m = n
    BY DEF OneRun
  <2>1. m \in Turn /\ n \in Turn
    BY Shape
  <2>2. TurnOk(m) /\ TurnOk(n)
    BY <2>1 DEF OrderInv
  <2>3. drain[chatOf[m]].turn = m /\ drain[chatOf[n]].turn = n
    BY <2>2 DEF TurnOk
  <2>. QED BY <2>3
<1>. QED BY <1>1, EndsAlways, PTL

(* A stop that crosses the end of its turn stops no other (/api/chat/stop,   *)
(* handleStop).                                                              *)
THEOREM StopsOnlyItsTurn == Spec => []StopsItsTurn
<1>1. EndInv => StopsItsTurn
  BY DEF EndInv, StopInv
<1>. QED BY <1>1, EndsAlways, PTL

(* A turn that was started is in the records of the page or in the run log   *)
(* until its chat is deleted or Kept later turns of it were started          *)
(* (liveTurns, turnEnd).                                                     *)
THEOREM StaysInSight == Spec => []StaysVisible
<1>1. EndInv => StaysVisible
  BY DEF EndInv, LiveInv
<1>. QED BY <1>1, EndsAlways, PTL
=============================================================================
