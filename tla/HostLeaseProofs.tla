---------------------------- MODULE HostLeaseProofs ----------------------------
(***************************************************************************)
(* Theorems about the host lease, for every set of tabs and every bound:   *)
(*   TypeCorrect        the type invariant of the lease with Web Locks     *)
(*   OneKeyHolds        lock manager and tabs agree on who has the lock    *)
(*   LockLeaseRefines   the lease with Web Locks implements SingleHost     *)
(*   LeaseRefines       so does the lease of a browser, whichever it uses  *)
(*   RecordTypeCorrect  the type invariant of the lease with the record    *)
(*   RecordHoldsOne     one page hosts by the record while pages run on    *)
(*                      time and the storage refuses few writes            *)
(***************************************************************************)
EXTENDS HostLease, SequenceTheorems, TLAPS

-----------------------------------------------------------------------------
(* Where a sequence has elements of a set, after Append and Tail.          *)

(* Appending adds at most the last position.                               *)
LEMMA AtAppend ==
  ASSUME NEW T, NEW s \in Seq(T), NEW e \in T, NEW S
  PROVE  /\ Append(s, e) \in Seq(T)
         /\ e \notin S => At(Append(s, e), S) = At(s, S)
         /\ At(s, S) = {} => AtMostOne(At(Append(s, e), S))
  BY AppendProperties DEF At, AtMostOne

(* Taking the head off shifts the others, so it makes no new one.          *)
LEMMA AtTail ==
  ASSUME NEW T, NEW s \in Seq(T), s # <<>>, NEW S
  PROVE  /\ Tail(s) \in Seq(T) /\ Head(s) \in T
         /\ At(s, S) = {} => At(Tail(s), S) = {}
         /\ AtMostOne(At(s, S)) => AtMostOne(At(Tail(s), S))
         /\ AtMostOne(At(s, S)) /\ Head(s) \in S => At(Tail(s), S) = {}
         /\ Head(s) \in S => At(s, S) # {}
<1>1. /\ Tail(s) \in Seq(T) /\ Head(s) \in T /\ Head(s) = s[1]
      /\ Len(s) \in Nat /\ Len(s) >= 1 /\ Len(Tail(s)) = Len(s) - 1
      /\ \A i \in 1 .. Len(Tail(s)) : Tail(s)[i] = s[i + 1]
  BY HeadTailProperties, LenProperties, EmptySeq
<1>2. DOMAIN s = 1 .. Len(s) /\ DOMAIN Tail(s) = 1 .. Len(Tail(s))
  BY <1>1, LenProperties
<1>3. \A i \in At(Tail(s), S) : i + 1 \in At(s, S) /\ i \in Nat /\ i >= 1
  BY <1>1, <1>2 DEF At
<1>4. Head(s) \in S => 1 \in At(s, S)
  BY <1>1, <1>2 DEF At
<1>5. AtMostOne(At(s, S)) => AtMostOne(At(Tail(s), S))
  BY <1>3 DEF AtMostOne
<1>6. ASSUME AtMostOne(At(s, S)), Head(s) \in S
      PROVE  At(Tail(s), S) = {}
  BY <1>3, <1>4, <1>6 DEF AtMostOne
<1>. QED BY <1>1, <1>3, <1>4, <1>5, <1>6
-----------------------------------------------------------------------------
(* The type invariant.                                                     *)

Calls == Source \cup {"release"}
Mail == {"free", "yield-request"}

(* A request is one more call of its tab.                                  *)
LEMMA RequestType ==
  ASSUME TypeOK, NEW t \in Tab, NEW source \in Source, Request(t, source)
  PROVE  calls' \in [Tab -> Seq(Calls)] /\ asking' \in [Tab -> SUBSET Source]
<1>1. calls[t] \in Seq(Calls) /\ source \in Calls
  BY DEF TypeOK, Calls
<1>2. Append(calls[t], source) \in Seq(Calls)
  BY <1>1, AppendProperties
<1>. QED BY <1>2 DEF Request, TypeOK, Calls

(* A posted message is one more in the mail of the others, or of nobody.   *)
LEMMA PostType ==
  ASSUME TypeOK, NEW t \in Tab, NEW message \in Mail, Post(t, message)
  PROVE  mail' \in [Tab -> Seq(Mail)]
<1>1. \A u \in Tab : mail[u] \in Seq(Mail) /\ Append(mail[u], message) \in Seq(Mail)
  BY AppendProperties DEF TypeOK, Mail
<1>2. CASE Channel
  BY <1>1, <1>2 DEF Post
<1>3. CASE ~Channel
  BY <1>3 DEF Post, TypeOK, Mail
<1>. QED BY <1>2, <1>3

(* The counters of take-overs and failures are numbers.                    *)
LEMMA UsedType ==
  ASSUME TypeOK
  PROVE  /\ [used EXCEPT !.takeOvers = @ + 1] \in [takeOvers : Nat, failures : Nat]
         /\ [used EXCEPT !.failures = @ + 1] \in [takeOvers : Nat, failures : Nat]
<1>1. used \in [takeOvers : Nat, failures : Nat]
  BY DEF TypeOK
<1>. QED BY <1>1

(* Every step keeps the shape of the state.                                *)
LEMMA TypeStep == TypeOK /\ [Next]_vars => TypeOK'
<1> SUFFICES ASSUME TypeOK, [Next]_vars PROVE TypeOK'
  OBVIOUS
<1> USE DEF Calls, Mail
<1>0. MaxTries \in Nat
  BY BoundAssumption
<1>1. ASSUME NEW t \in Tab, Open(t) PROVE TypeOK'
  BY <1>1, RequestType DEF Open, TypeOK, Source
<1>2. ASSUME NEW t \in Tab, Retry(t) PROVE TypeOK'
  <2>1. CASE mayAcquire(t)
    BY <1>2, <2>1, RequestType DEF Retry, TypeOK, Source
  <2>2. CASE ~mayAcquire(t)
    BY <1>2, <2>2 DEF Retry, TypeOK
  <2>. QED BY <2>1, <2>2
<1>3. ASSUME NEW t \in Tab, takeOver(t) PROVE TypeOK'
  <2>1. mail' \in [Tab -> Seq({"free", "yield-request"})]
    BY <1>3, PostType DEF takeOver
  <2>2. used' \in [takeOvers : Nat, failures : Nat]
    BY <1>3, UsedType DEF takeOver
  <2>3. tries' \in [Tab -> Nat]
    BY <1>0, <1>3 DEF takeOver, TypeOK
  <2>. QED BY <1>3, <2>1, <2>2, <2>3 DEF takeOver, TypeOK
<1>4. ASSUME NEW t \in Tab, takeOverAttempt(t) PROVE TypeOK'
  <2>1. CASE mayAcquire(t)
    <3>1. tries[t] \in Nat /\ tries[t] > 0 /\ tries' = [tries EXCEPT ![t] = @ - 1]
      BY <1>4, <2>1 DEF takeOverAttempt, TypeOK
    <3>2. tries' \in [Tab -> Nat]
      BY <3>1 DEF TypeOK
    <3>. QED BY <1>4, <2>1, <3>2, RequestType DEF takeOverAttempt, TypeOK, Source
  <2>2. CASE ~mayAcquire(t)
    <3>1. tries' = [tries EXCEPT ![t] = 0]
      BY <1>4, <2>2 DEF takeOverAttempt
    <3>2. tries' \in [Tab -> Nat]
      BY <3>1 DEF TypeOK
    <3>. QED BY <1>4, <2>2, <3>2 DEF takeOverAttempt, TypeOK
  <2>. QED BY <2>1, <2>2
<1>5. ASSUME NEW t \in Tab, Serve(t) PROVE TypeOK'
  <2>1. /\ Head(calls[t]) \in Source \cup {"release"}
        /\ calls' \in [Tab -> Seq(Source \cup {"release"})]
    BY <1>5, HeadTailProperties DEF Serve, TypeOK
  <2>2. lock' \in Tab \cup {NoTab}
    BY <1>5 DEF Serve, TypeOK
  <2>3. answers' \in [Tab -> Seq(Answer)]
    <3>1. CASE Head(calls[t]) = "release"
      BY <1>5, <3>1 DEF Serve, TypeOK
    <3>2. CASE Head(calls[t]) # "release"
      <4>1. [by |-> Head(calls[t]), granted |-> lock = NoTab] \in Answer
        BY <2>1, <3>2 DEF Answer
      <4>2. answers[t] \in Seq(Answer)
        BY DEF TypeOK
      <4>3. Append(answers[t], [by |-> Head(calls[t]), granted |-> lock = NoTab]) \in Seq(Answer)
        BY <4>1, <4>2, AppendProperties
      <4>. QED BY <1>5, <3>2, <4>3 DEF Serve, TypeOK
    <3>. QED BY <3>1, <3>2
  <2>. QED BY <1>5, <2>1, <2>2, <2>3 DEF Serve, TypeOK
<1>6. ASSUME NEW t \in Tab, Fail(t) PROVE TypeOK'
  <2>1. calls' \in [Tab -> Seq(Source \cup {"release"})]
    BY <1>6, HeadTailProperties DEF Fail, TypeOK
  <2>2. asking' \in [Tab -> SUBSET Source] /\ retry' \subseteq Tab
    BY <1>6 DEF Fail, TypeOK
  <2>3. used' \in [takeOvers : Nat, failures : Nat]
    BY <1>6, UsedType DEF Fail
  <2>. QED BY <1>6, <2>1, <2>2, <2>3 DEF Fail, TypeOK
<1>7. ASSUME NEW t \in Tab, Callback(t) PROVE TypeOK'
  <2>1. answers' \in [Tab -> Seq(Answer)]
    BY <1>7, HeadTailProperties DEF Callback, TypeOK
  <2>2. asking' \in [Tab -> SUBSET Source]
    BY <1>7 DEF Callback, TypeOK
  <2>3. status' \in [Tab -> Status] /\ hold' \subseteq Tab /\ retry' \subseteq Tab
    BY <1>7 DEF Callback, TypeOK, Status
  <2>. QED BY <1>7, <2>1, <2>2, <2>3 DEF Callback, TypeOK
<1>8. ASSUME NEW t \in Tab, onmessage(t) PROVE TypeOK'
  <2>1. Tail(mail[t]) \in Seq({"free", "yield-request"})
    BY <1>8, HeadTailProperties DEF onmessage, TypeOK
  <2>2. ASSUME yieldTo(t), tellOthers(t) PROVE TypeOK'
    <3>1. mail' \in [Tab -> Seq({"free", "yield-request"})]
      BY <2>1, <2>2, AppendProperties DEF tellOthers, TypeOK
    <3>2. calls' \in [Tab -> Seq(Source \cup {"release"})]
      BY <2>2, AppendProperties DEF yieldTo, releaseHold, TypeOK
    <3>. QED BY <1>8, <2>2, <3>1, <3>2 DEF onmessage, yieldTo, releaseHold, TypeOK, Status
  <2>3. ASSUME Request(t, "message"), mail' = [mail EXCEPT ![t] = Tail(@)],
               UNCHANGED <<status, retry, hold>>
        PROVE  TypeOK'
    BY <1>8, <2>1, <2>3, RequestType DEF onmessage, TypeOK, Source
  <2>4. ASSUME mail' = [mail EXCEPT ![t] = Tail(@)],
               UNCHANGED <<status, retry, hold, calls, asking>>
        PROVE  TypeOK'
    BY <1>8, <2>1, <2>4 DEF onmessage, TypeOK
  <2>. QED BY <1>8, <2>2, <2>3, <2>4 DEF onmessage
<1>9. ASSUME NEW t \in Tab, release(t) PROVE TypeOK'
  <2>1. mail' \in [Tab -> Seq({"free", "yield-request"})]
    BY <1>9, PostType DEF release, TypeOK
  <2>2. calls' \in [Tab -> Seq(Source \cup {"release"})]
    BY <1>9, AppendProperties DEF release, releaseHold, TypeOK
  <2>. QED BY <1>9, <2>1, <2>2 DEF release, releaseHold, TypeOK, Status
<1>10. ASSUME NEW t \in Tab, Close(t) PROVE TypeOK'
  BY <1>10, EmptySeq DEF Close, TypeOK, Status
<1>11. CASE UNCHANGED vars
  BY <1>11 DEF vars, TypeOK
<1>. QED
  BY <1>1, <1>2, <1>3, <1>4, <1>5, <1>6, <1>7, <1>8, <1>9, <1>10, <1>11 DEF Next, PageStep

(* TypeOK: the state of tabs and lock manager keeps its shape.             *)
THEOREM TypeCorrect == Spec => []TypeOK
<1>1. Init => TypeOK
  BY EmptySeq DEF Init, TypeOK, Status
<1>. QED BY <1>1, TypeStep, PTL DEF Spec
-----------------------------------------------------------------------------
(* The key.  OneKey is inductive together with the types.                  *)

(* A tab that gets nothing new keeps its part of OneKey, unless the lock   *)
(* it has is given to somebody else.                                       *)
LEMMA KeyKept ==
  ASSUME NEW u \in Tab, Key(u),
         status'[u] = "primary" => u \in hold',
         u \in hold' => u \in hold,
         Granted(u) = {} => Granted(u)' = {}, AtMostOne(Granted(u)'),
         Returned(u) = {} => Returned(u)' = {}, AtMostOne(Returned(u)'),
         lock' = lock \/ lock # u
  PROVE  Key(u)'
  BY DEF Key

(* So does a tab that takes no part in a step.                             *)
LEMMA KeyElsewhere ==
  ASSUME NEW u \in Tab, Key(u), status'[u] = status[u], u \in hold' <=> u \in hold,
         answers'[u] = answers[u], calls'[u] = calls[u],
         lock' = lock \/ lock # u
  PROVE  Key(u)'
<1>1. Granted(u)' = Granted(u) /\ Returned(u)' = Returned(u)
  BY DEF Granted, Returned
<1>. QED BY <1>1, KeyKept DEF Key

(* A request is no return of the lock.                                     *)
LEMMA KeyRequest ==
  ASSUME TypeOK, OneKey, NEW t \in Tab, NEW source \in Source, Request(t, source),
         UNCHANGED <<answers, lock, hold, status>>
  PROVE  OneKey'
<1> SUFFICES ASSUME NEW u \in Tab PROVE Key(u)'
  BY DEF OneKey
<1>1. CASE u # t
  BY <1>1, KeyElsewhere DEF Request, OneKey, TypeOK
<1>2. CASE u = t
  <2>1. calls[t] \in Seq(Calls) /\ source \in Calls /\ source \notin {"release"}
    BY DEF TypeOK, Calls, Source
  <2>2. Returned(t)' = Returned(t) /\ Granted(t)' = Granted(t)
    BY <2>1, AtAppend DEF Request, TypeOK, Returned, Granted
  <2>. QED BY <1>2, <2>2, KeyKept DEF OneKey, Key
<1>. QED BY <1>1, <1>2

(* A tab that gives up the lock it keeps has one return under way.         *)
LEMMA KeyReleased ==
  ASSUME TypeOK, OneKey, NEW t \in Tab, releaseHold(t), status'[t] # "primary",
         \A u \in Tab \ {t} : status'[u] = status[u],
         UNCHANGED <<answers, lock>>
  PROVE  OneKey'
<1> SUFFICES ASSUME NEW u \in Tab PROVE Key(u)'
  BY DEF OneKey
<1>1. CASE u # t
  BY <1>1, KeyElsewhere DEF releaseHold, OneKey, TypeOK
<1>2. CASE u = t /\ t \notin hold
  BY <1>2, KeyKept DEF releaseHold, OneKey, Key, TypeOK, Granted, Returned
<1>3. CASE u = t /\ t \in hold
  <2>1. Granted(t)' = {} /\ Returned(t) = {} /\ lock' = t /\ t \notin hold'
    BY <1>3 DEF releaseHold, OneKey, Key, Granted
  <2>2. calls[t] \in Seq(Calls) /\ "release" \in Calls
    BY DEF TypeOK, Calls
  <2>3. AtMostOne(Returned(t)')
    BY <1>3, <2>1, <2>2, AtAppend DEF releaseHold, Returned, TypeOK
  <2>4. AtMostOne({})
    BY DEF AtMostOne
  <2>5. AtMostOne(Granted(t)')
    BY <2>1, <2>4
  <2>6. Key(t)'
    BY <2>1, <2>3, <2>5 DEF Key
  <2>. QED BY <1>3, <2>6
<1>. QED BY <1>1, <1>2, <1>3

(* Taking the head off its calls or answers gives a tab nothing new.       *)
LEMMA CallTaken ==
  ASSUME TypeOK, OneKey, NEW t \in Tab, calls[t] # <<>>, calls' = [calls EXCEPT ![t] = Tail(@)]
  PROVE  /\ Returned(t) = {} => Returned(t)' = {}
         /\ AtMostOne(Returned(t)')
         /\ Head(calls[t]) = "release" => Returned(t) # {} /\ Returned(t)' = {}
         /\ Head(calls[t]) \in Calls
<1>1. calls[t] \in Seq(Calls) /\ calls'[t] = Tail(calls[t])
  BY DEF TypeOK, Calls
<1>2. AtMostOne(At(calls[t], {"release"}))
  BY DEF OneKey, Key, Returned
<1>. QED BY <1>1, <1>2, AtTail DEF Returned

(* The same for an answer the tab has handled.                             *)
LEMMA AnswerTaken ==
  ASSUME TypeOK, OneKey, NEW t \in Tab, answers[t] # <<>>,
         answers' = [answers EXCEPT ![t] = Tail(@)]
  PROVE  /\ Granted(t) = {} => Granted(t)' = {}
         /\ AtMostOne(Granted(t)')
         /\ Head(answers[t]).granted => Granted(t) # {} /\ Granted(t)' = {}
<1>1. answers[t] \in Seq(Answer) /\ answers'[t] = Tail(answers[t])
  BY DEF TypeOK
<1>2. AtMostOne(Granted(t))
  BY DEF OneKey, Key
<1>3. Head(answers[t]) \in Answer
  BY <1>1, AtTail
<1>4. Head(answers[t]).granted => Head(answers[t]) \in Grant
  BY <1>3 DEF Answer, Grant
<1>. QED BY <1>1, <1>2, <1>4, AtTail DEF Granted

(* One key: the lock manager gives the lock only while no tab has it.      *)
LEMMA KeyServe ==
  ASSUME TypeOK, OneKey, NEW t \in Tab, Serve(t)
  PROVE  OneKey'
<1> SUFFICES ASSUME NEW u \in Tab PROVE Key(u)'
  BY DEF OneKey
<1>0. /\ Returned(t) = {} => Returned(t)' = {}
      /\ AtMostOne(Returned(t)')
      /\ Head(calls[t]) = "release" => Returned(t) # {} /\ Returned(t)' = {}
      /\ Head(calls[t]) \in Calls
  BY CallTaken DEF Serve
<1>1. Key(u) /\ Key(t)
  BY DEF OneKey
<1>2. CASE Head(calls[t]) = "release"
  <2>1. lock = t /\ t \notin hold /\ Granted(t) = {} /\ answers' = answers
    BY <1>0, <1>1, <1>2 DEF Serve, Key
  <2>2. CASE u # t
    BY <1>1, <1>2, <2>1, <2>2, KeyElsewhere DEF Serve, TypeOK
  <2>3. CASE u = t
    BY <1>0, <1>1, <1>2, <2>1, <2>3 DEF Serve, Key, Granted
  <2>. QED BY <2>2, <2>3
<1>3. CASE Head(calls[t]) # "release" /\ lock # NoTab
  <2>1. lock' = lock
    BY <1>3 DEF Serve
  <2>2. CASE u # t
    BY <1>1, <1>3, <2>1, <2>2, KeyElsewhere DEF Serve, TypeOK
  <2>3. CASE u = t
    <3>1. answers[t] \in Seq(Answer) /\ [by |-> Head(calls[t]), granted |-> FALSE] \in Answer
      BY <1>0, <1>3 DEF TypeOK, Answer, Calls
    <3>2. [by |-> Head(calls[t]), granted |-> FALSE] \notin Grant
      BY DEF Grant
    <3>3. answers'[t] = Append(answers[t], [by |-> Head(calls[t]), granted |-> FALSE])
      BY <1>3 DEF Serve, TypeOK
    <3>4. Granted(t)' = Granted(t)
      BY <3>1, <3>2, <3>3, AtAppend DEF Granted
    <3>. QED BY <1>0, <1>1, <2>1, <2>3, <3>4, KeyKept DEF Serve, Key
  <2>. QED BY <2>2, <2>3
<1>4. CASE Head(calls[t]) # "release" /\ lock = NoTab
  <2>1. lock' = t /\ lock # u /\ lock # t
    BY <1>4, NoTabAssumption DEF Serve
  <2>2. CASE u # t
    BY <1>1, <1>4, <2>1, <2>2, KeyElsewhere DEF Serve, TypeOK
  <2>3. CASE u = t
    <3>1. t \notin hold /\ Granted(t) = {} /\ Returned(t) = {} /\ status[t] # "primary"
      BY <1>1, <2>1 DEF Key
    <3>2. answers[t] \in Seq(Answer) /\ [by |-> Head(calls[t]), granted |-> TRUE] \in Answer
      BY <1>0, <1>4 DEF TypeOK, Answer, Calls
    <3>3. answers'[t] = Append(answers[t], [by |-> Head(calls[t]), granted |-> TRUE])
      BY <1>4 DEF Serve, TypeOK
    <3>4. AtMostOne(Granted(t)')
      BY <3>1, <3>2, <3>3, AtAppend DEF Granted
    <3>5. UNCHANGED <<status, hold>>
      BY DEF Serve
    <3>6. Key(t)'
      BY <1>0, <2>1, <3>1, <3>4, <3>5 DEF Key
    <3>. QED BY <2>3, <3>6
  <2>. QED BY <2>2, <2>3
<1>. QED BY <1>2, <1>3, <1>4

(* One key: the callback takes the lock it was given out of its answer.    *)
LEMMA KeyCallback ==
  ASSUME TypeOK, OneKey, NEW t \in Tab, Callback(t)
  PROVE  OneKey'
<1> SUFFICES ASSUME NEW u \in Tab PROVE Key(u)'
  BY DEF OneKey
<1>0. /\ Granted(t) = {} => Granted(t)' = {}
      /\ AtMostOne(Granted(t)')
      /\ Head(answers[t]).granted => Granted(t) # {} /\ Granted(t)' = {}
  BY AnswerTaken DEF Callback
<1>1. Key(u) /\ Key(t)
  BY DEF OneKey
<1>2. CASE u # t
  BY <1>1, <1>2, KeyElsewhere DEF Callback, TypeOK
<1>3. CASE u = t /\ Head(answers[t]).granted
  <2>1. lock = t /\ Returned(t) = {} /\ Granted(t)' = {}
    BY <1>0, <1>1, <1>3 DEF Key
  <2>2. t \in hold' /\ lock' = lock /\ Returned(t)' = Returned(t)
    BY <1>3 DEF Callback, Returned
  <2>3. Key(t)'
    BY <1>0, <1>1, <2>1, <2>2 DEF Key
  <2>. QED BY <1>3, <2>3
<1>4. CASE u = t /\ ~Head(answers[t]).granted
  <2>1. hold' = hold /\ lock' = lock /\ status'[t] = "secondary"
    BY <1>4 DEF Callback, TypeOK
  <2>2. Returned(t)' = Returned(t)
    BY DEF Callback, Returned
  <2>. QED BY <1>0, <1>1, <1>4, <2>1, <2>2, KeyKept DEF Key
<1>. QED BY <1>2, <1>3, <1>4

(* One key: a rejected request takes nothing with it.                      *)
LEMMA KeyFail ==
  ASSUME TypeOK, OneKey, NEW t \in Tab, Fail(t)
  PROVE  OneKey'
<1> SUFFICES ASSUME NEW u \in Tab PROVE Key(u)'
  BY DEF OneKey
<1>1. (Returned(t) = {} => Returned(t)' = {}) /\ AtMostOne(Returned(t)')
  BY CallTaken DEF Fail
<1>2. Granted(u)' = Granted(u) /\ Key(u)
  BY DEF Fail, Granted, OneKey
<1>3. CASE u # t
  BY <1>2, <1>3, KeyElsewhere DEF Fail, TypeOK
<1>4. CASE u = t
  BY <1>1, <1>2, <1>4, KeyKept DEF Fail, Key
<1>. QED BY <1>3, <1>4

(* One key: with its page, all that a tab has or awaits is gone.           *)
LEMMA KeyClose ==
  ASSUME TypeOK, OneKey, NEW t \in Tab, Close(t)
  PROVE  OneKey'
<1> SUFFICES ASSUME NEW u \in Tab PROVE Key(u)'
  BY DEF OneKey
<1>1. CASE u # t
  BY <1>1, KeyElsewhere DEF Close, OneKey, TypeOK
<1>2. CASE u = t
  <2>1. answers'[t] = <<>> /\ calls'[t] = <<>> /\ status'[t] = "none" /\ t \notin hold'
    BY DEF Close, TypeOK
  <2>2. Granted(t)' = {} /\ Returned(t)' = {}
    BY <2>1 DEF Granted, Returned, At
  <2>3. AtMostOne({})
    BY DEF AtMostOne
  <2>4. Key(t)'
    BY <2>1, <2>2, <2>3 DEF Key
  <2>. QED BY <1>2, <2>4
<1>. QED BY <1>1, <1>2

(* Steps that touch neither lock nor tokens.                               *)
LEMMA KeyIdle ==
  ASSUME OneKey, UNCHANGED <<status, hold, answers, calls, lock>>
  PROVE  OneKey'
  BY KeyElsewhere DEF OneKey

(* Every step keeps OneKey.                                                *)
LEMMA KeyStep == TypeOK /\ OneKey /\ [Next]_vars => OneKey'
<1> SUFFICES ASSUME TypeOK, OneKey, [Next]_vars PROVE OneKey'
  OBVIOUS
<1>1. ASSUME NEW t \in Tab, Open(t) PROVE OneKey'
  BY <1>1, KeyRequest DEF Open, Source
<1>2. ASSUME NEW t \in Tab, Retry(t) PROVE OneKey'
  BY <1>2, KeyRequest, KeyIdle DEF Retry, Source
<1>3. ASSUME NEW t \in Tab, takeOver(t) PROVE OneKey'
  BY <1>3, KeyIdle DEF takeOver
<1>4. ASSUME NEW t \in Tab, takeOverAttempt(t) PROVE OneKey'
  BY <1>4, KeyRequest, KeyIdle DEF takeOverAttempt, Source
<1>5. ASSUME NEW t \in Tab, onmessage(t) PROVE OneKey'
  <2>1. ASSUME yieldTo(t) PROVE OneKey'
    BY <1>5, <2>1, KeyReleased DEF onmessage, yieldTo, TypeOK
  <2>2. ASSUME Request(t, "message"), UNCHANGED <<status, hold>> PROVE OneKey'
    BY <1>5, <2>2, KeyRequest DEF onmessage, Source
  <2>3. ASSUME UNCHANGED <<status, hold, calls>> PROVE OneKey'
    BY <1>5, <2>3, KeyIdle DEF onmessage
  <2>. QED BY <1>5, <2>1, <2>2, <2>3 DEF onmessage
<1>6. ASSUME NEW t \in Tab, release(t) PROVE OneKey'
  BY <1>6, KeyReleased DEF release, TypeOK
<1>7. CASE UNCHANGED vars
  BY <1>7, KeyIdle DEF vars
<1>. QED
  BY <1>1, <1>2, <1>3, <1>4, <1>5, <1>6, <1>7, KeyServe, KeyFail, KeyCallback, KeyClose
  DEF Next, PageStep

(* OneKey: a tab that is primary keeps the lock, the lock manager knows it *)
(* as the holder, and no return of the lock is still on its way.           *)
THEOREM OneKeyHolds == Spec => []OneKey
<1>1. Init => OneKey
  <2>1. ASSUME Init, NEW t \in Tab PROVE Granted(t) = {} /\ Returned(t) = {}
    BY <2>1 DEF Init, Granted, Returned, At
  <2>2. AtMostOne({})
    BY DEF AtMostOne
  <2>. QED BY <2>1, <2>2 DEF Init, OneKey, Key
<1>. QED BY <1>1, TypeCorrect, KeyStep, PTL DEF Spec-----------------------------------------------------------------------------
(* The lease implements the promise.                                       *)

(* Any two hosts are the same tab: the holder of the lock.                 *)
LEMMA HostIsHolder ==
  ASSUME OneKey, NEW u \in host
  PROVE  u \in Tab /\ u \in hold /\ lock = u
  BY DEF OneKey, Key, host

(* A tab that is not primary after a step was the host before, or nothing  *)
(* has changed.                                                            *)
LEMMA HostLeaves ==
  ASSUME OneKey, NEW t \in Tab, status'[t] # "primary",
         \A u \in Tab \ {t} : status'[u] = status[u]
  PROVE  Promise!Leave \/ UNCHANGED host
<1>1. CASE t \in host
  <2>1. \A u \in host : u = t
    BY <1>1, HostIsHolder
  <2>2. host' = {}
    BY <2>1 DEF host
  <2>. QED BY <1>1, <2>2 DEF Promise!Leave
<1>2. CASE t \notin host
  BY <1>2 DEF host
<1>. QED BY <1>1, <1>2

(* A tab that is granted the lock finds no host.                           *)
LEMMA HostTakes ==
  ASSUME TypeOK, OneKey, NEW t \in Tab, Callback(t), Head(answers[t]).granted
  PROVE  Promise!Take
<1>1. Granted(t) # {}
  BY AnswerTaken DEF Callback
<1>2. lock = t /\ t \notin hold
  BY <1>1 DEF OneKey, Key
<1>3. host = {}
  BY <1>2, HostIsHolder
<1>4. status' = [status EXCEPT ![t] = "primary"]
  BY DEF Callback
<1>5. host' = {t}
  BY <1>3, <1>4 DEF host, TypeOK
<1>. QED BY <1>3, <1>5 DEF Promise!Take

(* Every step is one of the promise, or changes nothing for it.            *)
LEMMA PromiseStep ==
  TypeOK /\ OneKey /\ [Next]_vars => [Promise!Take \/ Promise!Leave]_host
<1> SUFFICES ASSUME TypeOK, OneKey, [Next]_vars
             PROVE  Promise!Take \/ Promise!Leave \/ UNCHANGED host
  OBVIOUS
<1>1. ASSUME UNCHANGED status PROVE UNCHANGED host
  BY <1>1 DEF host
<1>2. ASSUME NEW t \in Tab, Callback(t)
      PROVE  Promise!Take \/ Promise!Leave \/ UNCHANGED host
  <2>1. CASE Head(answers[t]).granted
    BY <1>2, <2>1, HostTakes
  <2>2. CASE ~Head(answers[t]).granted
    <3>1. status' = [status EXCEPT ![t] = "secondary"]
      BY <1>2, <2>2 DEF Callback
    <3>. QED BY <3>1, HostLeaves DEF TypeOK
  <2>. QED BY <2>1, <2>2
<1>3. ASSUME NEW t \in Tab, onmessage(t)
      PROVE  Promise!Leave \/ UNCHANGED host
  <2>1. CASE yieldTo(t)
    BY <2>1, HostLeaves DEF yieldTo, TypeOK
  <2>2. CASE UNCHANGED status
    BY <1>1, <2>2
  <2>. QED BY <1>3, <2>1, <2>2 DEF onmessage
<1>4. ASSUME NEW t \in Tab, release(t) \/ Close(t)
      PROVE  Promise!Leave \/ UNCHANGED host
  <2>1. status' = [status EXCEPT ![t] = "none"]
    BY <1>4 DEF release, Close
  <2>. QED BY <2>1, HostLeaves DEF TypeOK
<1>5. ASSUME NEW t \in Tab,
             Open(t) \/ Retry(t) \/ takeOver(t) \/ takeOverAttempt(t) \/ Serve(t) \/ Fail(t)
      PROVE  UNCHANGED host
  BY <1>1, <1>5 DEF Open, Retry, takeOver, takeOverAttempt, Serve, Fail
<1>6. CASE UNCHANGED vars
  BY <1>1, <1>6 DEF vars
<1>. QED BY <1>2, <1>3, <1>4, <1>5, <1>6 DEF Next, PageStep

(* With Web Locks, of all tabs at most one is primary, and a tab           *)
(* becomes primary only when none is: LockLease implements SingleHost.     *)
THEOREM LockLeaseRefines == Spec => OneHost
<1>1. Init => Promise!Init
  BY DEF Init, Promise!Init, host
<1>. QED BY <1>1, TypeCorrect, OneKeyHolds, PromiseStep, PTL DEF Spec, OneHost, Promise!Spec

-----------------------------------------------------------------------------
(* The lease of a browser, which uses one mechanism and leaves the other.  *)

(* A step of the lease is a step of one mechanism, and nothing in the other. *)
LEMMA Steps ==
  [LeaseNext]_leaseVars => [Next]_vars /\ [Record!Next]_recordVars
  BY DEF LeaseNext, Locks, Records, leaseVars, lockVars, recordVars

(* OneHost: whichever mechanism a browser has, its tabs implement          *)
(* SingleHost by their locks: with the stored record no tab holds one.     *)
THEOREM LeaseRefines == LeaseSpec => OneHost
<1>1. LeaseInit => Init
  BY DEF LeaseInit
<1>. QED BY <1>1, Steps, LockLeaseRefines, PTL DEF LeaseSpec, Spec

-----------------------------------------------------------------------------
(* The record: the type invariant.                                         *)

Sources == Record!Source
RecordType == [holder : Tab \cup {NoTab}, age : 0 .. Stale + 1]
FaultsUsed ==
  [takeOvers : 0 .. MaxTakeOvers, freezes : 0 .. MaxFreezes, failures : 0 .. MaxRefusals, marks : Nat]

(* A retry timer that is set anew is set to its period.                    *)
LEMMA RetryTimer ==
  ASSUME NEW t \in Tab, NEW timers \in [Tab -> Record!Timer(RetryEvery)]
  PROVE  /\ Record!startRetry(t, timers) \in [Tab -> Record!Timer(RetryEvery)]
         /\ [timers EXCEPT ![t] = RetryEvery] \in [Tab -> Record!Timer(RetryEvery)]
         /\ [timers EXCEPT ![t] = Record!Off] \in [Tab -> Record!Timer(RetryEvery)]
  BY TimeAssumption DEF Record!startRetry, Record!Timer, Record!Off

(* An attempt that reads the record leaves status, claim and timer typed.  *)
LEMMA ReadType ==
  ASSUME Record!TypeOK, NEW t \in Tab, NEW x \in Sources,
         NEW timers \in [Tab -> Record!Timer(RetryEvery)], Record!Read(t, x, timers)
  PROVE  /\ rStatus' \in [Tab -> Record!Status]
         /\ claim' \in [Tab -> Sources \cup {"beat", "no"}]
         /\ rRetry' \in [Tab -> Record!Timer(RetryEvery)]
<1>1. {"secondary"} \subseteq Record!Status
  BY DEF Record!Status
<1>2. rStatus' \in [Tab -> Record!Status]
  BY <1>1 DEF Record!TypeOK, Record!Read
<1>3. claim' \in [Tab -> Sources \cup {"beat", "no"}]
  BY DEF Record!TypeOK, Record!Read, Sources
<1>4. rRetry' \in [Tab -> Record!Timer(RetryEvery)]
  BY RetryTimer DEF Record!Read
<1>. QED BY <1>2, <1>3, <1>4

(* The timers and counters fit: the constants are numbers.                 *)
LEMMA RecordConstants ==
  /\ RetryEvery \in Nat \ {0} /\ BeatEvery \in Nat \ {0} /\ Stale \in Nat \ {0}
  /\ MaxRecordTries \in Nat /\ MaxFreezes \in Nat /\ MaxRefusals \in Nat /\ MaxTakeOvers \in Nat
  BY TimeAssumption, RecordBoundAssumption, BoundAssumption

(* A tab that changes its status takes one of the three.                   *)
LEMMA StatusType ==
  ASSUME NEW t \in Tab, rStatus \in [Tab -> Record!Status]
  PROVE  /\ [rStatus EXCEPT ![t] = "none"] \in [Tab -> Record!Status]
         /\ [rStatus EXCEPT ![t] = "primary"] \in [Tab -> Record!Status]
         /\ [rStatus EXCEPT ![t] = "secondary"] \in [Tab -> Record!Status]
  BY DEF Record!Status

(* The heartbeat timer is set to its period or switched off.               *)
LEMMA BeatTimer ==
  ASSUME NEW t \in Tab, beat \in [Tab -> Record!Timer(BeatEvery)]
  PROVE  /\ [beat EXCEPT ![t] = BeatEvery] \in [Tab -> Record!Timer(BeatEvery)]
         /\ [beat EXCEPT ![t] = Record!Off] \in [Tab -> Record!Timer(BeatEvery)]
         /\ [beat EXCEPT ![t] = IF @ = Record!Off THEN BeatEvery ELSE @] \in [Tab -> Record!Timer(BeatEvery)]
  BY RecordConstants DEF Record!Timer, Record!Off

(* The sleep of an attempt is set, switched off, or all of them are.       *)
LEMMA SleepTimer ==
  ASSUME NEW t \in Tab, NEW x \in Sources, verify \in [Tab -> [Sources -> Record!Timer(Record!Sleep)]]
  PROVE  /\ [verify EXCEPT ![t][x] = Record!Sleep] \in [Tab -> [Sources -> Record!Timer(Record!Sleep)]]
         /\ [verify EXCEPT ![t][x] = Record!Off] \in [Tab -> [Sources -> Record!Timer(Record!Sleep)]]
         /\ [verify EXCEPT ![t] = Record!NoAttempt] \in [Tab -> [Sources -> Record!Timer(Record!Sleep)]]
<1>1. Record!Sleep \in Record!Timer(Record!Sleep) /\ Record!Off \in Record!Timer(Record!Sleep)
  BY DEF Record!Timer, Record!Off, Record!Sleep
<1>2. Record!NoAttempt \in [Sources -> Record!Timer(Record!Sleep)]
  BY <1>1 DEF Record!NoAttempt, Sources
<1>. QED BY <1>1, <1>2

(* The counters go up to their bounds.                                     *)
LEMMA UsedCounts ==
  ASSUME rUsed \in FaultsUsed
  PROVE  /\ rUsed.takeOvers < MaxTakeOvers => [rUsed EXCEPT !.takeOvers = @ + 1] \in FaultsUsed
         /\ rUsed.freezes < MaxFreezes => [rUsed EXCEPT !.freezes = @ + 1] \in FaultsUsed
         /\ rUsed.failures < MaxRefusals => [rUsed EXCEPT !.failures = @ + 1] \in FaultsUsed
         /\ [rUsed EXCEPT !.marks = @ + 1] \in FaultsUsed
<1>1. /\ rUsed.takeOvers \in 0 .. MaxTakeOvers /\ rUsed.freezes \in 0 .. MaxFreezes
      /\ rUsed.failures \in 0 .. MaxRefusals /\ rUsed.marks \in Nat
  BY DEF FaultsUsed
<1>2. rUsed.takeOvers < MaxTakeOvers => rUsed.takeOvers + 1 \in 0 .. MaxTakeOvers
  BY <1>1, RecordConstants
<1>3. rUsed.freezes < MaxFreezes => rUsed.freezes + 1 \in 0 .. MaxFreezes
  BY <1>1, RecordConstants
<1>4. rUsed.failures < MaxRefusals => rUsed.failures + 1 \in 0 .. MaxRefusals
  BY <1>1, RecordConstants
<1>5. rUsed.marks + 1 \in Nat
  BY <1>1
<1>. QED BY <1>2, <1>3, <1>4, <1>5 DEF FaultsUsed

(* Opening a page, a retry and an attempt of a take-over keep the types.   *)
LEMMA AttemptType ==
  ASSUME Record!TypeOK, NEW t \in Tab,
         Record!Open(t) \/ Record!Retry(t) \/ Record!takeOverAttempt(t)
  PROVE  Record!TypeOK'
<1>0. /\ "timer" \in Sources /\ "takeOver" \in Sources
      /\ rRetry \in [Tab -> Record!Timer(RetryEvery)] /\ rTries \in [Tab -> 0 .. MaxRecordTries]
      /\ [rRetry EXCEPT ![t] = RetryEvery] \in [Tab -> Record!Timer(RetryEvery)]
      /\ [rRetry EXCEPT ![t] = Record!Off] \in [Tab -> Record!Timer(RetryEvery)]
  BY RetryTimer DEF Sources, Record!Source, Record!TypeOK
<1>1. /\ rStatus' \in [Tab -> Record!Status]
      /\ claim' \in [Tab -> Sources \cup {"beat", "no"}]
      /\ rRetry' \in [Tab -> Record!Timer(RetryEvery)]
  <2>1. CASE Record!Open(t)
    BY <1>0, <2>1, ReadType DEF Record!Open
  <2>2. CASE Record!Retry(t)
    <3>1. CASE Record!mayAcquire(t)
      BY <1>0, <2>2, <3>1, ReadType DEF Record!Retry
    <3>2. CASE ~Record!mayAcquire(t)
      BY <1>0, <2>2, <3>2 DEF Record!Retry, Record!TypeOK, Sources
    <3>. QED BY <3>1, <3>2
  <2>3. CASE Record!takeOverAttempt(t)
    <3>1. CASE Record!mayAcquire(t)
      BY <1>0, <2>3, <3>1, ReadType DEF Record!takeOverAttempt
    <3>2. CASE ~Record!mayAcquire(t)
      BY <1>0, <2>3, <3>2 DEF Record!takeOverAttempt, Record!TypeOK, Sources
    <3>. QED BY <3>1, <3>2
  <2>. QED BY <2>1, <2>2, <2>3
<1>2. rTries' \in [Tab -> 0 .. MaxRecordTries]
  <2>1. CASE Record!takeOverAttempt(t)
    <3>1. PICK n \in 0 .. MaxRecordTries : rTries' = [rTries EXCEPT ![t] = n]
      BY <1>0, <2>1, RecordConstants DEF Record!takeOverAttempt
    <3>. QED BY <1>0, <3>1
  <2>. QED BY <1>0, <2>1 DEF Record!Open, Record!Retry
<1>3. /\ rOpen' \subseteq Tab /\ rOpen \subseteq rOpen'
      /\ UNCHANGED <<rStopped, frozen, record, verify, beat, rUsed>>
  BY DEF Record!Open, Record!Retry, Record!takeOverAttempt, Record!TypeOK, Record!pages
<1>. QED BY <1>1, <1>2, <1>3 DEF Record!TypeOK, Sources

(* A write of the record keeps the types.                                  *)
LEMMA WriteType ==
  ASSUME Record!TypeOK, NEW t \in Tab, Record!writeRecord(t)
  PROVE  Record!TypeOK'
<1>1. claim' \in [Tab -> Sources \cup {"beat", "no"}]
  BY DEF Record!TypeOK, Record!writeRecord, Sources
<1>2. record' \in RecordType
  BY RecordConstants DEF Record!TypeOK, Record!writeRecord, RecordType
<1>3. verify' \in [Tab -> [Sources -> Record!Timer(Record!Sleep)]]
  <2>1. CASE UNCHANGED verify
    BY <2>1 DEF Record!TypeOK, Sources
  <2>2. CASE claim[t] \in Sources /\ verify' = [verify EXCEPT ![t][claim[t]] = Record!Sleep]
    BY <2>2, SleepTimer DEF Record!TypeOK, Sources
  <2>. QED BY <2>1, <2>2 DEF Record!writeRecord, Sources
<1>4. rRetry' \in [Tab -> Record!Timer(RetryEvery)]
  BY RetryTimer DEF Record!writeRecord, Record!TypeOK
<1>5. rUsed' \in FaultsUsed
  <2>1. rUsed \in FaultsUsed
    BY DEF Record!TypeOK, FaultsUsed
  <2>. QED BY <2>1, UsedCounts DEF Record!writeRecord
<1>6. UNCHANGED <<rOpen, rStopped, frozen, rStatus, beat, rTries>>
  BY DEF Record!writeRecord, Record!pages
<1>. QED BY <1>1, <1>2, <1>3, <1>4, <1>5, <1>6 DEF Record!TypeOK, Sources, RecordType, FaultsUsed

(* A heartbeat keeps the types.                                            *)
LEMMA BeatType ==
  ASSUME Record!TypeOK, NEW t \in Tab, Record!Beat(t)
  PROVE  Record!TypeOK'
<1>1. claim' \in [Tab -> Sources \cup {"beat", "no"}]
  BY DEF Record!TypeOK, Record!Beat, Sources
<1>2. rStatus' \in [Tab -> Record!Status]
  BY StatusType DEF Record!TypeOK, Record!Beat
<1>3. rRetry' \in [Tab -> Record!Timer(RetryEvery)]
  BY RetryTimer DEF Record!TypeOK, Record!Beat
<1>4. beat' \in [Tab -> Record!Timer(BeatEvery)]
  BY BeatTimer DEF Record!TypeOK, Record!Beat
<1>5. UNCHANGED <<rOpen, rStopped, frozen, record, verify, rTries, rUsed>>
  BY DEF Record!Beat, Record!pages
<1>. QED BY <1>1, <1>2, <1>3, <1>4, <1>5 DEF Record!TypeOK, Sources

(* What the second look of an attempt may end in.                          *)
LEMMA LookEnds ==
  ASSUME NEW t \in Tab, NEW x \in Sources, Record!Verify(t, x)
  PROVE  \/ UNCHANGED <<rStatus, rRetry, beat>>
         \/ /\ rStatus' = [rStatus EXCEPT ![t] = "secondary"]
            /\ rRetry' = Record!startRetry(t, rRetry)
            /\ UNCHANGED beat
         \/ /\ t \notin rStopped /\ ~Record!heldByOther(t)
            /\ rStatus' = [rStatus EXCEPT ![t] = "primary"]
            /\ rRetry' = [rRetry EXCEPT ![t] = Record!Off]
            /\ beat' = [beat EXCEPT ![t] = IF @ = Record!Off THEN BeatEvery ELSE @]
<1>1. CASE t \in rStopped
  BY <1>1 DEF Record!Verify
<1>2. CASE t \notin rStopped /\ Record!heldByOther(t)
  BY <1>2 DEF Record!Verify
<1>3. CASE t \notin rStopped /\ ~Record!heldByOther(t)
  BY <1>3 DEF Record!Verify
<1>. QED BY <1>1, <1>2, <1>3

(* The second look of an attempt keeps the types.                          *)
LEMMA LookType ==
  ASSUME Record!TypeOK, NEW t \in Tab, NEW x \in Sources, Record!Verify(t, x)
  PROVE  Record!TypeOK'
<1>1. verify' \in [Tab -> [Sources -> Record!Timer(Record!Sleep)]]
  BY SleepTimer DEF Record!TypeOK, Record!Verify, Sources
<1>2. rStatus' \in [Tab -> Record!Status]
  BY StatusType, LookEnds DEF Record!TypeOK
<1>3. rRetry' \in [Tab -> Record!Timer(RetryEvery)]
  <2>1. rRetry \in [Tab -> Record!Timer(RetryEvery)]
    BY DEF Record!TypeOK
  <2>2. /\ Record!startRetry(t, rRetry) \in [Tab -> Record!Timer(RetryEvery)]
        /\ [rRetry EXCEPT ![t] = Record!Off] \in [Tab -> Record!Timer(RetryEvery)]
    BY <2>1, RetryTimer
  <2>. QED BY <2>1, <2>2, LookEnds
<1>4. beat' \in [Tab -> Record!Timer(BeatEvery)]
  <2>1. beat \in [Tab -> Record!Timer(BeatEvery)]
    BY DEF Record!TypeOK
  <2>2. [beat EXCEPT ![t] = IF @ = Record!Off THEN BeatEvery ELSE @] \in [Tab -> Record!Timer(BeatEvery)]
    BY <2>1, BeatTimer
  <2>. QED BY <2>1, <2>2, LookEnds
<1>5. UNCHANGED <<rOpen, rStopped, frozen, record, claim, rTries, rUsed>>
  BY DEF Record!Verify, Record!pages
<1>. QED BY <1>1, <1>2, <1>3, <1>4, <1>5 DEF Record!TypeOK, Sources

(* What happens to a page keeps the types.                                 *)
LEMMA PageType ==
  ASSUME Record!TypeOK, NEW t \in Tab,
         \/ Record!takeOver(t) \/ Record!release(t) \/ Record!Close(t)
         \/ Record!Freeze(t) \/ Record!Thaw(t)
  PROVE  Record!TypeOK'
<1>1. /\ rStatus' \in [Tab -> Record!Status]
      /\ rRetry' \in [Tab -> Record!Timer(RetryEvery)]
      /\ beat' \in [Tab -> Record!Timer(BeatEvery)]
  <2>1. /\ UNCHANGED rStatus \/ rStatus' = [rStatus EXCEPT ![t] = "none"]
        /\ UNCHANGED rRetry \/ rRetry' = [rRetry EXCEPT ![t] = Record!Off]
        /\ UNCHANGED beat \/ beat' = [beat EXCEPT ![t] = Record!Off]
    BY DEF Record!takeOver, Record!release, Record!Close, Record!Freeze, Record!Thaw
  <2>2. /\ rStatus \in [Tab -> Record!Status]
        /\ rRetry \in [Tab -> Record!Timer(RetryEvery)]
        /\ beat \in [Tab -> Record!Timer(BeatEvery)]
    BY DEF Record!TypeOK
  <2>3. [rStatus EXCEPT ![t] = "none"] \in [Tab -> Record!Status]
    BY <2>2, StatusType
  <2>4. [rRetry EXCEPT ![t] = Record!Off] \in [Tab -> Record!Timer(RetryEvery)]
    BY <2>2, RetryTimer
  <2>5. [beat EXCEPT ![t] = Record!Off] \in [Tab -> Record!Timer(BeatEvery)]
    BY <2>2, BeatTimer
  <2>. QED BY <2>1, <2>2, <2>3, <2>4, <2>5
<1>2. claim' \in [Tab -> Sources \cup {"beat", "no"}]
  BY DEF Record!TypeOK, Sources, Record!takeOver, Record!release, Record!Close, Record!Freeze, Record!Thaw
<1>3. verify' \in [Tab -> [Sources -> Record!Timer(Record!Sleep)]]
  <2>1. CASE UNCHANGED verify
    BY <2>1 DEF Record!TypeOK, Sources
  <2>2. CASE verify' = [verify EXCEPT ![t] = Record!NoAttempt]
    BY <2>2, SleepTimer DEF Record!TypeOK, Sources, Record!Source
  <2>. QED BY <2>1, <2>2 DEF Record!takeOver, Record!release, Record!Close, Record!Freeze, Record!Thaw
<1>4. rTries' \in [Tab -> 0 .. MaxRecordTries]
  BY RecordConstants
     DEF Record!TypeOK, Record!takeOver, Record!release, Record!Close, Record!Freeze, Record!Thaw
<1>5. record' \in RecordType
  BY RecordConstants DEF Record!TypeOK, RecordType,
     Record!takeOver, Record!release, Record!Close, Record!Freeze, Record!Thaw
<1>6. rUsed' \in FaultsUsed
  <2>1. rUsed \in FaultsUsed
    BY DEF Record!TypeOK, FaultsUsed
  <2>. QED BY <2>1, UsedCounts
           DEF Record!takeOver, Record!release, Record!Close, Record!Freeze, Record!Thaw
<1>7. rOpen' \subseteq Tab /\ rStopped' \subseteq Tab /\ frozen' \subseteq rOpen'
  BY DEF Record!TypeOK, Record!pages, Record!runs,
     Record!takeOver, Record!release, Record!Close, Record!Freeze, Record!Thaw
<1>. QED BY <1>1, <1>2, <1>3, <1>4, <1>5, <1>6, <1>7 DEF Record!TypeOK, Sources, RecordType, FaultsUsed

(* A tick keeps the types.                                                 *)
LEMMA TickType ==
  ASSUME Record!TypeOK, Record!Tick
  PROVE  Record!TypeOK'
<1>1. ASSUME NEW n \in Nat, NEW d \in Record!Timer(n) PROVE Record!step(d) \in Record!Timer(n)
  BY DEF Record!step, Record!Timer, Record!Off
<1>2. rRetry' \in [Tab -> Record!Timer(RetryEvery)] /\ beat' \in [Tab -> Record!Timer(BeatEvery)]
  BY <1>1, RecordConstants DEF Record!Tick, Record!TypeOK
<1>3. verify' \in [Tab -> [Sources -> Record!Timer(Record!Sleep)]]
  <2>1. ASSUME NEW u \in Tab, NEW x \in Sources
        PROVE  Record!step(verify[u][x]) \in Record!Timer(Record!Sleep)
    <3>1. verify[u][x] \in Record!Timer(Record!Sleep) /\ Record!Sleep \in Nat
      BY DEF Record!TypeOK, Sources, Record!Sleep
    <3>. QED BY <1>1, <3>1
  <2>. QED BY <2>1 DEF Record!Tick, Sources
<1>4. record' \in RecordType
  BY RecordConstants DEF Record!Tick, Record!TypeOK, RecordType
<1>5. UNCHANGED <<rOpen, rStopped, frozen, rStatus, claim, rTries, rUsed>>
  BY DEF Record!Tick, Record!pages
<1>. QED BY <1>2, <1>3, <1>4, <1>5 DEF Record!TypeOK, Sources, RecordType

LEMMA RecordTypeStep == Record!TypeOK /\ [Record!Next]_recordVars => Record!TypeOK'
<1> SUFFICES ASSUME Record!TypeOK, [Record!Next]_recordVars PROVE Record!TypeOK'
  OBVIOUS
<1>1. CASE UNCHANGED recordVars
  BY <1>1 DEF recordVars, Record!TypeOK
<1>2. CASE Record!Next
  BY <1>2, AttemptType, WriteType, BeatType, LookType, PageType, TickType
     DEF Record!Next, Record!PageStep, Sources
<1>. QED BY <1>1, <1>2

(* RecordTypeOK: the stored record, the timers and the pages keep their    *)
(* shape in every browser.                                                 *)
THEOREM RecordTypeCorrect == LeaseSpec => []RecordTypeOK
<1>1. LeaseInit => Record!TypeOK
  <2> SUFFICES ASSUME Record!Init PROVE Record!TypeOK
    BY DEF LeaseInit
  <2>1. /\ Record!NoAttempt \in [Sources -> Record!Timer(Record!Sleep)]
        /\ Record!Off \in Record!Timer(RetryEvery) /\ Record!Off \in Record!Timer(BeatEvery)
    BY RecordConstants DEF Record!NoAttempt, Sources, Record!Timer, Record!Off, Record!Sleep
  <2>2. "none" \in Record!Status
    BY DEF Record!Status
  <2>. QED BY <2>1, <2>2, RecordConstants DEF Record!Init, Record!TypeOK, Sources
<1>. QED BY <1>1, RecordTypeStep, Steps, PTL DEF LeaseSpec, RecordTypeOK

-----------------------------------------------------------------------------
(* The record: one host.  While no page is frozen, no release mark is left *)
(* and the storage refuses few writes, a host is the holder of the record, *)
(* and the record is fresh enough for every other page to see it: a host   *)
(* writes it every BeatEvery ticks, and each refused write adds as many.   *)

(* The case in which the record is to keep the pages apart.                *)
Calm == rUsed.freezes = 0 /\ rUsed.marks = 0 /\ rUsed.failures <= Record!Forgiven

(* The age the record of a host can reach with the writes refused so far.  *)
Allowed == Record!Sleep + (rUsed.failures + 1) * BeatEvery

(* No other page is about to write its own claim.                          *)
Quiet(t) == ~\E u \in Tab \ {t} : claim[u] \in Sources

(* A page that is closed does nothing.                                     *)
Gone(t) ==
  t \notin rOpen => claim[t] = "no" /\ rStatus[t] # "primary" /\ \A x \in Sources : verify[t][x] = Record!Off

(* A host has the record, nobody is about to write another, and its next   *)
(* heartbeat is due before the record gets too old.                        *)
Hosts(t) ==
  rStatus[t] = "primary" =>
    /\ t \in rOpen \ rStopped /\ record.holder = t /\ Quiet(t)
    /\ beat[t] \in 0 .. BeatEvery
    /\ claim[t] = "beat" => beat[t] = BeatEvery /\ record.age <= Allowed
    /\ claim[t] # "beat" => record.age + beat[t] <= Allowed

(* Only a host writes heartbeats.                                          *)
Beats(t) == claim[t] = "beat" => rStatus[t] = "primary"

(* While an attempt sleeps the record is someone's and young.  An attempt  *)
(* that wakes up and finds its own record is alone, also when another      *)
(* attempt of its page is about to write.                                  *)
Sleeps(t, x) ==
  verify[t][x] # Record!Off =>
    /\ record.holder # NoTab /\ record.age + verify[t][x] <= Record!Sleep
    /\ verify[t][x] = 0 /\ record.holder = t => Quiet(t)
    /\ verify[t][x] = 0 /\ claim[t] \in Sources => record.holder = t

Fine(t) == Gone(t) /\ Hosts(t) /\ Beats(t) /\ \A x \in Sources : Sleeps(t, x)
HoldersInv == Calm => frozen = {} /\ \A t \in Tab : Fine(t)

(* What the proofs use of the type invariant.                              *)
Shape ==
  /\ rStatus \in [Tab -> Record!Status] /\ claim \in [Tab -> Sources \cup {"beat", "no"}]
  /\ verify \in [Tab -> [Sources -> {-1, 0, 1}]] /\ beat \in [Tab -> Int]
  /\ \A t \in Tab : beat[t] = -1 \/ beat[t] \in 0 .. BeatEvery
  /\ record \in RecordType /\ record.holder \in Tab \cup {NoTab} /\ record.age \in Nat
  /\ rUsed \in FaultsUsed /\ rUsed.failures \in Nat /\ rUsed.marks \in Nat /\ rUsed.freezes \in Nat
  /\ "no" \notin Sources /\ "beat" \notin Sources
  /\ BeatEvery \in Nat \ {0} /\ Stale \in Nat \ {0} /\ Record!Sleep = 1 /\ Record!Off = -1

LEMMA Shapes == Record!TypeOK => Shape
<1> SUFFICES ASSUME Record!TypeOK PROVE Shape
  OBVIOUS
<1>1. /\ rStatus \in [Tab -> Record!Status] /\ claim \in [Tab -> Sources \cup {"beat", "no"}]
      /\ record \in RecordType /\ rUsed \in FaultsUsed
      /\ verify \in [Tab -> [Sources -> Record!Timer(Record!Sleep)]]
      /\ beat \in [Tab -> Record!Timer(BeatEvery)]
  BY DEF Record!TypeOK, Sources, RecordType, FaultsUsed
<1>2. Record!Sleep = 1 /\ Record!Off = -1
  BY DEF Record!Sleep, Record!Off
<1>3. Record!Timer(Record!Sleep) = {-1, 0, 1}
  BY <1>2 DEF Record!Timer
<1>4. \A d \in Record!Timer(BeatEvery) : d \in Int /\ (d = -1 \/ d \in 0 .. BeatEvery)
  BY <1>2, RecordConstants DEF Record!Timer
<1>5. beat \in [Tab -> Int] /\ \A t \in Tab : beat[t] = -1 \/ beat[t] \in 0 .. BeatEvery
  BY <1>1, <1>4
<1>6. record.holder \in Tab \cup {NoTab} /\ record.age \in Nat
  BY <1>1, RecordConstants DEF RecordType
<1>7. rUsed.failures \in Nat /\ rUsed.marks \in Nat /\ rUsed.freezes \in Nat
  BY <1>1, RecordConstants DEF FaultsUsed
<1>8. "no" \notin Sources /\ "beat" \notin Sources
  BY DEF Sources, Record!Source
<1>. QED BY <1>1, <1>2, <1>3, <1>5, <1>6, <1>7, <1>8, RecordConstants DEF Shape

(* A record is forgotten later than that, in the calm case.                *)
LEMMA Fresh ==
  ASSUME Shape
  PROVE  /\ Allowed \in Nat /\ 1 + BeatEvery <= Allowed
         /\ Calm => Allowed <= Stale
<1> DEFINE f == rUsed.failures
           q == (Stale - 1) \div BeatEvery
<1>1. f \in Nat /\ BeatEvery \in Nat /\ BeatEvery > 0 /\ Stale \in Nat /\ Stale - 1 \in Nat /\ Record!Sleep = 1
  BY DEF Shape
<1>2. (f + 1) * BeatEvery \in Nat /\ BeatEvery <= (f + 1) * BeatEvery
  <2>1. f * BeatEvery \in Nat
    BY <1>1
  <2>2. (f + 1) * BeatEvery = f * BeatEvery + BeatEvery
    BY <1>1
  <2>. QED BY <1>1, <2>1, <2>2
<1>3. Calm => f + 1 <= q
  BY <1>1 DEF Calm, Record!Forgiven
<1>4. q \in Nat /\ q * BeatEvery <= Stale - 1
  BY <1>1
<1>5. f + 1 <= q => (f + 1) * BeatEvery <= q * BeatEvery
  BY <1>1, <1>4
<1>6. Allowed = 1 + (f + 1) * BeatEvery
  BY <1>1 DEF Allowed
<1> HIDE DEF q
<1>7. Allowed \in Nat /\ 1 + BeatEvery <= Allowed
  BY <1>1, <1>2, <1>6
<1>8. Calm => Allowed <= Stale
  <2> DEFINE p == (f + 1) * BeatEvery
             r == q * BeatEvery
  <2>1. q \in Nat
    BY <1>4
  <2>2. p \in Nat /\ r \in Nat
    BY <1>1, <1>2, <2>1
  <2>3. Calm => p <= r
    BY <1>3, <1>5
  <2>4. r <= Stale - 1 /\ Allowed = 1 + p
    BY <1>4, <1>6
  <2> HIDE DEF p, r
  <2>. QED BY <1>1, <2>2, <2>3, <2>4
<1>. QED BY <1>7, <1>8

(* A page that is not asked to write and does not change cannot be hurt by *)
(* a step that leaves the record, the claims and the timers alone, or lets *)
(* other pages give up.                                                    *)
LEMMA FineKept ==
  ASSUME Shape, NEW u \in Tab, Fine(u),
         u \in rOpen' <=> u \in rOpen, u \in rStopped' <=> u \in rStopped,
         rStatus'[u] = rStatus[u], claim'[u] = claim[u], verify'[u] = verify[u], beat'[u] = beat[u],
         UNCHANGED record, Allowed' \in Nat, Allowed <= Allowed',
         \A v \in Tab : claim'[v] \in Sources => claim[v] \in Sources
  PROVE  Fine(u)'
<1>1. Gone(u)' /\ Beats(u)'
  BY DEF Fine, Gone, Beats
<1>2. Quiet(u) => Quiet(u)'
  BY DEF Quiet
<1>3. Hosts(u)'
  BY <1>2, Fresh DEF Fine, Hosts, Shape
<1>4. ASSUME NEW x \in Sources PROVE Sleeps(u, x)'
  BY <1>2 DEF Fine, Sleeps
<1>. QED BY <1>1, <1>3, <1>4 DEF Fine

(* A page that other pages cannot see as a host: its record, if any, is    *)
(* young, so that none of them reads past it.                              *)
LEMMA SeenByOthers ==
  ASSUME Shape, Calm, NEW t \in Tab, NEW u \in Tab, u # t, Fine(u), record.holder = u,
         \/ rStatus[u] = "primary"
         \/ \E x \in Sources : verify[u][x] = 0
  PROVE  Record!heldByOther(t)
<1>1. record.age <= Stale
  <2>1. CASE rStatus[u] = "primary"
    BY <2>1, Fresh DEF Fine, Hosts, Shape
  <2>2. ASSUME NEW x \in Sources, verify[u][x] = 0 PROVE record.age <= Stale
    BY <2>2 DEF Fine, Sleeps, Shape
  <2>. QED BY <2>1, <2>2
<1>2. u # NoTab
  BY NoTabAssumption
<1>. QED BY <1>1, <1>2 DEF Record!heldByOther

(* An attempt of a page that does not host, when it reads the record.      *)
LEMMA ReadFine ==
  ASSUME Shape, Calm, \A u \in Tab : Fine(u),
         NEW t \in Tab, NEW x \in Sources, NEW timers, Record!Read(t, x, timers),
         rStatus[t] # "primary", claim[t] = "no", rOpen' = rOpen \cup {t},
         UNCHANGED <<rStopped, record, verify, beat, rUsed>>
  PROVE  \A u \in Tab : Fine(u)'
<1> SUFFICES ASSUME NEW u \in Tab PROVE Fine(u)'
  OBVIOUS
<1>0. Fine(u) /\ Fine(t) /\ Allowed' = Allowed /\ Allowed \in Nat
  BY Fresh DEF Allowed
<1>1. CASE Record!heldByOther(t)
  <2>1. rStatus' = [rStatus EXCEPT ![t] = "secondary"] /\ claim' = claim
    BY <1>1 DEF Record!Read
  <2>2. CASE u # t
    BY <1>0, <2>1, <2>2, FineKept DEF Shape
  <2>3. CASE u = t
    <3>1. rStatus'[t] = "secondary"
      BY <2>1 DEF Shape
    <3>2. Gone(t)' /\ Hosts(t)' /\ Beats(t)'
      BY <1>0, <2>1, <3>1 DEF Gone, Hosts, Beats
    <3>3. ASSUME NEW y \in Sources PROVE Sleeps(t, y)'
      BY <1>0, <2>1 DEF Fine, Sleeps, Quiet
    <3>. QED BY <2>3, <3>2, <3>3 DEF Fine
  <2>. QED BY <2>2, <2>3
<1>2. CASE ~Record!heldByOther(t)
  <2>1. rStatus' = rStatus /\ claim' = [claim EXCEPT ![t] = x]
    BY <1>2 DEF Record!Read
  <2>2. rStatus[u] # "primary"
    BY <1>0, <1>2, SeenByOthers DEF Fine, Hosts
  <2>3. Hosts(u)'
    BY <2>1, <2>2 DEF Hosts
  <2>4. Gone(u)' /\ Beats(u)'
    BY <1>0, <2>1, <2>2 DEF Fine, Gone, Beats, Shape
  <2>5. ASSUME NEW y \in Sources PROVE Sleeps(u, y)'
    <3>1. CASE u = t
      <4>1. Quiet(t) => Quiet(t)'
        BY <2>1 DEF Quiet, Shape
      <4>2. ASSUME verify[t][y] = 0 PROVE record.holder = t
        <5>1. record.holder # NoTab /\ record.age <= Stale
          BY <1>0, <4>2 DEF Fine, Sleeps, Shape
        <5>. QED BY <1>2, <5>1 DEF Record!heldByOther
      <4>. QED BY <1>0, <3>1, <4>1, <4>2 DEF Fine, Sleeps
    <3>2. CASE u # t
      <4>1. ~(verify[u][y] = 0 /\ record.holder = u)
        BY <1>0, <1>2, <3>2, SeenByOthers
      <4>. QED BY <1>0, <2>1, <3>2, <4>1 DEF Fine, Sleeps, Shape
    <3>. QED BY <3>1, <3>2
  <2>. QED BY <2>3, <2>4, <2>5 DEF Fine
<1>. QED BY <1>1, <1>2

(* The write of a claim or of a heartbeat reaches the storage.             *)
LEMMA WrittenFine ==
  ASSUME Shape, Calm, \A u \in Tab : Fine(u),
         NEW t \in Tab, t \in rOpen, claim[t] # "no", claim' = [claim EXCEPT ![t] = "no"],
         record' = [holder |-> t, age |-> 0],
         verify' = IF claim[t] \in Sources THEN [verify EXCEPT ![t][claim[t]] = Record!Sleep] ELSE verify,
         UNCHANGED <<rOpen, rStopped, rStatus, beat, rUsed>>
  PROVE  \A u \in Tab : Fine(u)'
<1> SUFFICES ASSUME NEW u \in Tab PROVE Fine(u)'
  OBVIOUS
<1>0. Fine(u) /\ Fine(t) /\ Allowed' = Allowed /\ Allowed \in Nat /\ 1 + BeatEvery <= Allowed
  BY Fresh DEF Allowed
<1>1. claim[t] = "beat" \/ claim[t] \in Sources
  BY DEF Shape
<1>2. Quiet(u) => Quiet(u)'
  BY DEF Quiet, Shape
<1>3. record'.holder = t /\ record'.age = 0 /\ t # NoTab
  BY NoTabAssumption
<1>4. ASSUME rStatus[u] = "primary" PROVE u = t
  <2>1. CASE claim[t] = "beat"
    BY <1>0, <1>4, <2>1 DEF Fine, Hosts, Beats
  <2>2. CASE claim[t] \in Sources
    BY <1>0, <1>4, <2>2 DEF Fine, Hosts, Quiet
  <2>. QED BY <1>1, <2>1, <2>2
<1>5. Hosts(u)'
  <2> SUFFICES ASSUME rStatus[u] = "primary" PROVE Hosts(u)'
    BY DEF Hosts
  <2>1. u = t /\ claim'[t] = "no"
    BY <1>4 DEF Shape
  <2>. QED BY <1>0, <1>2, <1>3, <2>1 DEF Fine, Hosts, Shape
<1>6. Gone(u)' /\ Beats(u)'
  <2>1. CASE u = t
    BY <2>1 DEF Gone, Beats, Shape
  <2>2. CASE u # t
    BY <1>0, <2>2 DEF Fine, Gone, Beats, Shape
  <2>. QED BY <2>1, <2>2
<1>7. ASSUME NEW x \in Sources PROVE Sleeps(u, x)'
  <2>1. verify'[u][x] \in {-1, 0, 1} /\ (verify'[u][x] = 0 => verify[u][x] = 0)
    BY DEF Shape
  <2>2. record'.age + verify'[u][x] <= Record!Sleep
    BY <1>3, <2>1 DEF Shape
  <2>3. ASSUME verify'[u][x] = 0, u = t PROVE Quiet(t)'
    <3>1. CASE claim[t] = "beat"
      BY <1>0, <1>2, <2>3, <3>1 DEF Fine, Hosts, Beats
    <3>2. CASE claim[t] \in Sources
      BY <1>0, <1>2, <2>1, <2>3, <3>2 DEF Fine, Sleeps, Shape
    <3>. QED BY <1>1, <3>1, <3>2
  <2>4. ASSUME verify'[u][x] = 0, claim'[u] \in Sources PROVE FALSE
    <3>1. u # t /\ claim[u] \in Sources
      BY <2>4 DEF Shape
    <3>2. record.holder = u /\ Quiet(u)
      BY <1>0, <2>1, <2>4, <3>1 DEF Fine, Sleeps, Shape
    <3>3. claim[t] = "beat"
      BY <1>1, <3>1, <3>2 DEF Quiet
    <3>. QED BY <1>0, <3>1, <3>2, <3>3 DEF Fine, Hosts, Beats
  <2>. QED BY <1>3, <2>2, <2>3, <2>4 DEF Sleeps
<1>. QED BY <1>5, <1>6, <1>7 DEF Fine

(* The storage refuses it: a host may be seen for a period longer.         *)
LEMMA RefusedFine ==
  ASSUME Shape, Calm, \A u \in Tab : Fine(u),
         NEW t \in Tab, t \in rOpen, claim[t] # "no", claim' = [claim EXCEPT ![t] = "no"],
         rUsed' = [rUsed EXCEPT !.failures = @ + 1],
         UNCHANGED <<rOpen, rStopped, rStatus, record, verify, beat>>
  PROVE  \A u \in Tab : Fine(u)'
<1> SUFFICES ASSUME NEW u \in Tab PROVE Fine(u)'
  OBVIOUS
<1>0. Fine(u) /\ Fine(t) /\ Allowed \in Nat
  BY Fresh
<1>1. Allowed' = Allowed + BeatEvery
  <2>1. rUsed'.failures = rUsed.failures + 1 /\ rUsed.failures \in Nat /\ BeatEvery \in Nat
    BY DEF Shape, FaultsUsed
  <2>. QED BY <2>1 DEF Allowed, Shape
<1>2. CASE u # t
  BY <1>0, <1>1, <1>2, FineKept DEF Shape
<1>3. CASE u = t
  <2>1. claim'[t] = "no"
    BY DEF Shape
  <2>2. Quiet(t) => Quiet(t)'
    BY DEF Quiet, Shape
  <2>3. Gone(t)' /\ Beats(t)'
    BY <2>1 DEF Gone, Beats
  <2>4. Hosts(t)'
    BY <1>0, <1>1, <2>1, <2>2 DEF Fine, Hosts, Shape
  <2>5. ASSUME NEW x \in Sources PROVE Sleeps(t, x)'
    BY <1>0, <2>1, <2>2 DEF Fine, Sleeps, Shape
  <2>. QED BY <1>3, <2>3, <2>4, <2>5 DEF Fine
<1>. QED BY <1>2, <1>3

(* The second look: a page that becomes host finds its own young record.   *)
LEMMA LookFine ==
  ASSUME Shape, Calm, \A u \in Tab : Fine(u),
         NEW t \in Tab, NEW x \in Sources, Record!Verify(t, x)
  PROVE  \A u \in Tab : Fine(u)'
<1> SUFFICES ASSUME NEW u \in Tab PROVE Fine(u)'
  OBVIOUS
<1>0. Fine(u) /\ Fine(t) /\ Allowed' = Allowed /\ Allowed \in Nat /\ 1 + BeatEvery <= Allowed
  BY Fresh DEF Allowed, Record!Verify
<1>1. /\ t \in rOpen /\ claim[t] = "no" /\ verify[t][x] = 0
      /\ verify' = [verify EXCEPT ![t][x] = Record!Off]
      /\ UNCHANGED <<rOpen, rStopped, record, claim, rUsed>>
  BY DEF Record!Verify, Record!runs, Record!pages
<1>2. CASE u # t
  <2>1. rStatus'[u] = rStatus[u] /\ verify'[u] = verify[u] /\ beat'[u] = beat[u]
    BY <1>1, <1>2, LookEnds DEF Shape
  <2>. QED BY <1>0, <1>1, <2>1, FineKept
<1>3. CASE u = t
  <2>1. Gone(t)' /\ Beats(t)'
    BY <1>1 DEF Gone, Beats
  <2>2. ASSUME NEW y \in Sources PROVE Sleeps(t, y)'
    <3>1. verify'[t][y] # Record!Off => verify'[t][y] = verify[t][y]
      BY <1>1 DEF Shape
    <3>. QED BY <1>0, <1>1, <3>1 DEF Fine, Sleeps, Quiet
  <2>3. Hosts(t)'
    <3>1. CASE rStatus'[t] = "primary" /\ rStatus[t] = "primary" /\ beat'[t] = beat[t]
      BY <1>0, <1>1, <3>1 DEF Fine, Hosts, Quiet
    <3>2. CASE rStatus'[t] # "primary"
      BY <3>2 DEF Hosts
    <3>3. CASE /\ t \notin rStopped /\ ~Record!heldByOther(t)
               /\ beat' = [beat EXCEPT ![t] = IF @ = Record!Off THEN BeatEvery ELSE @]
      <4>1. record.holder # NoTab /\ record.age <= 1
        BY <1>0, <1>1 DEF Fine, Sleeps, Shape
      <4>2. record.holder = t
        BY <3>3, <4>1 DEF Record!heldByOther, Shape
      <4>3. Quiet(t)'
        BY <1>0, <1>1, <4>2 DEF Fine, Sleeps, Quiet, Shape
      <4>4. beat'[t] \in 0 .. BeatEvery
        BY <3>3 DEF Shape
      <4>5. record.age + beat'[t] <= Allowed
        BY <1>0, <4>1, <4>4 DEF Shape
      <4>. QED BY <1>0, <1>1, <3>3, <4>2, <4>3, <4>4, <4>5 DEF Hosts
    <3>. QED BY <3>1, <3>2, <3>3, LookEnds DEF Shape
  <2>. QED BY <1>3, <2>1, <2>2, <2>3 DEF Fine
<1>. QED BY <1>2, <1>3

(* What a heartbeat may end in.                                            *)
LEMMA BeatEnds ==
  ASSUME NEW t \in Tab, Record!Beat(t)
  PROVE  \/ /\ rStatus[t] # "primary" /\ beat' = [beat EXCEPT ![t] = Record!Off]
            /\ UNCHANGED <<rStatus, claim>>
         \/ /\ beat' = [beat EXCEPT ![t] = BeatEvery]
            /\ rStatus' = [rStatus EXCEPT ![t] = "secondary"] /\ UNCHANGED claim
         \/ /\ rStatus[t] = "primary" /\ beat' = [beat EXCEPT ![t] = BeatEvery]
            /\ claim' = [claim EXCEPT ![t] = "beat"] /\ UNCHANGED rStatus
<1>1. CASE rStatus[t] # "primary"
  BY <1>1 DEF Record!Beat
<1>2. CASE rStatus[t] = "primary" /\ Record!heldByOther(t)
  BY <1>2 DEF Record!Beat
<1>3. CASE rStatus[t] = "primary" /\ ~Record!heldByOther(t)
  BY <1>3 DEF Record!Beat
<1>. QED BY <1>1, <1>2, <1>3

(* A heartbeat that is due: the record of a host is not too old for it.    *)
LEMMA BeatFine ==
  ASSUME Shape, Calm, \A u \in Tab : Fine(u), NEW t \in Tab, Record!Beat(t)
  PROVE  \A u \in Tab : Fine(u)'
<1> SUFFICES ASSUME NEW u \in Tab PROVE Fine(u)'
  OBVIOUS
<1>0. Fine(u) /\ Fine(t) /\ Allowed' = Allowed /\ Allowed \in Nat
  BY Fresh DEF Allowed, Record!Beat
<1>1. /\ t \in rOpen /\ claim[t] = "no" /\ beat[t] = 0
      /\ UNCHANGED <<rOpen, rStopped, record, verify, rUsed>>
  BY DEF Record!Beat, Record!runs, Record!pages
<1>2. \A v \in Tab : claim'[v] \in Sources => claim[v] \in Sources
  BY BeatEnds DEF Shape
<1>3. CASE u # t
  <2>1. rStatus'[u] = rStatus[u] /\ claim'[u] = claim[u] /\ beat'[u] = beat[u]
    BY <1>3, BeatEnds DEF Shape
  <2>. QED BY <1>0, <1>1, <1>2, <2>1, FineKept
<1>4. CASE u = t
  <2>1. Quiet(t) => Quiet(t)'
    BY <1>2 DEF Quiet
  <2>2. Gone(t)'
    BY <1>1 DEF Gone
  <2>3. ASSUME NEW x \in Sources PROVE Sleeps(t, x)'
    BY <1>0, <1>1, <1>2, <2>1 DEF Fine, Sleeps
  <2>4. CASE rStatus'[t] = "primary"
    <3>1. rStatus[t] = "primary" /\ claim'[t] = "beat" /\ beat'[t] = BeatEvery
      BY <2>4, BeatEnds DEF Shape
    <3>. QED BY <1>0, <1>1, <1>4, <2>1, <2>2, <2>3, <2>4, <3>1 DEF Fine, Hosts, Beats, Shape
  <2>5. CASE rStatus'[t] # "primary"
    <3>1. claim'[t] = "no"
      BY <1>1, <2>5, BeatEnds DEF Shape
    <3>. QED BY <1>4, <2>2, <2>3, <2>5, <3>1 DEF Fine, Hosts, Beats
  <2>. QED BY <2>4, <2>5
<1>. QED BY <1>3, <1>4

(* A page that leaves without a mark takes nothing from the others.        *)
LEMMA LeaveFine ==
  ASSUME Shape, Calm, Calm', \A u \in Tab : Fine(u),
         NEW t \in Tab, Record!release(t) \/ Record!Close(t)
  PROVE  \A u \in Tab : Fine(u)'
<1> SUFFICES ASSUME NEW u \in Tab PROVE Fine(u)'
  OBVIOUS
<1>1. /\ rStatus' = [rStatus EXCEPT ![t] = "none"] /\ beat' = [beat EXCEPT ![t] = Record!Off]
      /\ rStopped' = rStopped \cup {t} /\ claim'[t] = "no"
      /\ claim' = claim \/ claim' = [claim EXCEPT ![t] = "no"]
      /\ verify' = verify \/ verify' = [verify EXCEPT ![t] = Record!NoAttempt]
      /\ rOpen' = rOpen \/ rOpen' = rOpen \ {t}
  BY DEF Record!release, Record!Close, Record!runs, Shape
<1>2. UNCHANGED <<record, rUsed>>
  <2>1. CASE Record!release(t) /\ rStatus[t] = "primary"
    <3>1. rUsed' = [rUsed EXCEPT !.marks = @ + 1]
      BY <2>1 DEF Record!release
    <3>2. rUsed'.marks = rUsed.marks + 1
      BY <3>1 DEF Shape, FaultsUsed
    <3>. QED BY <3>2 DEF Calm, Shape
  <2>. QED BY <2>1 DEF Record!release, Record!Close
<1>3. Fine(u) /\ Fine(t) /\ Allowed' = Allowed /\ Allowed \in Nat
  BY <1>2, Fresh DEF Allowed
<1>4. \A v \in Tab : claim'[v] \in Sources => claim[v] \in Sources
  BY <1>1 DEF Shape
<1>5. CASE u # t
  <2>1. /\ rStatus'[u] = rStatus[u] /\ claim'[u] = claim[u] /\ beat'[u] = beat[u]
        /\ verify'[u] = verify[u] /\ (u \in rOpen' <=> u \in rOpen) /\ (u \in rStopped' <=> u \in rStopped)
    BY <1>1, <1>5 DEF Shape
  <2>. QED BY <1>2, <1>3, <1>4, <2>1, FineKept
<1>6. CASE u = t
  <2>1. rStatus'[t] = "none"
    BY <1>1 DEF Shape
  <2>2. Hosts(t)' /\ Beats(t)'
    BY <1>1, <2>1 DEF Hosts, Beats
  <2>3. verify'[t] = verify[t] \/ verify'[t] = Record!NoAttempt
    BY <1>1 DEF Shape
  <2>4. \A x \in Sources : Record!NoAttempt[x] = Record!Off
    BY DEF Record!NoAttempt, Sources
  <2>5. ASSUME NEW x \in Sources PROVE Sleeps(t, x)'
    <3>1. Quiet(t) => Quiet(t)'
      BY <1>4 DEF Quiet
    <3>. QED BY <1>1, <1>2, <1>3, <2>3, <2>4, <3>1 DEF Fine, Sleeps, Shape
  <2>6. Gone(t)'
    <3>1. CASE t \in rOpen'
      BY <3>1 DEF Gone
    <3>2. CASE t \notin rOpen'
      <4>1. Record!Close(t) \/ t \notin rOpen
        BY <3>2 DEF Record!release
      <4>2. \A x \in Sources : verify'[t][x] = Record!Off
        <5>1. CASE Record!Close(t)
          <6>1. verify'[t] = Record!NoAttempt
            BY <5>1 DEF Record!Close, Shape
          <6>. QED BY <2>4, <6>1
        <5>2. CASE t \notin rOpen
          BY <1>3, <2>3, <2>4, <5>2 DEF Fine, Gone
        <5>. QED BY <4>1, <5>1, <5>2
      <4>. QED BY <1>1, <2>1, <4>2 DEF Gone
    <3>. QED BY <3>1, <3>2
  <2>. QED BY <1>6, <2>2, <2>5, <2>6 DEF Fine
<1>. QED BY <1>5, <1>6

(* Time passes: nothing is due, so timers and the age of the record meet.  *)
LEMMA TickFine ==
  ASSUME Shape, Calm, \A u \in Tab : Fine(u), frozen = {}, Record!Tick
  PROVE  \A u \in Tab : Fine(u)'
<1>1. /\ verify' = [t \in Tab |-> [x \in Sources |-> Record!step(verify[t][x])]]
      /\ beat' = [t \in Tab |-> Record!step(beat[t])]
      /\ UNCHANGED <<rOpen, rStopped, rStatus, claim, rUsed>>
  BY DEF Record!Tick, Record!pages, Sources
<1>2. /\ record'.holder = record.holder
      /\ record'.age \in Nat /\ record'.age <= record.age + 1
      /\ record.holder # NoTab => record'.age \in {record.age, record.age + 1}
  BY DEF Record!Tick, Shape, RecordType
<1>3. \A u \in Tab : claim[u] = "no"
  BY DEF Record!Tick, Fine, Gone
<1>4. Allowed' = Allowed /\ Allowed \in Nat
  BY <1>1, Fresh DEF Allowed
<1> SUFFICES ASSUME NEW u \in Tab PROVE Fine(u)'
  OBVIOUS
<1>5. Fine(u)
  OBVIOUS
<1>6. Quiet(u)'
  BY <1>1, <1>3 DEF Quiet, Shape
<1>7. Gone(u)'
  <2> SUFFICES ASSUME u \notin rOpen PROVE Gone(u)'
    BY <1>1 DEF Gone
  <2>1. \A x \in Sources : verify'[u][x] = Record!Off
    BY <1>1, <1>5 DEF Fine, Gone, Record!step, Shape
  <2>. QED BY <1>1, <1>5, <2>1 DEF Fine, Gone
<1>8. Hosts(u)'
  <2> SUFFICES ASSUME rStatus[u] = "primary" PROVE Hosts(u)'
    BY <1>1 DEF Hosts
  <2>1. u \in rOpen \ rStopped /\ beat[u] \in 0 .. BeatEvery /\ record.holder = u
        /\ record.age + beat[u] <= Allowed
    BY <1>3, <1>5 DEF Fine, Hosts
  <2>2. beat[u] # 0
    BY <2>1 DEF Record!Tick, Record!due
  <2>3. beat'[u] = beat[u] - 1
    BY <1>1, <2>1, <2>2 DEF Record!step, Shape
  <2>4. beat'[u] \in 0 .. BeatEvery
    BY <2>1, <2>2, <2>3, RecordConstants
  <2>5. record'.age + beat'[u] <= Allowed
    BY <1>2, <1>4, <2>1, <2>3 DEF Shape
  <2>6. claim'[u] # "beat"
    BY <1>1, <1>3
  <2>. QED BY <1>1, <1>2, <1>4, <1>6, <2>1, <2>4, <2>5, <2>6 DEF Hosts
<1>9. ASSUME NEW x \in Sources PROVE Sleeps(u, x)'
  <2>1. CASE u \notin rOpen
    BY <1>1, <1>7, <2>1 DEF Gone, Sleeps
  <2>2. CASE u \in rOpen
    <3>1. verify[u][x] # 0
      BY <2>2 DEF Record!Tick, Record!due, Sources
    <3>2. verify[u][x] = -1 \/ verify[u][x] = 1
      BY <3>1 DEF Shape
    <3>3. /\ verify[u][x] = -1 => verify'[u][x] = -1
          /\ verify[u][x] = 1 => verify'[u][x] = 0
      BY <1>1 DEF Record!step
    <3>4. verify[u][x] = 1 => record.holder # NoTab /\ record.age + 1 <= 1
      BY <1>5 DEF Fine, Sleeps, Shape
    <3>. QED BY <1>1, <1>2, <1>3, <1>6, <3>2, <3>3, <3>4 DEF Sleeps, Shape
  <2>. QED BY <2>1, <2>2
<1>10. Beats(u)'
  BY <1>1, <1>3 DEF Beats
<1>. QED BY <1>7, <1>8, <1>9, <1>10 DEF Fine

(* Freezes, marks and refused writes are only ever added.                  *)
LEMMA CalmBefore ==
  ASSUME Shape, [Record!Next]_recordVars, Calm'
  PROVE  Calm /\ ~\E t \in Tab : Record!Freeze(t)
<1> DEFINE Counted ==
             \/ UNCHANGED rUsed
             \/ rUsed' = [rUsed EXCEPT !.takeOvers = @ + 1]
             \/ rUsed' = [rUsed EXCEPT !.freezes = @ + 1]
             \/ rUsed' = [rUsed EXCEPT !.failures = @ + 1]
             \/ rUsed' = [rUsed EXCEPT !.marks = @ + 1]
<1>1. Counted
  <2>1. CASE UNCHANGED recordVars
    BY <2>1 DEF recordVars
  <2>2. CASE Record!Tick
    BY <2>2 DEF Record!Tick
  <2>3. ASSUME NEW t \in Tab, Record!takeOver(t) \/ Record!release(t) \/ Record!Freeze(t)
        PROVE  Counted
    BY <2>3 DEF Record!takeOver, Record!release, Record!Freeze
  <2>4. ASSUME NEW t \in Tab, Record!Open(t) \/ Record!Close(t) \/ Record!Thaw(t)
        PROVE  Counted
    BY <2>4 DEF Record!Open, Record!Close, Record!Thaw
  <2>5. ASSUME NEW t \in Tab, Record!PageStep(t)
        PROVE  Counted
    BY <2>5 DEF Record!PageStep, Record!Retry, Record!takeOverAttempt, Record!writeRecord, Record!Beat, Record!Verify
  <2>. QED BY <2>1, <2>2, <2>3, <2>4, <2>5 DEF Record!Next
<1>2. /\ rUsed'.freezes \in {rUsed.freezes, rUsed.freezes + 1}
      /\ rUsed'.failures \in {rUsed.failures, rUsed.failures + 1}
      /\ rUsed'.marks \in {rUsed.marks, rUsed.marks + 1}
  BY <1>1 DEF Shape, FaultsUsed
<1>3. Calm
  <2>1. Record!Forgiven \in Int
    BY DEF Record!Forgiven, Shape
  <2>. QED BY <1>2, <2>1 DEF Calm, Shape
<1>4. ASSUME NEW t \in Tab, Record!Freeze(t) PROVE FALSE
  <2>1. rUsed'.freezes = rUsed.freezes + 1
    BY <1>4 DEF Record!Freeze, Shape, FaultsUsed
  <2>. QED BY <2>1 DEF Calm, Shape
<1>. QED BY <1>3, <1>4

(* Every page action keeps the pages fine.                                 *)
LEMMA PageFine ==
  ASSUME Shape, Calm, \A u \in Tab : Fine(u), NEW t \in Tab,
         Record!Open(t) \/ Record!Retry(t) \/ Record!takeOverAttempt(t) \/ Record!takeOver(t)
  PROVE  \A u \in Tab : Fine(u)'
<1>1. Fine(t) /\ "timer" \in Sources /\ "takeOver" \in Sources
  BY DEF Sources, Record!Source
<1>2. ASSUME UNCHANGED <<rOpen, rStopped, rStatus, claim, verify, beat, record>>,
             UNCHANGED rUsed \/ rUsed' = [rUsed EXCEPT !.takeOvers = @ + 1]
      PROVE  \A u \in Tab : Fine(u)'
  <2>1. rUsed'.failures = rUsed.failures
    BY <1>2 DEF Shape, FaultsUsed
  <2>2. Allowed' = Allowed /\ Allowed \in Nat
    BY <2>1, Fresh DEF Allowed
  <2>. QED BY <1>2, <2>2, FineKept
<1>3. CASE Record!Open(t)
  BY <1>1, <1>3, ReadFine DEF Record!Open, Fine, Gone
<1>4. CASE Record!Retry(t)
  <2>1. CASE Record!mayAcquire(t)
    <3>1. rStatus[t] # "primary" /\ claim[t] = "no" /\ rOpen = rOpen \cup {t}
      BY <1>4, <2>1 DEF Record!Retry, Record!mayAcquire, Record!runs
    <3>2. /\ Record!Read(t, "timer", [rRetry EXCEPT ![t] = RetryEvery])
          /\ UNCHANGED <<rOpen, rStopped, record, verify, beat, rUsed>>
      BY <1>4, <2>1 DEF Record!Retry, Record!pages
    <3>. QED BY <1>1, <3>1, <3>2, ReadFine
  <2>2. CASE ~Record!mayAcquire(t)
    BY <1>2, <1>4, <2>2 DEF Record!Retry, Record!pages
  <2>. QED BY <2>1, <2>2
<1>5. CASE Record!takeOverAttempt(t)
  <2>1. CASE Record!mayAcquire(t)
    <3>1. rStatus[t] # "primary" /\ claim[t] = "no" /\ rOpen = rOpen \cup {t}
      BY <1>5, <2>1 DEF Record!takeOverAttempt, Record!mayAcquire, Record!runs
    <3>2. /\ Record!Read(t, "takeOver", rRetry)
          /\ UNCHANGED <<rOpen, rStopped, record, verify, beat, rUsed>>
      BY <1>5, <2>1 DEF Record!takeOverAttempt, Record!pages
    <3>. QED BY <1>1, <3>1, <3>2, ReadFine
  <2>2. CASE ~Record!mayAcquire(t)
    BY <1>2, <1>5, <2>2 DEF Record!takeOverAttempt, Record!pages
  <2>. QED BY <2>1, <2>2
<1>6. CASE Record!takeOver(t)
  BY <1>2, <1>6 DEF Record!takeOver, Record!pages
<1>. QED BY <1>3, <1>4, <1>5, <1>6

(* A write, accepted or refused, keeps the pages fine.                     *)
LEMMA WriteFine ==
  ASSUME Shape, Calm, \A u \in Tab : Fine(u), NEW t \in Tab, Record!writeRecord(t)
  PROVE  \A u \in Tab : Fine(u)'
<1>1. /\ t \in rOpen /\ claim[t] # "no" /\ claim' = [claim EXCEPT ![t] = "no"]
      /\ UNCHANGED <<rOpen, rStopped, rStatus, beat>>
  BY DEF Record!writeRecord, Record!pages
<1>2. CASE /\ record' = [holder |-> t, age |-> 0] /\ UNCHANGED rUsed
           /\ verify' = IF claim[t] \in Sources
                        THEN [verify EXCEPT ![t][claim[t]] = Record!Sleep] ELSE verify
  BY <1>1, <1>2, WrittenFine
<1>3. CASE rUsed' = [rUsed EXCEPT !.failures = @ + 1] /\ UNCHANGED <<record, verify>>
  BY <1>1, <1>3, RefusedFine
<1>. QED BY <1>2, <1>3 DEF Record!writeRecord, Sources

LEMMA HoldersStep == Record!TypeOK /\ HoldersInv /\ [Record!Next]_recordVars => HoldersInv'
<1> SUFFICES ASSUME Record!TypeOK, HoldersInv, [Record!Next]_recordVars, Calm'
             PROVE  frozen' = {} /\ \A u \in Tab : Fine(u)'
  BY DEF HoldersInv
<1>1. Shape /\ Calm /\ ~\E t \in Tab : Record!Freeze(t)
  BY Shapes, CalmBefore
<1>2. frozen = {} /\ \A u \in Tab : Fine(u)
  BY <1>1 DEF HoldersInv
<1>3. CASE UNCHANGED recordVars
  <2>1. UNCHANGED <<rOpen, rStopped, frozen, rStatus, claim, verify, beat, record, rUsed>>
    BY <1>3 DEF recordVars
  <2>2. Allowed' = Allowed /\ Allowed \in Nat
    BY <1>1, <2>1, Fresh DEF Allowed
  <2>. QED BY <1>1, <1>2, <2>1, <2>2, FineKept
<1>4. CASE Record!Tick
  <2>1. frozen' = {}
    BY <1>2, <1>4 DEF Record!Tick, Record!pages
  <2>. QED BY <1>1, <1>2, <1>4, <2>1, TickFine
<1>5. ASSUME NEW t \in Tab,
             \/ Record!Open(t) \/ Record!PageStep(t) \/ Record!takeOver(t)
             \/ Record!release(t) \/ Record!Close(t) \/ Record!Freeze(t) \/ Record!Thaw(t)
      PROVE  frozen' = {} /\ \A u \in Tab : Fine(u)'
  <2>1. CASE Record!Open(t) \/ Record!Retry(t) \/ Record!takeOverAttempt(t) \/ Record!takeOver(t)
    <3>1. frozen' = {}
      BY <1>2, <2>1 DEF Record!Open, Record!Retry, Record!takeOverAttempt, Record!takeOver, Record!pages
    <3>. QED BY <1>1, <1>2, <2>1, <3>1, PageFine
  <2>2. CASE Record!writeRecord(t)
    <3>1. frozen' = {}
      BY <1>2, <2>2 DEF Record!writeRecord, Record!pages
    <3>. QED BY <1>1, <1>2, <2>2, <3>1, WriteFine
  <2>3. CASE Record!Beat(t)
    <3>1. frozen' = {}
      BY <1>2, <2>3 DEF Record!Beat, Record!pages
    <3>. QED BY <1>1, <1>2, <2>3, <3>1, BeatFine
  <2>4. ASSUME NEW x \in Sources, Record!Verify(t, x) PROVE frozen' = {} /\ \A u \in Tab : Fine(u)'
    <3>1. frozen' = {}
      BY <1>2, <2>4 DEF Record!Verify, Record!pages
    <3>. QED BY <1>1, <1>2, <2>4, <3>1, LookFine
  <2>5. CASE Record!release(t) \/ Record!Close(t)
    <3>1. frozen' = {}
      BY <1>2, <2>5 DEF Record!release, Record!Close
    <3>. QED BY <1>1, <1>2, <2>5, <3>1, LeaveFine
  <2>6. CASE Record!Freeze(t)
    BY <1>1, <2>6
  <2>7. CASE Record!Thaw(t)
    BY <1>2, <2>7 DEF Record!Thaw
  <2>. QED BY <1>5, <2>1, <2>2, <2>3, <2>4, <2>5, <2>6, <2>7 DEF Record!PageStep, Sources
<1>. QED BY <1>3, <1>4, <1>5 DEF Record!Next

(* Every host has the one record.                                          *)
LEMMA OneHolder == HoldersInv => RecordOneHost
<1> SUFFICES ASSUME HoldersInv, Calm PROVE Record!Single
  BY DEF RecordOneHost, Record!OneHost, Calm
<1>. QED BY DEF HoldersInv, Fine, Hosts, Record!host, Record!Single

(* RecordOneHost: whoever reads and writes the stored record first, one    *)
(* page at most may run turns, while pages run on time, the storage        *)
(* refuses no more writes than the age of a record forgives, and no        *)
(* release mark is left.                                                   *)
THEOREM RecordHoldsOne == LeaseSpec => []RecordOneHost
<1>1. LeaseInit => HoldersInv
  <2> SUFFICES ASSUME Record!Init PROVE frozen = {} /\ \A t \in Tab : Fine(t)
    BY DEF LeaseInit, HoldersInv
  <2> SUFFICES ASSUME NEW t \in Tab PROVE Fine(t)
    BY DEF Record!Init
  <2>1. rStatus[t] = "none" /\ claim[t] = "no" /\ verify[t] = Record!NoAttempt
    BY DEF Record!Init
  <2>2. \A x \in Sources : verify[t][x] = Record!Off
    BY <2>1 DEF Record!NoAttempt, Sources
  <2>. QED BY <2>1, <2>2 DEF Fine, Gone, Hosts, Beats, Sleeps
<1>. QED BY <1>1, RecordTypeCorrect, HoldersStep, OneHolder, Steps, PTL DEF LeaseSpec, RecordTypeOK
=============================================================================
