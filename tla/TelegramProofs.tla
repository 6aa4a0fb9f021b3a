--------------------------- MODULE TelegramProofs ---------------------------
(***************************************************************************)
(* Theorems about the Telegram channel and the tabs that answer through it, *)
(* for any messages, tabs, profiles and browsers and any number of faults:  *)
(*   BridgeTypes     the type invariant                                     *)
(*   TurnRunsOnce    a browser does not run a message again whose id it     *)
(*                   remembers                                              *)
(*   LiveOwnerKept   a chat is not taken from a profile that lives          *)
(* The second needs to know where the letters of a message can be.  A claim *)
(* has each message once, because it has each chat once and a mailbox file  *)
(* has each id once, whichever of the files written by acks it was.  What a *)
(* tab chains its browser had not seen, so no chain of the browser has it   *)
(* and no turn was about it, unless the browser has forgotten its id; and it *)
(* stays seen or forgotten.                                                 *)
(***************************************************************************)
EXTENDS TelegramBridge, SequenceTheorems, FiniteSetTheorems, WellFoundedInduction, TLAPS

-----------------------------------------------------------------------------
(* The invariant                                                           *)

(* A list of ids of a chat: some of the messages, each once.               *)
Box(c, s, messages) ==
  /\ s \in Seq(Id)
  /\ \A i, j \in DOMAIN s : s[i] = s[j] => i = j
  /\ \A i \in DOMAIN s : msg(c, s[i]) \in messages

FilesOK ==
  /\ arrived \subseteq Message /\ overwritten \subseteq Message
  /\ mailbox \in [Conv -> Seq(Id)] /\ \A c \in Conv : Box(c, mailbox[c], arrived)
  /\ DOMAIN tmp \subseteq Conv /\ \A c \in DOMAIN tmp : Box(c, tmp[c], arrived)
  /\ answered \in [Conv -> Seq(Id)]
  /\ DOMAIN draft \subseteq Conv /\ \A c \in DOMAIN draft : draft[c] \in Seq(Id)
  /\ acks \subseteq Ack /\ \A a \in acks : a.phase = "write" => Box(a.conv, a.list, arrived)

Bindings(f) == DOMAIN f \subseteq Conv /\ \A c \in DOMAIN f : f[c] \in Binding
RegistryOK == Bindings(bindings) /\ Bindings(stored) /\ saving \in BOOLEAN

(* Letters of messages that arrived, each message once.                    *)
Apart(letters) ==
  /\ \A i \in DOMAIN letters : about(letters[i]) \in arrived
  /\ \A i, j \in DOMAIN letters : about(letters[i]) = about(letters[j]) => i = j

(* A request has each chat once: ahead of it, at it or in its letters.     *)
ChatsOnce(r) ==
  /\ \A i \in DOMAIN r.letters :
       r.letters[i].conv \notin r.todo /\ (r.phase = "read" => r.letters[i].conv # r.at)
  /\ r.phase = "read" => r.at \notin r.todo

ClaimsOK == claim \in [Tab -> Claim] /\ \A t \in Tab : Apart(claim[t].letters) /\ ChatsOnce(claim[t])

(* What a tab has in its chain its browser has seen, once; what waits in it *)
(* for its turn has not run and waits nowhere else in the browser.  All but *)
(* the first of it excuses ids that the browser has forgotten.              *)
known(b) == idsOf(seen[b]) \cup forgot[b]
Waiting(t) ==
  \A i \in DOMAIN chain[t] :
    /\ about(chain[t][i]) \in arrived
    /\ chain[t][i].id \in known(BrowserOf[t])
    /\ i > 1 \/ step[t] = "run"
         => \/ <<BrowserOf[t], about(chain[t][i])>> \notin ran
            \/ chain[t][i].id \in forgot[BrowserOf[t]]
Differ(t, u) ==
  \A i \in DOMAIN chain[t], j \in DOMAIN chain[u] :
    about(chain[t][i]) = about(chain[u][j])
      => (t = u /\ i = j) \/ chain[t][i].id \in forgot[BrowserOf[t]]

ChainsOK ==
  /\ seen \in [Browser -> Seq(Id)] /\ forgot \in [Browser -> SUBSET Id]
  /\ chain \in [Tab -> Seq(Letter)]
  /\ step \in [Tab -> Step]
  /\ ran \subseteq Browser \X Message
  /\ \A t \in Tab : Waiting(t)
  /\ \A t, u \in Tab : BrowserOf[u] = BrowserOf[t] => Differ(t, u)
  /\ \A r \in ran : r[2].id \in known(r[1])

RestOK ==
  /\ awake \subseteq Tab /\ shed \subseteq Message /\ day \in Day
  /\ phone \subseteq Browser \X Message /\ faults \in Seq(Fault)

Inv == FilesOK /\ RegistryOK /\ ClaimsOK /\ ChainsOK /\ RestOK

-----------------------------------------------------------------------------
(* What pick takes from a sequence                                         *)

(* The index of a number in a set of indices is there.                     *)
LEMMA NthIsThere ==
  ASSUME NEW n \in Nat, NEW indices \in SUBSET (1 .. n)
  PROVE  /\ IsFiniteSet(indices) /\ Cardinality(indices) \in Nat
         /\ \A k \in 1 .. Cardinality(indices) :
              /\ nth(indices, k) \in indices
              /\ Cardinality({j \in indices : j <= nth(indices, k)}) = k
<1>. DEFINE upto(i) == {j \in indices : j <= i}
            Bad == {k \in 1 .. Cardinality(indices) : \A i \in indices : Cardinality(upto(i)) # k}
<1>1. IsFiniteSet(indices) /\ Cardinality(indices) \in Nat
  <2>1. IsFiniteSet(1 .. n)
    BY FS_Interval
  <2>2. IsFiniteSet(indices)
    BY <2>1, FS_Subset
  <2>. QED BY <2>2, FS_CardinalityType
<1>2. \A i : IsFiniteSet(upto(i)) /\ upto(i) \in SUBSET indices
  BY <1>1, FS_Subset
<1>3. indices \subseteq Nat
  OBVIOUS
<1>. HIDE DEF upto
<1>4. Bad = {}
  <2>1. SUFFICES ASSUME Bad # {} PROVE FALSE
    OBVIOUS
  <2>2. Bad \subseteq Nat
    BY <1>1
  <2>3. PICK k \in Bad : \A m \in Bad : ~(<<m, k>> \in OpToRel(<, Nat))
    BY <2>1, <2>2, WFMin, NatLessThanWellFounded
  <2>4. \A m \in Bad : ~(m < k)
    BY <2>2, <2>3 DEF OpToRel
  <2>5. k \in 1 .. Cardinality(indices) /\ \A i \in indices : Cardinality(upto(i)) # k
    OBVIOUS
  <2>. HIDE DEF Bad
  <2>6. \E low \in SUBSET indices :
          /\ Cardinality(low) = k - 1 /\ IsFiniteSet(low)
          /\ \A i \in indices \ low, j \in low : j < i
    <3>1. CASE k = 1
      BY <3>1, FS_EmptySet
    <3>2. CASE k # 1
      <4>1. k - 1 \in 1 .. Cardinality(indices) /\ k - 1 < k
        BY <3>2, <2>5, <1>1
      <4>2. PICK p \in indices : Cardinality(upto(p)) = k - 1
        BY <4>1, <2>4 DEF Bad
      <4>3. \A i \in indices \ upto(p), j \in upto(p) : j < i
        BY <1>3 DEF upto
      <4>. QED BY <4>2, <4>3, <1>2
    <3>. QED BY <3>1, <3>2
  <2>7. PICK low \in SUBSET indices :
          /\ Cardinality(low) = k - 1 /\ IsFiniteSet(low)
          /\ \A i \in indices \ low, j \in low : j < i
    BY <2>6
  <2>8. indices \ low # {}
    <3>1. k \in Nat /\ k <= Cardinality(indices)
      BY <2>5, <1>1
    <3>2. Cardinality(low) # Cardinality(indices)
      BY <3>1, <2>7, <1>1
    <3>3. SUFFICES ASSUME indices \ low = {} PROVE FALSE
      OBVIOUS
    <3>4. low = indices
      BY <3>3, <2>7
    <3>. QED BY <3>2, <3>4
  <2>9. PICK q \in indices \ low : \A m \in indices \ low : ~(<<m, q>> \in OpToRel(<, Nat))
    BY <2>8, <1>3, WFMin, NatLessThanWellFounded
  <2>10. ASSUME NEW m \in indices \ low PROVE q <= m
    <3>1. m \in Nat /\ q \in Nat
      BY <1>3
    <3>2. ~(<<m, q>> \in OpToRel(<, Nat))
      BY <2>9
    <3>. QED BY <3>1, <3>2 DEF OpToRel
  <2>11. upto(q) = low \cup {q}
    <3>1. \A j \in indices : j \in Nat
      BY <1>3
    <3>2. \A j \in low : j < q
      BY <2>7
    <3>3. \A j \in indices : j <= q <=> j \in low \/ j = q
      <4>1. SUFFICES ASSUME NEW j \in indices PROVE j <= q <=> j \in low \/ j = q
        OBVIOUS
      <4>2. CASE j \in low
        BY <4>2, <3>1, <3>2
      <4>3. CASE j \notin low
        BY <4>3, <3>1, <2>10
      <4>. QED BY <4>2, <4>3
    <3>. QED BY <3>3 DEF upto
  <2>12. Cardinality(upto(q)) = k
    BY <2>11, <2>7, FS_AddElement, <2>5, <1>1
  <2>. QED BY <2>12, <2>5
<1>5. \A k \in 1 .. Cardinality(indices) : \E i \in indices : Cardinality({j \in indices : j <= i}) = k
  BY <1>4 DEF upto
<1>. QED BY <1>1, <1>5 DEF nth

(* What is picked from a sequence is a sequence of its elements, none of   *)
(* them taken twice.                                                       *)
LEMMA PickIsPart ==
  ASSUME NEW S, NEW s \in Seq(S), NEW indices \in SUBSET DOMAIN s
  PROVE  /\ pick(s, indices) \in Seq(S)
         /\ \A k \in DOMAIN pick(s, indices) :
              nth(indices, k) \in indices /\ pick(s, indices)[k] = s[nth(indices, k)]
         /\ \A k, l \in DOMAIN pick(s, indices) :
              nth(indices, k) = nth(indices, l) => k = l
<1>1. Len(s) \in Nat /\ DOMAIN s = 1 .. Len(s) /\ s \in [1 .. Len(s) -> S]
  BY LenProperties
<1>2. /\ Cardinality(indices) \in Nat
      /\ \A k \in 1 .. Cardinality(indices) :
           /\ nth(indices, k) \in indices
           /\ Cardinality({j \in indices : j <= nth(indices, k)}) = k
  BY <1>1, NthIsThere
<1>3. pick(s, indices) \in [1 .. Cardinality(indices) -> S]
  BY <1>1, <1>2 DEF pick
<1>4. pick(s, indices) \in Seq(S) /\ DOMAIN pick(s, indices) = 1 .. Cardinality(indices)
  BY <1>2, <1>3, IsASeq
<1>5. \A k \in 1 .. Cardinality(indices) : pick(s, indices)[k] = s[nth(indices, k)]
  BY DEF pick
<1>6. ASSUME NEW k \in 1 .. Cardinality(indices), NEW l \in 1 .. Cardinality(indices),
             nth(indices, k) = nth(indices, l)
      PROVE  k = l
  BY <1>2, <1>6
<1>. QED BY <1>2, <1>4, <1>5, <1>6

(* The last elements of a sequence.                                        *)
LEMMA NewestIsPart ==
  ASSUME NEW S, NEW s \in Seq(S), NEW n \in Nat
  PROVE  newest(s, n) \in Seq(S)
<1>. DEFINE m == IF Len(s) > n THEN Len(s) - n + 1 ELSE 1
<1>1. Len(s) \in Nat /\ m \in 1 .. Len(s) + 1
  BY LenProperties
<1>2. \A i \in m .. Len(s) : i \in 1 .. Len(s)
  BY <1>1
<1>. HIDE DEF m
<1>3. SubSeq(s, m, Len(s)) \in Seq(S)
  BY <1>1, <1>2, SubSeqProperties
<1>. QED BY <1>3 DEF newest, m

(* The list of a browser with new ids, and what an ack adds to a list.     *)
LEMMA RememberedIsList ==
  ASSUME NEW s \in Seq(Id), NEW ids \in Seq(Id)
  PROVE  remembered(s, ids) \in Seq(Id)
<1>. DEFINE firsts == {i \in DOMAIN s : \A j \in DOMAIN s : j < i => s[j] # s[i]}
<1>1. firsts \in SUBSET DOMAIN s
  OBVIOUS
<1>. HIDE DEF firsts
<1>2. pick(s, firsts) \in Seq(Id)
  BY <1>1, PickIsPart
<1>3. once(s) \in Seq(Id)
  BY <1>2 DEF once, firsts
<1>4. once(s) \o ids \in Seq(Id)
  BY <1>3
<1>. QED BY <1>4, NewestIsPart, BrowserAssumption DEF remembered

LEMMA AddedIsList ==
  ASSUME NEW s \in Seq(Id), NEW i \in Id
  PROVE  newest(added(s, i), AnsweredKeep) \in Seq(Id)
<1>1. added(s, i) \in Seq(Id)
  BY DEF added
<1>. QED BY <1>1, NewestIsPart, KeepAssumption

LEMMA IdsOfList ==
  ASSUME NEW s \in Seq(Id)
  PROVE  idsOf(s) \in SUBSET Id
BY DEF idsOf

-----------------------------------------------------------------------------
(* The invariant at the beginning; the files                               *)

LEMMA MessageFacts ==
  /\ \A m \in Message : m.conv \in Conv /\ m.id \in Id /\ m.id \in Nat /\ m = msg(m.conv, m.id)
  /\ Conv # {} /\ Id \subseteq Nat
<1>1. \A m \in Message : m \in [conv : Conv, id : Nat]
  BY MessageAssumption
<1>2. \A m \in Message : m.id \in Nat /\ m = msg(m.conv, m.id)
  BY <1>1 DEF msg
<1>. QED BY <1>2, MessageAssumption DEF Conv, Id

LEMMA MsgSame == \A c, d, i, j : msg(c, i) = msg(d, j) <=> c = d /\ i = j
  BY DEF msg

LEMMA InitOK == Init => Inv
<1>. SUFFICES ASSUME Init PROVE Inv
  OBVIOUS
<1>1. FilesOK
  <2>1. DOMAIN <<>> = {} /\ <<>> \in Seq(Id)
    OBVIOUS
  <2>. QED BY <2>1 DEF Init, MailboxInit, FilesOK, Box
<1>2. RegistryOK
  <2>1. DOMAIN <<>> = {}
    OBVIOUS
  <2>. QED BY <2>1 DEF Init, MailboxInit, RegistryOK, Bindings
<1>3. NoClaim \in Claim /\ NoClaim.letters = <<>> /\ NoClaim.phase = "idle"
  <2>1. (CHOOSE c \in Conv : TRUE) \in Conv
    BY MessageFacts
  <2>. QED BY <2>1 DEF NoClaim, Claim
<1>4. ClaimsOK
  BY <1>3 DEF Init, MailboxInit, ClaimsOK, Apart, ChatsOnce
<1>5. ChainsOK
  <2>1. DOMAIN <<>> = {} /\ <<>> \in Seq(Id) /\ <<>> \in Seq(Letter)
    OBVIOUS
  <2>. QED BY <2>1 DEF Init, ChainsOK, Step, Waiting, Differ
<1>6. RestOK
  BY DayAssumption DEF Init, RestOK
<1>. QED BY <1>1, <1>2, <1>4, <1>5, <1>6 DEF Inv

(* A list of ids stays one when its chat gets more messages.               *)
LEMMA BoxStays ==
  ASSUME NEW c, NEW s, NEW A, NEW B, A \subseteq B, Box(c, s, A)
  PROVE  Box(c, s, B)
  BY DEF Box

-----------------------------------------------------------------------------
LEMMA FilesParked ==
  ASSUME Inv, NEW m \in Message, parkMessage(m)
  PROVE  FilesOK'
<1>1. m.conv \in Conv /\ m.id \in Id /\ m = msg(m.conv, m.id)
  BY MessageFacts
<1>. DEFINE c == m.conv
            box == mailbox[c]
<1>2. box \in Seq(Id) /\ Box(c, box, arrived) /\ Len(box) \in Nat /\ DOMAIN box = 1 .. Len(box)
  BY <1>1, LenProperties DEF Inv, FilesOK
<1>3. /\ Append(box, m.id) \in Seq(Id) /\ Len(Append(box, m.id)) = Len(box) + 1
      /\ \A i \in 1 .. Len(box) : Append(box, m.id)[i] = box[i]
      /\ Append(box, m.id)[Len(box) + 1] = m.id
      /\ DOMAIN Append(box, m.id) = 1 .. Len(box) + 1
  BY <1>1, <1>2, AppendProperties, LenProperties
<1>4. \A i \in 1 .. Len(box) : box[i] # m.id
  BY <1>1, <1>2 DEF Box, parkMessage
<1>5. arrived' = arrived \cup {m} /\ mailbox' = [mailbox EXCEPT ![c] = Append(box, m.id)]
  BY DEF parkMessage
<1>. HIDE DEF box
<1>6. Box(c, Append(box, m.id), arrived')
  <2>1. ASSUME NEW i \in 1 .. Len(box) + 1 PROVE msg(c, Append(box, m.id)[i]) \in arrived'
    <3>1. CASE i = Len(box) + 1
      BY <3>1, <1>1, <1>3, <1>5
    <3>2. CASE i # Len(box) + 1
      <4>1. i \in 1 .. Len(box)
        BY <3>2, <1>2
      <4>. QED BY <4>1, <1>2, <1>3, <1>5 DEF Box
    <3>. QED BY <3>1, <3>2
  <2>2. ASSUME NEW i \in 1 .. Len(box) + 1, NEW j \in 1 .. Len(box) + 1,
               Append(box, m.id)[i] = Append(box, m.id)[j]
        PROVE  i = j
    <3>1. CASE i \in 1 .. Len(box) /\ j \in 1 .. Len(box)
      BY <3>1, <2>2, <1>2, <1>3 DEF Box
    <3>2. CASE i = Len(box) + 1 /\ j \in 1 .. Len(box)
      BY <3>2, <2>2, <1>3, <1>4
    <3>3. CASE j = Len(box) + 1 /\ i \in 1 .. Len(box)
      BY <3>3, <2>2, <1>3, <1>4
    <3>. QED BY <3>1, <3>2, <3>3, <1>2
  <2>. QED BY <2>1, <2>2, <1>3 DEF Box
<1>7. mailbox' \in [Conv -> Seq(Id)]
  BY <1>1, <1>3, <1>5 DEF Inv, FilesOK
<1>8. \A d \in Conv : Box(d, mailbox'[d], arrived')
  <2>1. SUFFICES ASSUME NEW d \in Conv PROVE Box(d, mailbox'[d], arrived')
    OBVIOUS
  <2>2. CASE d = c
    BY <2>2, <1>5, <1>6 DEF Inv, FilesOK, Box
  <2>3. CASE d # c
    <3>1. mailbox'[d] = mailbox[d] /\ Box(d, mailbox[d], arrived)
      BY <2>3, <1>5 DEF Inv, FilesOK
    <3>. QED BY <3>1, <1>5 DEF Box
  <2>. QED BY <2>2, <2>3
<1>9. UNCHANGED <<tmp, answered, draft, overwritten, acks>>
  BY DEF parkMessage, answers
<1>10. /\ \A d \in DOMAIN tmp : Box(d, tmp[d], arrived')
       /\ \A a \in acks : a.phase = "write" => Box(a.conv, a.list, arrived')
  BY <1>5, <1>9 DEF Inv, FilesOK, Box
<1>. QED BY <1>5, <1>7, <1>8, <1>9, <1>10 DEF Inv, FilesOK

LEMMA FilesAckStarted ==
  ASSUME Inv, NEW t \in Tab, NEW m \in Message, startAck(t, m)
  PROVE  FilesOK'
<1>1. m.conv \in Conv /\ m.id \in Id
  BY MessageFacts
<1>. DEFINE box == mailbox[m.conv]
            left == {i \in DOMAIN box : box[i] # m.id}
            ack == [tab |-> t, conv |-> m.conv, id |-> m.id, phase |-> "write",
                    list |-> pick(box, left)]
<1>2. box \in Seq(Id) /\ Box(m.conv, box, arrived)
  BY <1>1 DEF Inv, FilesOK
<1>3. /\ pick(box, left) \in Seq(Id)
      /\ \A k \in DOMAIN pick(box, left) :
           nth(left, k) \in left /\ pick(box, left)[k] = box[nth(left, k)]
      /\ \A k, l \in DOMAIN pick(box, left) : nth(left, k) = nth(left, l) => k = l
  <2>1. left \in SUBSET DOMAIN box
    OBVIOUS
  <2>. HIDE DEF left, box
  <2>. QED BY <1>2, <2>1, PickIsPart
<1>4. Box(m.conv, pick(box, left), arrived)
  BY <1>2, <1>3 DEF Box
<1>5. acks' = acks \cup {ack}
  BY DEF startAck
<1>6. ack \in Ack
  BY <1>1, <1>3 DEF Ack
<1>7. ack.conv = m.conv /\ ack.list = pick(box, left)
  OBVIOUS
<1>. HIDE DEF ack, box, left
<1>8. \A a \in acks' : a \in Ack /\ (a.phase = "write" => Box(a.conv, a.list, arrived))
  BY <1>4, <1>5, <1>6, <1>7 DEF Inv, FilesOK
<1>9. UNCHANGED files
  BY DEF startAck
<1>. QED BY <1>8, <1>9 DEF Inv, FilesOK, files, answers, Box

(* What becomes of the request of an ack that is handled on.               *)
LEMMA AckGoesOn ==
  ASSUME Inv, NEW a \in acks, NEW what \in {"rename", "read", "mark", "replace"},
         NEW s \in Seq(Id), UNCHANGED arrived,
         acks' = (acks \ {a}) \cup {[a EXCEPT !.phase = what, !.list = s]}
  PROVE  acks' \subseteq Ack /\ \A c \in acks' : c.phase = "write" => Box(c.conv, c.list, arrived')
<1>. DEFINE b == [a EXCEPT !.phase = what, !.list = s]
<1>1. a \in Ack
  BY DEF Inv, FilesOK
<1>2. b \in Ack /\ b.phase = what /\ what # "write"
  BY <1>1 DEF Ack
<1>. HIDE DEF b
<1>3. acks' = (acks \ {a}) \cup {b}
  BY DEF b
<1>. QED BY <1>2, <1>3 DEF Inv, FilesOK

LEMMA AckEnds ==
  ASSUME Inv, NEW a \in acks, UNCHANGED arrived, over(a)
  PROVE  acks' \subseteq Ack /\ \A c \in acks' : c.phase = "write" => Box(c.conv, c.list, arrived')
BY DEF Inv, FilesOK, over

LEMMA FilesAcked ==
  ASSUME Inv, ackMessages
  PROVE  FilesOK'
<1>1. PICK a \in acks : \/ writeTmp(a) \/ renameTmp(a)
                        \/ readAnswered(a) \/ markAnswered(a) \/ replaceAnswered(a)
  BY DEF ackMessages
<1>. DEFINE c == a.conv
            acksOK == acks' \subseteq Ack /\ \A d \in acks' : d.phase = "write" => Box(d.conv, d.list, arrived')
<1>2. /\ a \in Ack /\ c \in Conv /\ a.id \in Id /\ a.list \in Seq(Id)
      /\ a = [a EXCEPT !.list = a.list]
  BY DEF Inv, FilesOK, Ack
<1>3. <<>> \in Seq(Id)
  OBVIOUS
<1>4. ASSUME writeTmp(a) PROVE FilesOK'
  <2>1. /\ tmp' = Put(tmp, c, a.list) /\ a.phase = "write"
        /\ acks' = (acks \ {a}) \cup {[a EXCEPT !.phase = "rename", !.list = <<>>]}
        /\ UNCHANGED <<arrived, mailbox, answered, draft, overwritten>>
    BY <1>4 DEF writeTmp, Acking, answers
  <2>2. acksOK
    BY <1>3, <2>1, AckGoesOn
  <2>3. Box(c, a.list, arrived)
    BY <2>1 DEF Inv, FilesOK
  <2>. HIDE DEF c
  <2>4. DOMAIN tmp' \subseteq Conv /\ \A d \in DOMAIN tmp' : Box(d, tmp'[d], arrived)
    BY <1>2, <2>1, <2>3 DEF Inv, FilesOK, Put
  <2>. QED BY <2>1, <2>2, <2>4 DEF Inv, FilesOK
<1>5. ASSUME renameTmp(a), c \in DOMAIN tmp PROVE FilesOK'
  <2>. DEFINE lost == idsOf(mailbox[c]) \ (idsOf(tmp[c]) \cup {d.id : d \in {d \in acks : d.conv = c}})
  <2>1. /\ mailbox' = [mailbox EXCEPT ![c] = tmp[c]] /\ tmp' = Remove(tmp, c)
        /\ overwritten' = overwritten \cup {msg(c, i) : i \in lost}
        /\ acks' = (acks \ {a}) \cup {[a EXCEPT !.phase = "read"]}
        /\ UNCHANGED <<arrived, answered, draft>>
    BY <1>5 DEF renameTmp, Acking, answers
  <2>2. [a EXCEPT !.phase = "read"] = [a EXCEPT !.phase = "read", !.list = a.list]
    BY <1>2 DEF Ack
  <2>3. acksOK
    BY <1>2, <2>1, <2>2, AckGoesOn
  <2>. HIDE DEF c
  <2>4. DOMAIN tmp' \subseteq Conv /\ \A d \in DOMAIN tmp' : Box(d, tmp'[d], arrived)
    BY <2>1 DEF Inv, FilesOK, Remove
  <2>5. Box(c, tmp[c], arrived) /\ tmp[c] \in Seq(Id)
    BY <1>5 DEF Inv, FilesOK, Box
  <2>6. mailbox' \in [Conv -> Seq(Id)] /\ \A d \in Conv : Box(d, mailbox'[d], arrived)
    BY <1>2, <2>1, <2>5 DEF Inv, FilesOK
  <2>7. overwritten' \subseteq Message
    <3>1. ASSUME NEW i \in idsOf(mailbox[c]) PROVE msg(c, i) \in Message
      BY <1>2 DEF Inv, FilesOK, Box, idsOf
    <3>. QED BY <3>1, <2>1 DEF Inv, FilesOK
  <2>. QED BY <2>1, <2>3, <2>4, <2>6, <2>7 DEF Inv, FilesOK
<1>6. ASSUME renameTmp(a), c \notin DOMAIN tmp PROVE FilesOK'
  <2>1. over(a) /\ UNCHANGED <<mailbox, tmp, overwritten, arrived, answered, draft>>
    BY <1>6 DEF renameTmp, answers
  <2>2. acksOK
    BY <2>1, AckEnds
  <2>. QED BY <2>1, <2>2 DEF Inv, FilesOK
<1>7. ASSUME readAnswered(a) PROVE FilesOK'
  <2>. DEFINE s == newest(added(answered[c], a.id), AnsweredKeep)
  <2>1. answered[c] \in Seq(Id)
    BY <1>2 DEF Inv, FilesOK
  <2>2. s \in Seq(Id)
    BY <1>2, <2>1, AddedIsList
  <2>3. acks' = (acks \ {a}) \cup {[a EXCEPT !.phase = "mark", !.list = s]} /\ UNCHANGED files
    BY <1>7 DEF readAnswered, Acking
  <2>. HIDE DEF s
  <2>4. acksOK
    BY <2>2, <2>3, AckGoesOn DEF files
  <2>. QED BY <2>3, <2>4 DEF Inv, FilesOK, files, answers
<1>8. ASSUME markAnswered(a) PROVE FilesOK'
  <2>1. /\ draft' = Put(draft, c, a.list)
        /\ acks' = (acks \ {a}) \cup {[a EXCEPT !.phase = "replace", !.list = <<>>]}
        /\ UNCHANGED <<arrived, mailbox, tmp, answered, overwritten>>
    BY <1>8 DEF markAnswered, Acking
  <2>2. acksOK
    BY <1>3, <2>1, AckGoesOn
  <2>. HIDE DEF c
  <2>3. DOMAIN draft' \subseteq Conv /\ \A d \in DOMAIN draft' : draft'[d] \in Seq(Id)
    BY <1>2, <2>1 DEF Inv, FilesOK, Put
  <2>. QED BY <2>1, <2>2, <2>3 DEF Inv, FilesOK
<1>9. ASSUME replaceAnswered(a) PROVE FilesOK'
  <2>1. over(a) /\ UNCHANGED <<arrived, mailbox, tmp, overwritten>>
    BY <1>9 DEF replaceAnswered
  <2>2. acksOK
    BY <2>1, AckEnds
  <2>3. CASE c \in DOMAIN draft
    <3>1. answered' = [answered EXCEPT ![c] = draft[c]] /\ draft' = Remove(draft, c)
      BY <1>9, <2>3 DEF replaceAnswered
    <3>. HIDE DEF c
    <3>2. answered' \in [Conv -> Seq(Id)]
      BY <1>2, <2>3, <3>1 DEF Inv, FilesOK
    <3>3. DOMAIN draft' \subseteq Conv /\ \A d \in DOMAIN draft' : draft'[d] \in Seq(Id)
      BY <3>1 DEF Inv, FilesOK, Remove
    <3>. QED BY <2>1, <2>2, <3>2, <3>3 DEF Inv, FilesOK
  <2>4. CASE c \notin DOMAIN draft
    <3>1. UNCHANGED <<answered, draft>>
      BY <1>9, <2>4 DEF replaceAnswered, answers
    <3>. QED BY <2>1, <2>2, <3>1 DEF Inv, FilesOK
  <2>. QED BY <2>3, <2>4
<1>. QED BY <1>1, <1>4, <1>5, <1>6, <1>7, <1>8, <1>9

(* The message a tab is at, one that arrived.                              *)
LEMMA AtMessage ==
  ASSUME Inv, NEW t \in Tab, chain[t] # <<>>
  PROVE  /\ chain[t] \in Seq(Letter) /\ Len(chain[t]) \in Nat /\ Len(chain[t]) > 0
         /\ DOMAIN chain[t] = 1 .. Len(chain[t])
         /\ first(t) = chain[t][1] /\ 1 \in DOMAIN chain[t] /\ first(t) \in Letter
         /\ message(t) = about(chain[t][1]) /\ message(t) \in arrived /\ message(t) \in Message
         /\ BrowserOf[t] \in Browser
<1>1. chain[t] \in Seq(Letter)
  BY DEF Inv, ChainsOK
<1>2. Len(chain[t]) \in Nat /\ DOMAIN chain[t] = 1 .. Len(chain[t]) /\ Len(chain[t]) # 0
  BY <1>1, LenProperties, EmptySeq
<1>3. 1 \in DOMAIN chain[t] /\ first(t) = chain[t][1] /\ first(t) \in Letter
  BY <1>1, <1>2, HeadTailProperties, ElementOfSeq DEF first
<1>4. about(chain[t][1]) \in arrived
  BY <1>3 DEF Inv, ChainsOK, Waiting
<1>. QED BY <1>1, <1>2, <1>3, <1>4, BrowserAssumption DEF message, Inv, FilesOK

(* Every step either does what is named first or leaves the files alone.   *)
LEMMA FilesStep ==
  ASSUME Inv, [Next]_vars
  PROVE  FilesOK'
<1>1. ASSUME Park PROVE FilesOK'
  <2>1. day.sent \subseteq Message
    BY DayAssumption DEF Inv, RestOK
  <2>. QED BY <1>1, <2>1, FilesParked DEF Park
<1>2. ASSUME ackMessages PROVE FilesOK'
  BY <1>2, FilesAcked
<1>3. ASSUME NEW t \in Tab, postAck(t) PROVE FilesOK'
  <2>1. chain[t] # <<>> /\ startAck(t, message(t))
    BY <1>3 DEF postAck, Doing
  <2>. QED BY <2>1, AtMessage, FilesAckStarted
<1>4. ASSUME restartChannel PROVE FilesOK'
  <2>1. UNCHANGED files /\ acks' = {}
    BY <1>4 DEF restartChannel, restart
  <2>. QED BY <2>1 DEF Inv, FilesOK, files, answers
<1>5. ASSUME UNCHANGED <<files, acks>> PROVE FilesOK'
  BY <1>5 DEF Inv, FilesOK, files, answers
<1>6. ASSUME ChannelStep PROVE ackMessages \/ UNCHANGED <<files, acks>>
  BY <1>6 DEF ChannelStep, startSweep, save, saveBindings, silence, expire
<1>7. ASSUME FaultStep PROVE restartChannel \/ UNCHANGED <<files, acks>>
  BY <1>7 DEF FaultStep, suspend, wake, reload, relayFails, mailboxVars
<1>8. ASSUME NEW t \in Tab, TabStep(t) PROVE postAck(t) \/ UNCHANGED <<files, acks>>
  BY <1>8 DEF TabStep, bridgeTick, startClaim, receiveClaim, runTurn, relay, ackDone, mailboxVars
<1>9. ASSUME NEW t \in Tab, InboxStep(t) PROVE UNCHANGED <<files, acks>>
  BY <1>9 DEF InboxStep, checkChat, readChat, dropClaim
<1>10. ASSUME UNCHANGED vars PROVE UNCHANGED <<files, acks>>
  BY <1>10 DEF vars, mailboxVars
<1>. QED BY <1>1, <1>2, <1>3, <1>4, <1>5, <1>6, <1>7, <1>8, <1>9, <1>10 DEF Next

-----------------------------------------------------------------------------
(* Bindings                                                                *)

LEMMA BindingFacts ==
  ASSUME NEW p \in Profile, NEW e \in Nat, NEW l \in BOOLEAN
  PROVE  [profile |-> p, live |-> l, epoch |-> e] \in Binding
  BY DEF Binding

(* A binding keeps its profile while only its liveness changes.            *)
LEMMA Liveness ==
  ASSUME NEW b \in Binding, NEW l \in BOOLEAN
  PROVE  /\ [b EXCEPT !.live = l] \in Binding
         /\ [b EXCEPT !.live = l].profile = b.profile
  BY DEF Binding

(* What a step does to a live binding: a restart of the channel apart, it  *)
(* stays with its profile.                                                 *)
Stays == \A c \in DOMAIN bindings :
  bindings[c].live => c \in DOMAIN bindings' /\ bindings'[c].profile = bindings[c].profile

LEMMA Beaten ==
  ASSUME Inv, NEW p, beatProfile(p)
  PROVE  Bindings(bindings') /\ saving' \in BOOLEAN /\ Stays
<1>. DEFINE mine == {c \in DOMAIN bindings : bindings[c].profile = p}
<1>1. bindings' = [c \in DOMAIN bindings |-> [bindings[c] EXCEPT !.live = @ \/ c \in mine]]
  BY DEF beatProfile
<1>2. ASSUME NEW c \in DOMAIN bindings
      PROVE  bindings'[c] \in Binding /\ bindings'[c].profile = bindings[c].profile
  <2>1. bindings[c] \in Binding /\ bindings[c].live \in BOOLEAN
    BY DEF Inv, RegistryOK, Bindings, Binding
  <2>2. bindings'[c] = [bindings[c] EXCEPT !.live = bindings[c].live \/ c \in mine]
    BY <1>1
  <2>. QED BY <2>1, <2>2, Liveness
<1>3. DOMAIN bindings' = DOMAIN bindings
  BY <1>1
<1>4. saving' \in BOOLEAN
  BY DEF beatProfile, Inv, RegistryOK
<1>. QED BY <1>2, <1>3, <1>4 DEF Inv, RegistryOK, Bindings, Stays

LEMMA Bound ==
  ASSUME Inv, NEW t \in Tab, claim[t].phase = "read", NEW c \in Conv, bind(t, c)
  PROVE  /\ Bindings(bindings') /\ Stays
         /\ c \in DOMAIN bindings' /\ bindings'[c].epoch \in Nat
<1>1. CASE c \in DOMAIN bindings
  <2>1. bindings' = [bindings EXCEPT ![c].live = TRUE]
    BY <1>1 DEF bind
  <2>2. DOMAIN bindings' = DOMAIN bindings
    BY <2>1
  <2>3. ASSUME NEW d \in DOMAIN bindings
        PROVE  bindings'[d] \in Binding /\ bindings'[d].profile = bindings[d].profile
    <3>1. bindings[d] \in Binding
      BY DEF Inv, RegistryOK, Bindings
    <3>2. bindings'[d] = IF d = c THEN [bindings[d] EXCEPT !.live = TRUE] ELSE bindings[d]
      BY <2>1
    <3>. QED BY <3>1, <3>2, Liveness
  <2>. QED BY <1>1, <2>2, <2>3 DEF Inv, RegistryOK, Bindings, Stays, Binding
<1>2. CASE c \notin DOMAIN bindings
  <2>. DEFINE b == [profile |-> ProfileOf[t], live |-> TRUE, epoch |-> claim[t].handover + 1]
  <2>1. b \in Binding /\ b.epoch \in Nat
    <3>1. claim[t].handover \in Nat \cup {-1}
      BY DEF Inv, ClaimsOK, Claim
    <3>2. claim[t].handover + 1 \in Nat
      BY <3>1
    <3>. QED BY <3>2, ProfileAssumption, BindingFacts
  <2>. HIDE DEF b
  <2>2. bindings' = Put(bindings, c, b)
    BY <1>2 DEF bind, b
  <2>. QED BY <1>2, <2>1, <2>2 DEF Put, Inv, RegistryOK, Bindings, Stays
<1>. QED BY <1>1, <1>2

-----------------------------------------------------------------------------
(* A step and the bindings: all but a restart of the channel keep live ones *)

(* A chat that is looked at loses its binding only if that expired.        *)
LEMMA Looked ==
  ASSUME Inv, NEW t \in Tab, NEW c \in Conv, checkChat(t, c)
  PROVE  RegistryOK' /\ Stays
<1>1. UNCHANGED <<stored, saving>>
  BY DEF checkChat
<1>2. CASE UNCHANGED bindings
  BY <1>1, <1>2 DEF Inv, RegistryOK, Bindings, Stays
<1>3. CASE foreign(t, c) /\ ~bindings[c].live /\ bindings' = Remove(bindings, c)
  BY <1>1, <1>3 DEF Inv, RegistryOK, Bindings, Remove, Stays
<1>. QED BY <1>2, <1>3 DEF checkChat

LEMMA Read ==
  ASSUME Inv, NEW t \in Tab, readChat(t)
  PROVE  RegistryOK' /\ Stays
<1>1. claim[t].phase = "read" /\ claim[t].at \in Conv /\ UNCHANGED stored
  BY DEF readChat, Inv, ClaimsOK, Claim
<1>2. CASE UNCHANGED <<bindings, saving>>
  BY <1>1, <1>2 DEF Inv, RegistryOK, Bindings, Stays
<1>3. CASE bind(t, claim[t].at) /\ saving' = (saving \/ claim[t].at \notin DOMAIN bindings)
  <2>1. Bindings(bindings') /\ Stays
    BY <1>1, <1>3, Bound
  <2>. QED BY <1>1, <1>3, <2>1 DEF Inv, RegistryOK, Bindings
<1>. QED BY <1>2, <1>3 DEF readChat

LEMMA Swept ==
  ASSUME Inv, startSweep
  PROVE  RegistryOK' /\ Stays
<1>1. /\ bindings' = [c \in DOMAIN bindings \ expired |-> bindings[c]]
      /\ saving' = TRUE /\ UNCHANGED stored
  BY DEF startSweep
<1>2. DOMAIN bindings' = DOMAIN bindings \ expired
  BY <1>1
<1>. QED BY <1>1, <1>2 DEF Inv, RegistryOK, Bindings, Stays, expired

LEMMA Saved ==
  ASSUME Inv, saveBindings
  PROVE  RegistryOK' /\ Stays
BY DEF saveBindings, Inv, RegistryOK, Bindings, Stays

LEMMA Expired ==
  ASSUME Inv, NEW c \in Conv, expire(c)
  PROVE  RegistryOK' /\ Stays
<1>1. /\ c \in DOMAIN bindings /\ bindings' = [bindings EXCEPT ![c].live = FALSE]
      /\ UNCHANGED <<stored, saving>>
  BY DEF expire
<1>2. ASSUME NEW d \in DOMAIN bindings
      PROVE  bindings'[d] \in Binding /\ bindings'[d].profile = bindings[d].profile
  <2>1. bindings[d] \in Binding
    BY DEF Inv, RegistryOK, Bindings
  <2>2. bindings'[d] = IF d = c THEN [bindings[d] EXCEPT !.live = FALSE] ELSE bindings[d]
    BY <1>1
  <2>. QED BY <2>1, <2>2, Liveness
<1>3. DOMAIN bindings' = DOMAIN bindings
  BY <1>1
<1>. QED BY <1>1, <1>2, <1>3 DEF Inv, RegistryOK, Bindings, Stays

LEMMA Restarted ==
  ASSUME Inv, restart
  PROVE  RegistryOK'
<1>1. PICK late \in SUBSET DOMAIN stored :
        bindings' = [c \in DOMAIN stored |-> [stored[c] EXCEPT !.live = @ /\ c \notin late]]
  BY DEF restart
<1>2. saving' = FALSE /\ UNCHANGED stored
  BY DEF restart
<1>3. ASSUME NEW c \in DOMAIN stored PROVE bindings'[c] \in Binding
  <2>1. stored[c] \in Binding /\ stored[c].live \in BOOLEAN
    BY DEF Inv, RegistryOK, Bindings, Binding
  <2>2. bindings'[c] = [stored[c] EXCEPT !.live = stored[c].live /\ c \notin late]
    BY <1>1
  <2>. QED BY <2>1, <2>2, Liveness
<1>4. DOMAIN bindings' = DOMAIN stored
  BY <1>1
<1>. QED BY <1>2, <1>3, <1>4 DEF Inv, RegistryOK, Bindings

LEMMA RegistryStep ==
  ASSUME Inv, [Next]_vars
  PROVE  RegistryOK' /\ (restartChannel \/ Stays)
<1>1. ASSUME UNCHANGED registry PROVE RegistryOK' /\ Stays
  BY <1>1 DEF Inv, RegistryOK, Bindings, Stays, registry
<1>2. ASSUME ChannelStep PROVE RegistryOK' /\ Stays
  <2>1. CASE ackMessages
    BY <1>1, <2>1
    DEF ackMessages, writeTmp, renameTmp, readAnswered, markAnswered, replaceAnswered
  <2>2. CASE startSweep
    BY <2>2, Swept
  <2>3. CASE save
    BY <2>3, Saved DEF save
  <2>4. CASE \E c \in Conv : silence(c)
    BY <2>4, Expired DEF silence
  <2>. QED BY <1>2, <2>1, <2>2, <2>3, <2>4 DEF ChannelStep
<1>3. ASSUME NEW t \in Tab, InboxStep(t) PROVE RegistryOK' /\ Stays
  <2>1. CASE \E c \in Conv : checkChat(t, c)
    BY <2>1, Looked
  <2>2. CASE readChat(t)
    BY <2>2, Read
  <2>3. CASE dropClaim(t)
    BY <1>1, <2>3 DEF dropClaim
  <2>. QED BY <1>3, <2>1, <2>2, <2>3 DEF InboxStep
<1>4. ASSUME NEW t \in Tab, TabStep(t) PROVE RegistryOK' /\ Stays
  <2>1. CASE receiveClaim(t)
    <3>1. beatProfile(ProfileOf[t]) /\ UNCHANGED stored
      BY <2>1 DEF receiveClaim
    <3>2. Bindings(bindings') /\ saving' \in BOOLEAN /\ Stays
      BY <3>1, Beaten
    <3>. QED BY <3>1, <3>2 DEF Inv, RegistryOK, Bindings
  <2>2. CASE ~receiveClaim(t)
    BY <1>1, <1>4, <2>2
    DEF TabStep, bridgeTick, startClaim, runTurn, relay, postAck, startAck, ackDone, mailboxVars
  <2>. QED BY <2>1, <2>2
<1>5. ASSUME FaultStep, ~restartChannel PROVE RegistryOK' /\ Stays
  BY <1>1, <1>5 DEF FaultStep, suspend, wake, reload, relayFails, mailboxVars
<1>6. ASSUME restartChannel PROVE RegistryOK'
  BY <1>6, Restarted DEF restartChannel
<1>7. ASSUME Park PROVE RegistryOK' /\ Stays
  BY <1>1, <1>7 DEF Park, parkMessage
<1>8. ASSUME UNCHANGED vars PROVE RegistryOK' /\ Stays
  BY <1>1, <1>8 DEF vars, mailboxVars
<1>. QED BY <1>2, <1>3, <1>4, <1>5, <1>6, <1>7, <1>8 DEF Next

-----------------------------------------------------------------------------
(* A step and the inbox requests                                           *)

LEMMA Joined ==
  ASSUME NEW S, NEW a \in Seq(S), NEW b \in Seq(S), Apart(a), Apart(b),
         \A i \in DOMAIN a, j \in DOMAIN b : about(a[i]) # about(b[j])
  PROVE  a \o b \in Seq(S) /\ Apart(a \o b)
<1>1. /\ Len(a) \in Nat /\ Len(b) \in Nat /\ DOMAIN a = 1 .. Len(a) /\ DOMAIN b = 1 .. Len(b)
      /\ a \o b \in Seq(S) /\ DOMAIN (a \o b) = 1 .. Len(a) + Len(b)
  BY LenProperties
<1>2. \A i \in 1 .. Len(a) + Len(b) : (a \o b)[i] = IF i <= Len(a) THEN a[i] ELSE b[i - Len(a)]
  OBVIOUS
<1>3. ASSUME NEW i \in DOMAIN (a \o b)
      PROVE  \/ i \in DOMAIN a /\ (a \o b)[i] = a[i]
             \/ i \notin DOMAIN a /\ i - Len(a) \in DOMAIN b /\ (a \o b)[i] = b[i - Len(a)]
  BY <1>1, <1>2
<1>4. \A i \in DOMAIN (a \o b) : about((a \o b)[i]) \in arrived
  BY <1>3 DEF Apart
<1>5. ASSUME NEW i \in DOMAIN (a \o b), NEW j \in DOMAIN (a \o b),
             about((a \o b)[i]) = about((a \o b)[j])
      PROVE  i = j
  <2>1. i \in Nat /\ j \in Nat
    BY <1>1
  <2>2. CASE i \in DOMAIN a /\ j \in DOMAIN a
    BY <1>1, <1>3, <1>5, <2>2 DEF Apart
  <2>3. CASE i \notin DOMAIN a /\ j \notin DOMAIN a
    <3>1. i - Len(a) = j - Len(a)
      BY <1>3, <1>5, <2>3 DEF Apart
    <3>. QED BY <1>1, <2>1, <3>1
  <2>4. CASE (i \in DOMAIN a) # (j \in DOMAIN a)
    BY <1>3, <1>5, <2>4
  <2>. QED BY <2>2, <2>3, <2>4
<1>. QED BY <1>1, <1>4, <1>5 DEF Apart

LEMMA NoClaimOK ==
  /\ NoClaim \in Claim /\ NoClaim.letters = <<>> /\ NoClaim.phase = "idle"
  /\ NoClaim.todo = {}
<1>1. (CHOOSE c \in Conv : TRUE) \in Conv
  BY MessageFacts
<1>. QED BY <1>1 DEF NoClaim, Claim

(* One request changes, to one that is well formed.                        *)
LEMMA OneClaim ==
  ASSUME Inv, UNCHANGED arrived, NEW t \in Tab, NEW r \in Claim, Apart(r.letters), ChatsOnce(r),
         claim' = [claim EXCEPT ![t] = r]
  PROVE  ClaimsOK'
<1>1. claim' \in [Tab -> Claim] /\ \A u \in Tab : claim'[u] = IF u = t THEN r ELSE claim[u]
  BY DEF Inv, ClaimsOK
<1>2. \A u \in Tab : Apart(claim'[u].letters) /\ ChatsOnce(claim'[u])
  BY <1>1 DEF Inv, ClaimsOK
<1>. QED BY <1>1, <1>2 DEF ClaimsOK, Apart, ChatsOnce

LEMMA ClaimFields ==
  ASSUME NEW r \in Claim
  PROVE  /\ r.phase \in {"idle", "scan", "read"} /\ r.wanted \in BOOLEAN /\ r.todo \in SUBSET Conv
         /\ r.at \in Conv /\ r.handover \in Nat \cup {-1} /\ r.letters \in Seq(Letter)
         /\ r.answered \in SUBSET Id
BY DEF Claim

LEMMA ClaimStarted ==
  ASSUME Inv, NEW t \in Tab, startClaim(t)
  PROVE  ClaimsOK'
<1>. DEFINE r == [NoClaim EXCEPT !.phase = "scan", !.todo = pendingConvs]
<1>1. pendingConvs \in SUBSET Conv
  BY MessageFacts DEF pendingConvs, Inv, FilesOK
<1>2. r \in Claim /\ r.letters = <<>> /\ r.phase = "scan"
  BY <1>1, NoClaimOK DEF Claim
<1>3. Apart(r.letters) /\ ChatsOnce(r)
  BY <1>2 DEF Apart, ChatsOnce
<1>4. claim' = [claim EXCEPT ![t] = r] /\ UNCHANGED arrived
  BY DEF startClaim, files
<1>. QED BY <1>2, <1>3, <1>4, OneClaim

LEMMA ClaimLooked ==
  ASSUME Inv, NEW t \in Tab, NEW c \in Conv, c \in claim[t].todo, checkChat(t, c)
  PROVE  ClaimsOK'
<1>1. claim[t] \in Claim /\ Apart(claim[t].letters) /\ ChatsOnce(claim[t])
  BY DEF Inv, ClaimsOK
<1>2. UNCHANGED arrived /\ claim[t].phase = "scan"
  BY DEF checkChat, files
<1>3. CASE claim' = [claim EXCEPT ![t].todo = @ \ {c}]
  <2>. DEFINE r == [claim[t] EXCEPT !.todo = claim[t].todo \ {c}]
  <2>1. /\ r \in Claim /\ r.letters = claim[t].letters /\ r.phase = claim[t].phase
        /\ r.todo = claim[t].todo \ {c} /\ r.at = claim[t].at
    BY <1>1 DEF Claim
  <2>2. claim' = [claim EXCEPT ![t] = r]
    BY <1>3
  <2>. HIDE DEF r
  <2>3. Apart(r.letters) /\ ChatsOnce(r)
    BY <1>1, <1>2, <2>1 DEF ChatsOnce
  <2>. QED BY <1>2, <2>1, <2>2, <2>3, OneClaim
<1>4. CASE ~(foreign(t, c) /\ bindings[c].live)
  <2>. DEFINE h == IF foreign(t, c) THEN bindings[c].epoch ELSE -1
              r == [claim[t] EXCEPT !.phase = "read", !.at = c, !.todo = claim[t].todo \ {c},
                                    !.handover = h]
  <2>1. h \in Nat \cup {-1}
    <3>1. foreign(t, c) => bindings[c] \in Binding
      BY DEF foreign, Inv, RegistryOK, Bindings
    <3>. QED BY <3>1 DEF Binding
  <2>2. claim' = [claim EXCEPT ![t] = r]
    BY <1>4 DEF checkChat
  <2>. HIDE DEF h
  <2>3. /\ r \in Claim /\ r.letters = claim[t].letters /\ r.phase = "read"
        /\ r.todo = claim[t].todo \ {c} /\ r.at = c
    BY <1>1, <2>1 DEF Claim
  <2>. HIDE DEF r
  <2>4. Apart(r.letters) /\ ChatsOnce(r)
    BY <1>1, <1>2, <2>3 DEF ChatsOnce
  <2>. QED BY <1>2, <2>2, <2>3, <2>4, OneClaim
<1>. QED BY <1>3, <1>4 DEF checkChat

LEMMA ClaimRead ==
  ASSUME Inv, NEW t \in Tab, readChat(t)
  PROVE  ClaimsOK'
<1>. DEFINE c == claim[t].at
            waiting == mailbox[c]
<1>1. claim[t] \in Claim /\ Apart(claim[t].letters) /\ ChatsOnce(claim[t])
  BY DEF Inv, ClaimsOK
<1>2. /\ UNCHANGED arrived /\ claim[t].phase = "read" /\ c \in Conv
      /\ claim[t].letters \in Seq(Letter)
  BY <1>1, ClaimFields DEF readChat, files
<1>3. CASE claim' = [claim EXCEPT ![t] = [@ EXCEPT !.phase = "scan", !.handover = -1]]
  <2>. DEFINE r == [claim[t] EXCEPT !.phase = "scan", !.handover = -1]
  <2>1. /\ r \in Claim /\ r.letters = claim[t].letters /\ r.phase = "scan"
        /\ r.todo = claim[t].todo
    BY <1>1 DEF Claim
  <2>2. claim' = [claim EXCEPT ![t] = r]
    BY <1>3
  <2>. HIDE DEF r
  <2>3. Apart(r.letters) /\ ChatsOnce(r)
    BY <1>1, <2>1 DEF ChatsOnce
  <2>. QED BY <1>2, <2>1, <2>2, <2>3, OneClaim
<1>4. CASE waiting # <<>>
  <2>. DEFINE e == bindings'[c].epoch
              new == [i \in DOMAIN waiting |-> [conv |-> c, id |-> waiting[i], epoch |-> e]]
              all == claim[t].letters \o new
              past == claim[t].answered \cup idsOf(answered[c])
              r == [claim[t] EXCEPT !.phase = "scan", !.handover = -1,
                                    !.letters = all, !.answered = past]
  <2>1. bind(t, c) /\ claim' = [claim EXCEPT ![t] = r]
    BY <1>4 DEF readChat
  <2>2. e \in Nat
    BY <1>2, <2>1, Bound
  <2>. HIDE DEF e
  <2>3. Box(c, waiting, arrived) /\ waiting \in Seq(Id)
    BY <1>2 DEF Inv, FilesOK
  <2>4. new \in Seq(Letter)
    <3>1. DOMAIN waiting = 1 .. Len(waiting) /\ Len(waiting) \in Nat
      BY <2>3, LenProperties
    <3>2. \A i \in DOMAIN waiting : new[i] \in Letter
      BY <1>2, <2>2, <2>3, <3>1 DEF Letter
    <3>3. DOMAIN new = DOMAIN waiting
      OBVIOUS
    <3>. HIDE DEF new
    <3>4. new \in [1 .. Len(waiting) -> Letter]
      <4>1. new = [i \in DOMAIN waiting |-> new[i]]
        BY DEF new
      <4>. QED BY <3>1, <3>2, <4>1
    <3>. QED BY <3>1, <3>4
  <2>5. /\ DOMAIN new = DOMAIN waiting
        /\ \A i \in DOMAIN new : about(new[i]) = msg(c, waiting[i]) /\ new[i].conv = c
    BY DEF about
  <2>. HIDE DEF new
  <2>6. Apart(new)
    BY <2>3, <2>5, MsgSame DEF Box, Apart
  <2>7. \A i \in DOMAIN claim[t].letters, j \in DOMAIN new : about(claim[t].letters[i]) # about(new[j])
    BY <1>1, <1>2, <2>5, MsgSame DEF ChatsOnce, about
  <2>8. all \in Seq(Letter) /\ Apart(all)
    BY <1>1, <1>2, <2>4, <2>6, <2>7, Joined
  <2>9. \A i \in DOMAIN all : all[i].conv \notin claim[t].todo
    <3>1. /\ Len(claim[t].letters) \in Nat /\ Len(new) \in Nat
          /\ DOMAIN claim[t].letters = 1 .. Len(claim[t].letters) /\ DOMAIN new = 1 .. Len(new)
      BY <1>2, <2>4, LenProperties
    <3>2. \A i \in DOMAIN all :
            \/ i \in DOMAIN claim[t].letters /\ all[i] = claim[t].letters[i]
            \/ i - Len(claim[t].letters) \in DOMAIN new /\ all[i] = new[i - Len(claim[t].letters)]
      BY <1>2, <2>4, <3>1
    <3>. QED BY <1>1, <1>2, <2>5, <3>2 DEF ChatsOnce
  <2>. HIDE DEF all
  <2>10. past \in SUBSET Id
    <3>1. answered[c] \in Seq(Id)
      BY <1>2 DEF Inv, FilesOK
    <3>. QED BY <1>1, <3>1, ClaimFields, IdsOfList
  <2>. HIDE DEF past
  <2>11. r \in Claim /\ r.letters = all /\ r.phase = "scan" /\ r.todo = claim[t].todo
    BY <1>1, <2>8, <2>10 DEF Claim
  <2>. HIDE DEF r
  <2>12. Apart(r.letters) /\ ChatsOnce(r)
    BY <2>8, <2>9, <2>11 DEF ChatsOnce
  <2>. QED BY <1>2, <2>1, <2>11, <2>12, OneClaim
<1>. QED BY <1>3, <1>4 DEF readChat

LEMMA ClaimOver ==
  ASSUME Inv, NEW t \in Tab, claim' = [claim EXCEPT ![t] = NoClaim], UNCHANGED arrived
  PROVE  ClaimsOK'
<1>1. Apart(NoClaim.letters) /\ ChatsOnce(NoClaim)
  BY NoClaimOK DEF Apart, ChatsOnce
<1>. QED BY <1>1, NoClaimOK, OneClaim

LEMMA ClaimReloaded ==
  ASSUME Inv, NEW t \in Tab, reload(t)
  PROVE  ClaimsOK'
<1>. DEFINE w == claim[t].phase = "idle"
            r == [claim[t] EXCEPT !.wanted = w]
<1>1. claim' = [claim EXCEPT ![t] = r] /\ UNCHANGED arrived
  BY DEF reload, files
<1>2. claim[t] \in Claim /\ Apart(claim[t].letters) /\ ChatsOnce(claim[t]) /\ w \in BOOLEAN
  BY DEF Inv, ClaimsOK
<1>. HIDE DEF w
<1>3. /\ r \in Claim /\ r.letters = claim[t].letters /\ r.phase = claim[t].phase
      /\ r.todo = claim[t].todo /\ r.at = claim[t].at
  BY <1>2 DEF Claim
<1>. HIDE DEF r
<1>4. Apart(r.letters) /\ ChatsOnce(r)
  BY <1>2, <1>3 DEF ChatsOnce
<1>. QED BY <1>1, <1>3, <1>4, OneClaim

(* Requests stay as they are while messages arrive.                        *)
LEMMA ClaimsStay ==
  ASSUME Inv, UNCHANGED claim, arrived \subseteq arrived'
  PROVE  ClaimsOK'
BY DEF Inv, ClaimsOK, Apart, ChatsOnce

LEMMA ClaimsStep ==
  ASSUME Inv, [Next]_vars
  PROVE  ClaimsOK'
<1>1. ASSUME Park PROVE ClaimsOK'
  BY <1>1, ClaimsStay DEF Park, parkMessage
<1>2. ASSUME NEW t \in Tab, TabStep(t) PROVE ClaimsOK'
  <2>1. CASE bridgeTick(t)
    BY <2>1, ClaimStarted DEF bridgeTick
  <2>2. CASE receiveClaim(t)
    BY <2>2, ClaimOver DEF receiveClaim, files
  <2>3. CASE ~bridgeTick(t) /\ ~receiveClaim(t)
    <3>1. UNCHANGED <<claim, arrived>>
      BY <1>2, <2>3
      DEF TabStep, runTurn, relay, postAck, startAck, ackDone, mailboxVars, files
    <3>. QED BY <3>1, ClaimsStay
  <2>. QED BY <2>1, <2>2, <2>3
<1>3. ASSUME NEW t \in Tab, InboxStep(t) PROVE ClaimsOK'
  <2>1. ASSUME NEW c \in Conv, checkChat(t, c) PROVE ClaimsOK'
    <3>1. c \in claim[t].todo
      BY <2>1 DEF checkChat
    <3>. QED BY <2>1, <3>1, ClaimLooked
  <2>2. CASE readChat(t)
    BY <2>2, ClaimRead
  <2>3. CASE dropClaim(t)
    BY <2>3, ClaimOver DEF dropClaim, files
  <2>. QED BY <1>3, <2>1, <2>2, <2>3 DEF InboxStep
<1>4. ASSUME ChannelStep PROVE ClaimsOK'
  <2>1. UNCHANGED <<claim, arrived>>
    BY <1>4
    DEF ChannelStep, ackMessages, writeTmp, renameTmp, readAnswered, markAnswered,
        replaceAnswered, startSweep, save, saveBindings, silence, expire, files
  <2>. QED BY <2>1, ClaimsStay
<1>5. ASSUME NEW t \in Tab, reload(t) PROVE ClaimsOK'
  BY <1>5, ClaimReloaded
<1>6. ASSUME restartChannel PROVE ClaimsOK'
  <2>1. claim' = [t \in Tab |-> NoClaim]
    BY <1>6 DEF restartChannel, restart
  <2>. QED BY <2>1, NoClaimOK DEF ClaimsOK, Apart, ChatsOnce
<1>7. ASSUME FaultStep, ~restartChannel, ~\E t \in Tab : reload(t) PROVE ClaimsOK'
  <2>1. UNCHANGED <<claim, arrived>>
    BY <1>7 DEF FaultStep, suspend, wake, relayFails, mailboxVars, files
  <2>. QED BY <2>1, ClaimsStay
<1>8. ASSUME UNCHANGED vars PROVE ClaimsOK'
  BY <1>8, ClaimsStay DEF vars, mailboxVars, files
<1>. QED BY <1>1, <1>2, <1>3, <1>4, <1>5, <1>6, <1>7, <1>8 DEF Next

-----------------------------------------------------------------------------
(* A step and the chains of the tabs                                       *)

(* A chain loses letters at its front, and what is at the front now is     *)
(* past its turn or was behind another letter.                             *)
LEMMA ChainGoesOn ==
  ASSUME Inv, NEW t \in Tab, NEW s \in Seq(Letter), NEW what \in Step, NEW k \in Nat,
         UNCHANGED <<arrived, seen, forgot, ran>>,
         chain' = [chain EXCEPT ![t] = s], step' = [step EXCEPT ![t] = what],
         \A i \in DOMAIN s : i + k \in DOMAIN chain[t] /\ s[i] = chain[t][i + k],
         what = "run" => k > 0
  PROVE  ChainsOK'
<1>1. /\ chain' \in [Tab -> Seq(Letter)] /\ chain'[t] = s
      /\ \A u \in Tab : u # t => chain'[u] = chain[u] /\ step'[u] = step[u]
      /\ step' \in [Tab -> Step] /\ step'[t] = what
  BY DEF Inv, ChainsOK
<1>2. \A u \in Tab : Len(chain[u]) \in Nat /\ DOMAIN chain[u] = 1 .. Len(chain[u])
  BY LenProperties DEF Inv, ChainsOK
<1>3. Len(s) \in Nat /\ DOMAIN s = 1 .. Len(s)
  BY LenProperties
<1>4. \A b : known(b)' = known(b)
  BY DEF known
<1>5. ASSUME NEW u \in Tab PROVE Waiting(u)'
  <2>1. CASE u # t
    BY <1>1, <1>4, <2>1 DEF Inv, ChainsOK, Waiting
  <2>2. CASE u = t
    <3>1. ASSUME NEW i \in DOMAIN s
          PROVE  about(s[i]) \in arrived /\ s[i].id \in known(BrowserOf[t])
      BY DEF Inv, ChainsOK, Waiting
    <3>2. ASSUME NEW i \in DOMAIN s, i > 1 \/ what = "run"
          PROVE  \/ <<BrowserOf[t], about(s[i])>> \notin ran
                 \/ s[i].id \in forgot[BrowserOf[t]]
      <4>1. i + k > 1 /\ i + k \in DOMAIN chain[t] /\ s[i] = chain[t][i + k]
        BY <1>3, <3>2
      <4>. QED BY <4>1 DEF Inv, ChainsOK, Waiting
    <3>. QED BY <1>1, <1>4, <2>2, <3>1, <3>2 DEF Waiting
  <2>. QED BY <2>1, <2>2
<1>6. ASSUME NEW u \in Tab, NEW w \in Tab, BrowserOf[w] = BrowserOf[u]
      PROVE  Differ(u, w)'
  <2>1. Differ(u, w)
    BY <1>6 DEF Inv, ChainsOK
  <2>2. CASE u # t /\ w # t
    BY <1>1, <2>1, <2>2 DEF Differ
  <2>3. CASE u = t /\ w # t
    BY <1>1, <2>1, <2>3 DEF Differ
  <2>4. CASE w = t /\ u # t
    BY <1>1, <2>1, <2>4 DEF Differ
  <2>5. CASE u = t /\ w = t
    <3>1. ASSUME NEW i \in DOMAIN s, NEW j \in DOMAIN s, about(s[i]) = about(s[j]),
                 s[i].id \notin forgot[BrowserOf[t]]
          PROVE  i = j
      <4>1. i + k = j + k
        BY <2>1, <2>5, <3>1 DEF Differ
      <4>. QED BY <1>3, <4>1
    <3>. QED BY <1>1, <2>5, <3>1 DEF Differ
  <2>. QED BY <2>2, <2>3, <2>4, <2>5
<1>7. /\ seen' \in [Browser -> Seq(Id)] /\ forgot' \in [Browser -> SUBSET Id]
      /\ ran' \subseteq Browser \X Message
      /\ \A r \in ran' : r[2].id \in known(r[1])'
  BY <1>4 DEF Inv, ChainsOK
<1>. QED BY <1>1, <1>5, <1>6, <1>7 DEF ChainsOK

LEMMA ChainThen ==
  ASSUME Inv, NEW t \in Tab, NEW what \in Step, what # "run", Then(t, what),
         UNCHANGED <<arrived, seen, forgot, ran>>
  PROVE  ChainsOK'
<1>1. chain[t] \in Seq(Letter) /\ chain' = [chain EXCEPT ![t] = chain[t]]
  BY DEF Inv, ChainsOK, Then
<1>2. \A i \in DOMAIN chain[t] : i + 0 = i
  BY <1>1
<1>3. step' = [step EXCEPT ![t] = what]
  BY DEF Then
<1>. QED BY <1>1, <1>2, <1>3, ChainGoesOn

LEMMA ChainNext ==
  ASSUME Inv, NEW t \in Tab, chain[t] # <<>>, nextMessage(t), UNCHANGED <<arrived, seen, forgot, ran>>
  PROVE  ChainsOK'
<1>. DEFINE k == 1
<1>1. chain[t] \in Seq(Letter) /\ Tail(chain[t]) \in Seq(Letter)
  BY DEF Inv, ChainsOK
<1>2. \A i \in DOMAIN Tail(chain[t]) : i + k \in DOMAIN chain[t] /\ Tail(chain[t])[i] = chain[t][i + k]
  BY <1>1
<1>3. chain' = [chain EXCEPT ![t] = Tail(chain[t])] /\ step' = [step EXCEPT ![t] = "run"]
  BY DEF nextMessage
<1>4. "run" \in Step /\ k \in Nat /\ k > 0
  BY DEF Step
<1>. HIDE DEF k
<1>. QED BY <1>1, <1>2, <1>3, <1>4, ChainGoesOn

LEMMA ChainReloaded ==
  ASSUME Inv, NEW t \in Tab, reload(t)
  PROVE  ChainsOK'
<1>. DEFINE k == 1
<1>1. chain' = [chain EXCEPT ![t] = <<>>] /\ step' = [step EXCEPT ![t] = "run"]
      /\ UNCHANGED <<arrived, seen, forgot, ran>>
  BY DEF reload, files
<1>2. <<>> \in Seq(Letter) /\ "run" \in Step /\ DOMAIN <<>> = {} /\ k \in Nat /\ k > 0
  BY DEF Step
<1>3. \A i \in DOMAIN <<>> : i + k \in DOMAIN chain[t] /\ <<>>[i] = chain[t][i + k]
  BY <1>2
<1>. HIDE DEF k
<1>. QED BY <1>1, <1>2, <1>3, ChainGoesOn

(* A turn settles: its message is past its turn here, and no other letter  *)
(* of the browser is about it.                                             *)
LEMMA ChainRun ==
  ASSUME Inv, NEW t \in Tab, runTurn(t)
  PROVE  /\ ChainsOK'
         /\ <<BrowserOf[t], message(t)>> \notin ran \/ first(t).id \in forgot[BrowserOf[t]]
<1>. DEFINE b == BrowserOf[t]
            m == message(t)
<1>1. /\ chain[t] # <<>> /\ step[t] = "run" /\ ran' = ran \cup {<<b, m>>}
      /\ step' = [step EXCEPT ![t] = "relay"] /\ UNCHANGED <<chain, seen, forgot, arrived>>
  BY DEF runTurn, Doing, Then, mailboxVars, files
<1>2. /\ chain[t] \in Seq(Letter) /\ DOMAIN chain[t] = 1 .. Len(chain[t]) /\ Len(chain[t]) \in Nat
      /\ 1 \in DOMAIN chain[t] /\ m = about(chain[t][1]) /\ first(t) = chain[t][1]
      /\ m \in Message /\ b \in Browser
  BY <1>1, AtMessage
<1>3. /\ <<b, m>> \notin ran \/ first(t).id \in forgot[b]
      /\ chain[t][1].id \in known(b)
  BY <1>1, <1>2 DEF Inv, ChainsOK, Waiting
<1>4. m.id = chain[t][1].id /\ m.id \in known(b)
  BY <1>2, <1>3 DEF about, msg
<1>5. \A c : known(c)' = known(c)
  BY <1>1 DEF known
<1>. HIDE DEF b, m
<1>6. ASSUME NEW u \in Tab PROVE Waiting(u)'
  <2>1. Waiting(u) /\ DOMAIN chain[u] = 1 .. Len(chain[u]) /\ Len(chain[u]) \in Nat
    BY LenProperties DEF Inv, ChainsOK
  <2>2. ASSUME BrowserOf[u] = b, NEW i \in DOMAIN chain[u], u # t \/ i > 1, about(chain[u][i]) = m
        PROVE  chain[u][i].id \in forgot[b]
    <3>1. Differ(u, t)
      BY <2>2 DEF Inv, ChainsOK, b
    <3>2. i # 1 \/ u # t
      BY <2>1, <2>2
    <3>. QED BY <1>2, <2>2, <3>1, <3>2 DEF Differ
  <2>3. CASE u # t
    <3>1. step'[u] = step[u]
      BY <1>1, <2>3 DEF Inv, ChainsOK
    <3>. QED BY <1>1, <1>5, <2>1, <2>2, <2>3, <3>1 DEF Waiting
  <2>4. CASE u = t
    <3>1. step'[t] = "relay"
      BY <1>1 DEF Inv, ChainsOK
    <3>. QED BY <1>1, <1>5, <2>1, <2>2, <2>4, <3>1 DEF Waiting, b
  <2>. QED BY <2>3, <2>4
<1>7. \A u, w \in Tab : BrowserOf[w] = BrowserOf[u] => Differ(u, w)'
  BY <1>1 DEF Inv, ChainsOK, Differ
<1>8. /\ seen' \in [Browser -> Seq(Id)] /\ forgot' \in [Browser -> SUBSET Id]
      /\ ran' \subseteq Browser \X Message
      /\ \A r \in ran' : r[2].id \in known(r[1])'
  BY <1>1, <1>2, <1>4, <1>5 DEF Inv, ChainsOK
<1>9. chain' \in [Tab -> Seq(Letter)] /\ step' \in [Tab -> Step]
  BY <1>1 DEF Inv, ChainsOK, Step
<1>. QED BY <1>3, <1>6, <1>7, <1>8, <1>9 DEF ChainsOK, b, m

(* A browser remembers or forgets, but knows what it knew and what is new. *)
LEMMA Known ==
  ASSUME Inv, NEW b \in Browser, NEW ids \in Seq(Id), remember(b, ids)
  PROVE  /\ seen' \in [Browser -> Seq(Id)] /\ forgot' \in [Browser -> SUBSET Id]
         /\ \A c \in Browser : forgot[c] \subseteq forgot'[c] /\ known(c) \subseteq known(c)'
         /\ idsOf(ids) \subseteq known(b)'
<1>1. seen[b] \in Seq(Id) /\ remembered(seen[b], ids) \in Seq(Id)
  BY RememberedIsList DEF Inv, ChainsOK
<1>2. seen' = [seen EXCEPT ![b] = remembered(seen[b], ids)] \/ seen' = seen
  BY DEF remember
<1>3. seen' \in [Browser -> Seq(Id)] /\ \A c \in Browser : c # b => seen'[c] = seen[c]
  BY <1>1, <1>2 DEF Inv, ChainsOK
<1>4. forgot' = [forgot EXCEPT ![b] =
                   @ \cup ((idsOf(seen[b]) \cup idsOf(ids)) \ idsOf(seen'[b]))]
  BY DEF remember
<1>5. idsOf(seen[b]) \in SUBSET Id /\ idsOf(ids) \in SUBSET Id
  BY <1>1, IdsOfList
<1>6. forgot' \in [Browser -> SUBSET Id]
  BY <1>4, <1>5 DEF Inv, ChainsOK
<1>7. /\ \A c \in Browser : c # b => forgot'[c] = forgot[c]
      /\ forgot'[b] = forgot[b] \cup ((idsOf(seen[b]) \cup idsOf(ids)) \ idsOf(seen'[b]))
  BY <1>4 DEF Inv, ChainsOK
<1>8. \A c : known(c)' = idsOf(seen'[c]) \cup forgot'[c]
  BY DEF known, idsOf
<1>. QED BY <1>3, <1>6, <1>7, <1>8 DEF known

(* What a claim brings in is new to the browser, or forgotten: no letter   *)
(* of its chains and no turn it has run is about what is new.              *)
LEMMA ChainReceived ==
  ASSUME Inv, NEW t \in Tab, receiveClaim(t)
  PROVE  ChainsOK'
<1>. DEFINE b == BrowserOf[t]
            letters == claim[t].letters
            left == {i \in DOMAIN letters : isFresh(t, letters[i])}
            fresh == pick(letters, left)
            ids == [i \in DOMAIN fresh |-> fresh[i].id]
            all == chain[t] \o fresh
<1>1. /\ remember(b, ids)
      /\ chain' = [chain EXCEPT ![t] = all]
      /\ UNCHANGED <<arrived, step, ran>>
  BY DEF receiveClaim, files
<1>2. letters \in Seq(Letter) /\ Apart(letters) /\ b \in Browser
  BY ClaimFields, BrowserAssumption DEF Inv, ClaimsOK
<1>3. /\ fresh \in Seq(Letter)
      /\ \A k \in DOMAIN fresh : nth(left, k) \in left /\ fresh[k] = letters[nth(left, k)]
      /\ \A k, l \in DOMAIN fresh : nth(left, k) = nth(left, l) => k = l
  <2>1. left \in SUBSET DOMAIN letters
    OBVIOUS
  <2>. HIDE DEF left, letters
  <2>. QED BY <1>2, <2>1, PickIsPart
<1>4. \A k \in DOMAIN fresh : fresh[k].id \notin known(b) \/ fresh[k].id \in forgot[b]
  BY <1>3 DEF isFresh, known
<1>5. Apart(fresh)
  <2>1. left \subseteq DOMAIN letters
    OBVIOUS
  <2>. HIDE DEF fresh, left, letters
  <2>. QED BY <1>2, <1>3, <2>1 DEF Apart
<1>6. ids \in Seq(Id) /\ \A i \in DOMAIN fresh : fresh[i].id \in idsOf(ids)
  <2>. HIDE DEF fresh
  <2>1. DOMAIN fresh = 1 .. Len(fresh) /\ Len(fresh) \in Nat
    BY <1>3, LenProperties
  <2>2. \A i \in DOMAIN fresh : fresh[i].id \in Id
    <3>1. \A i \in DOMAIN fresh : fresh[i] \in Letter
      BY <1>3
    <3>. QED BY <3>1 DEF Letter
  <2>3. ids \in [1 .. Len(fresh) -> Id]
    BY <2>1, <2>2
  <2>4. ids \in Seq(Id)
    BY <2>1, <2>3
  <2>5. \A i \in DOMAIN fresh : i \in DOMAIN ids /\ ids[i] = fresh[i].id
    OBVIOUS
  <2>. QED BY <2>4, <2>5 DEF idsOf
<1>. HIDE DEF fresh, ids, letters, left
<1>7. /\ seen' \in [Browser -> Seq(Id)] /\ forgot' \in [Browser -> SUBSET Id]
      /\ \A c \in Browser : forgot[c] \subseteq forgot'[c] /\ known(c) \subseteq known(c)'
      /\ idsOf(ids) \subseteq known(b)'
  BY <1>1, <1>2, <1>6, Known
<1>8. chain[t] \in Seq(Letter) /\ all \in Seq(Letter)
  BY <1>3 DEF Inv, ChainsOK
<1>9. /\ Len(chain[t]) \in Nat /\ DOMAIN chain[t] = 1 .. Len(chain[t])
      /\ Len(fresh) \in Nat /\ DOMAIN fresh = 1 .. Len(fresh)
      /\ DOMAIN all = 1 .. Len(chain[t]) + Len(fresh)
  BY <1>3, <1>8, LenProperties
<1>10. ASSUME NEW i \in DOMAIN all
       PROVE  \/ i \in DOMAIN chain[t] /\ all[i] = chain[t][i]
              \/ /\ i \notin DOMAIN chain[t] /\ i - Len(chain[t]) \in DOMAIN fresh
                 /\ all[i] = fresh[i - Len(chain[t])]
  BY <1>3, <1>8, <1>9
<1>. HIDE DEF all
<1>11. /\ chain' \in [Tab -> Seq(Letter)] /\ chain'[t] = all
       /\ \A u \in Tab : u # t => chain'[u] = chain[u]
       /\ step' \in [Tab -> Step]
  BY <1>1, <1>8 DEF Inv, ChainsOK
<1>12. ASSUME NEW j \in DOMAIN fresh
       PROVE  /\ about(fresh[j]) \in arrived /\ fresh[j].id \in known(b)'
              /\ <<b, about(fresh[j])>> \notin ran \/ fresh[j].id \in forgot'[b]
  <2>1. ASSUME <<b, about(fresh[j])>> \in ran PROVE fresh[j].id \in forgot'[b]
    <3>1. about(fresh[j]).id \in known(b)
      BY <2>1 DEF Inv, ChainsOK
    <3>. QED BY <1>2, <1>4, <1>7, <3>1 DEF about, msg
  <2>. QED BY <1>5, <1>6, <1>7, <2>1 DEF Apart
<1>13. ASSUME NEW u \in Tab, BrowserOf[u] = b, NEW i \in DOMAIN chain[u], NEW j \in DOMAIN fresh,
              about(chain[u][i]) = about(fresh[j])
       PROVE  chain[u][i].id \in forgot'[b] /\ fresh[j].id \in forgot'[b]
  <2>1. chain[u][i].id \in known(b)
    BY <1>13 DEF Inv, ChainsOK, Waiting
  <2>2. chain[u][i].id = fresh[j].id
    BY <1>13, MsgSame DEF about
  <2>. QED BY <1>2, <1>4, <1>7, <2>1, <2>2
<1>14. ASSUME NEW u \in Tab PROVE Waiting(u)'
  <2>1. Waiting(u) /\ BrowserOf[u] \in Browser
    BY BrowserAssumption DEF Inv, ChainsOK
  <2>2. ASSUME NEW i \in DOMAIN chain[u]
        PROVE  /\ about(chain[u][i]) \in arrived
               /\ chain[u][i].id \in known(BrowserOf[u])'
               /\ i > 1 \/ step[u] = "run"
                    => \/ <<BrowserOf[u], about(chain[u][i])>> \notin ran
                       \/ chain[u][i].id \in forgot'[BrowserOf[u]]
    BY <1>7, <2>1 DEF Waiting
  <2>3. CASE u # t
    BY <1>1, <1>11, <2>2, <2>3 DEF Waiting
  <2>4. CASE u = t
    <3>1. ASSUME NEW i \in DOMAIN all
          PROVE  /\ about(all[i]) \in arrived /\ all[i].id \in known(b)'
                 /\ i > 1 \/ step[t] = "run"
                      => <<b, about(all[i])>> \notin ran \/ all[i].id \in forgot'[b]
      <4>1. CASE i \in DOMAIN chain[t] /\ all[i] = chain[t][i]
        BY <2>2, <2>4, <4>1 DEF b
      <4>2. CASE i - Len(chain[t]) \in DOMAIN fresh /\ all[i] = fresh[i - Len(chain[t])]
        BY <1>12, <4>2
      <4>. QED BY <1>10, <4>1, <4>2
    <3>. QED BY <1>1, <1>11, <2>4, <3>1 DEF Waiting, b
  <2>. QED BY <2>3, <2>4
<1>15. ASSUME NEW u \in Tab, NEW w \in Tab, BrowserOf[w] = BrowserOf[u]
       PROVE  Differ(u, w)'
  <2>1. Differ(u, w) /\ BrowserOf[u] \in Browser
    BY <1>15, BrowserAssumption DEF Inv, ChainsOK
  <2>2. ASSUME NEW i \in DOMAIN chain[u], NEW j \in DOMAIN chain[w],
               about(chain[u][i]) = about(chain[w][j])
        PROVE  (u = w /\ i = j) \/ chain[u][i].id \in forgot'[BrowserOf[u]]
    BY <1>7, <2>1, <2>2 DEF Differ
  <2>3. CASE u # t /\ w # t
    BY <1>11, <2>2, <2>3 DEF Differ
  <2>4. CASE u = t /\ w # t
    <3>1. ASSUME NEW i \in DOMAIN all, NEW j \in DOMAIN chain[w], about(all[i]) = about(chain[w][j])
          PROVE  all[i].id \in forgot'[b]
      BY <1>10, <1>13, <1>15, <2>2, <2>4, <3>1 DEF b
    <3>. QED BY <1>11, <2>4, <3>1 DEF Differ, b
  <2>5. CASE w = t /\ u # t
    <3>1. BrowserOf[u] = b
      BY <1>15, <2>5 DEF b
    <3>2. ASSUME NEW i \in DOMAIN chain[u], NEW j \in DOMAIN all, about(chain[u][i]) = about(all[j])
          PROVE  chain[u][i].id \in forgot'[b]
      BY <1>10, <1>13, <2>2, <2>5, <3>1, <3>2
    <3>. QED BY <1>11, <2>5, <3>1, <3>2 DEF Differ
  <2>6. CASE u = t /\ w = t
    <3>1. ASSUME NEW i \in DOMAIN all, NEW j \in DOMAIN all, about(all[i]) = about(all[j]),
                 all[i].id \notin forgot'[b]
          PROVE  i = j
      <4>. DEFINE n == Len(chain[t])
      <4>1. i \in Nat /\ j \in Nat /\ n \in Nat
        BY <1>9
      <4>. HIDE DEF n
      <4>2. CASE i \in DOMAIN chain[t] /\ j \in DOMAIN chain[t]
        BY <1>10, <2>2, <2>6, <3>1, <4>2 DEF b
      <4>3. CASE i \notin DOMAIN chain[t] /\ j \notin DOMAIN chain[t]
        <5>1. i - n \in DOMAIN fresh /\ j - n \in DOMAIN fresh /\ about(fresh[i - n]) = about(fresh[j - n])
          BY <1>10, <3>1, <4>3 DEF n
        <5>2. i - n = j - n
          BY <1>5, <5>1 DEF Apart
        <5>. QED BY <4>1, <5>2
      <4>4. CASE i \in DOMAIN chain[t] /\ j \notin DOMAIN chain[t]
        BY <1>10, <1>13, <3>1, <4>4 DEF b
      <4>5. CASE i \notin DOMAIN chain[t] /\ j \in DOMAIN chain[t]
        <5>1. about(chain[t][j]) = about(fresh[i - n]) /\ i - n \in DOMAIN fresh /\ all[i] = fresh[i - n]
          BY <1>10, <3>1, <4>5 DEF n
        <5>. QED BY <1>13, <3>1, <4>5, <5>1 DEF b
      <4>. QED BY <4>2, <4>3, <4>4, <4>5
    <3>. QED BY <1>11, <2>6, <3>1 DEF Differ, b
  <2>. QED BY <2>3, <2>4, <2>5, <2>6
<1>16. ran' \subseteq Browser \X Message /\ \A r \in ran' : r[2].id \in known(r[1])'
  <2>1. \A r \in ran : r[1] \in Browser /\ r[2].id \in known(r[1])
    BY DEF Inv, ChainsOK
  <2>. QED BY <1>1, <1>7, <2>1 DEF Inv, ChainsOK
<1>. QED BY <1>7, <1>11, <1>14, <1>15, <1>16 DEF ChainsOK

LEMMA ChainsStay ==
  ASSUME Inv, UNCHANGED <<seen, chain, step, ran, forgot>>, arrived \subseteq arrived'
  PROVE  ChainsOK'
<1>1. \A b : known(b)' = known(b)
  BY DEF known
<1>2. ASSUME NEW t \in Tab PROVE Waiting(t)'
  BY <1>1 DEF Inv, ChainsOK, Waiting
<1>3. ASSUME NEW t \in Tab, NEW u \in Tab, BrowserOf[u] = BrowserOf[t]
      PROVE  Differ(t, u)'
  BY <1>3 DEF Inv, ChainsOK, Differ
<1>. QED BY <1>1, <1>2, <1>3 DEF Inv, ChainsOK

LEMMA ChainsStep ==
  ASSUME Inv, [Next]_vars
  PROVE  ChainsOK'
<1>1. \A what \in {"relay", "ack", "wait"} : what \in Step /\ what # "run"
  BY DEF Step
<1>2. ASSUME Park PROVE ChainsOK'
  BY <1>2, ChainsStay DEF Park, parkMessage, tabVars, ghosts
<1>3. ASSUME NEW t \in Tab, TabStep(t) PROVE ChainsOK'
  <2>1. CASE bridgeTick(t)
    BY <2>1, ChainsStay DEF bridgeTick, startClaim, tabVars, ghosts, files
  <2>2. CASE receiveClaim(t)
    BY <2>2, ChainReceived
  <2>3. CASE runTurn(t)
    BY <2>3, ChainRun
  <2>4. CASE relay(t)
    BY <1>1, <2>4, ChainThen DEF relay, mailboxVars, files
  <2>5. CASE postAck(t)
    BY <1>1, <2>5, ChainThen DEF postAck, startAck, ghosts, files
  <2>6. CASE ackDone(t)
    BY <2>6, ChainNext DEF ackDone, Doing, mailboxVars, files, ghosts
  <2>. QED BY <1>3, <2>1, <2>2, <2>3, <2>4, <2>5, <2>6 DEF TabStep
<1>4. ASSUME NEW t \in Tab, InboxStep(t) PROVE ChainsOK'
  BY <1>4, ChainsStay DEF InboxStep, checkChat, readChat, dropClaim, files, tabVars, ghosts
<1>5. ASSUME ChannelStep PROVE ChainsOK'
  BY <1>5, ChainsStay
  DEF ChannelStep, ackMessages, writeTmp, renameTmp, readAnswered, markAnswered,
      replaceAnswered, startSweep, save, saveBindings, silence, expire, files, tabVars, ghosts
<1>6. ASSUME NEW t \in Tab, reload(t) PROVE ChainsOK'
  BY <1>6, ChainReloaded
<1>7. ASSUME NEW t \in Tab, relayFails(t) PROVE ChainsOK'
  <2>1. chain[t] # <<>> /\ (Then(t, "ack") \/ nextMessage(t)) /\ UNCHANGED <<arrived, seen, forgot, ran>>
    BY <1>7 DEF relayFails, Doing, mailboxVars, files
  <2>. QED BY <1>1, <2>1, ChainThen, ChainNext
<1>8. ASSUME NEW t \in Tab, suspend(t) \/ wake(t) PROVE ChainsOK'
  BY <1>8, ChainsStay DEF suspend, wake, mailboxVars, files, ghosts
<1>9. ASSUME restartChannel PROVE ChainsOK'
  BY <1>9, ChainsStay DEF restartChannel, restart, files, tabVars
<1>10. ASSUME UNCHANGED vars PROVE ChainsOK'
  BY <1>10, ChainsStay DEF vars, mailboxVars, files, tabVars, ghosts
<1>. QED BY <1>2, <1>3, <1>4, <1>5, <1>6, <1>7, <1>8, <1>9, <1>10 DEF Next, FaultStep

-----------------------------------------------------------------------------
(* The invariant, and what follows                                         *)

LEMMA RestStep ==
  ASSUME Inv, [Next]_vars
  PROVE  RestOK'
<1>1. /\ awake \subseteq Tab /\ shed \subseteq Message /\ day \in Day
      /\ phone \subseteq Browser \X Message /\ faults \in Seq(Fault)
  BY DEF Inv, RestOK
<1>2. ASSUME UNCHANGED <<awake, shed, day, phone, faults>> PROVE RestOK'
  BY <1>1, <1>2 DEF RestOK
<1>3. ASSUME NEW kind \in Fault, Fail(kind) PROVE faults' \in Seq(Fault) /\ UNCHANGED day
  BY <1>1, <1>3 DEF Fail
<1>4. ASSUME Park PROVE RestOK'
  BY <1>2, <1>4 DEF Park, tabVars, ghosts
<1>5. ASSUME NEW t \in Tab, TabStep(t) PROVE RestOK'
  <2>1. CASE relay(t)
    <3>1. chain[t] # <<>> /\ UNCHANGED <<awake, shed, day, faults>>
      BY <2>1 DEF relay, Doing
    <3>2. <<BrowserOf[t], message(t)>> \in Browser \X Message
      BY <3>1, AtMessage
    <3>3. phone' \subseteq Browser \X Message
      BY <1>1, <2>1, <3>2 DEF relay
    <3>. QED BY <1>1, <3>1, <3>3 DEF RestOK
  <2>2. CASE receiveClaim(t)
    <3>1. UNCHANGED <<awake, shed, phone>>
      BY <2>2 DEF receiveClaim
    <3>2. faults' \in Seq(Fault) /\ UNCHANGED day
      BY <1>1, <1>3, <2>2 DEF receiveClaim, remember, Fault
    <3>. QED BY <1>1, <3>1, <3>2 DEF RestOK
  <2>3. CASE ~relay(t) /\ ~receiveClaim(t)
    BY <1>2, <1>5, <2>3
    DEF TabStep, bridgeTick, runTurn, postAck, ackDone, tabVars, ghosts
  <2>. QED BY <2>1, <2>2, <2>3
<1>6. ASSUME NEW t \in Tab, InboxStep(t) PROVE RestOK'
  BY <1>2, <1>6 DEF InboxStep, dropClaim, tabVars, ghosts
<1>7. ASSUME ChannelStep PROVE RestOK'
  BY <1>2, <1>7 DEF ChannelStep, silence, tabVars, ghosts
<1>8. ASSUME FaultStep PROVE RestOK'
  <2>1. faults' \in Seq(Fault) /\ UNCHANGED day
    BY <1>1, <1>3, <1>8
    DEF FaultStep, suspend, wake, reload, relayFails, restartChannel, ghosts, Fault
  <2>2. awake' \subseteq Tab
    BY <1>1, <1>8 DEF FaultStep, suspend, wake, reload, relayFails, restartChannel, tabVars
  <2>3. UNCHANGED phone
    BY <1>8 DEF FaultStep, suspend, wake, reload, relayFails, restartChannel, ghosts
  <2>4. shed' \subseteq Message
    <3>1. ASSUME NEW t \in Tab PROVE chained(t) \subseteq Message
      BY DEF chained, Inv, ChainsOK, Waiting, FilesOK
    <3>. QED BY <1>1, <1>8, <3>1
         DEF FaultStep, suspend, wake, reload, relayFails, restartChannel, ghosts
  <2>. QED BY <1>1, <2>1, <2>2, <2>3, <2>4 DEF RestOK
<1>9. ASSUME UNCHANGED vars PROVE RestOK'
  BY <1>2, <1>9 DEF vars, tabVars, ghosts
<1>. QED BY <1>4, <1>5, <1>6, <1>7, <1>8, <1>9 DEF Next

LEMMA InvStep == Inv /\ [Next]_vars => Inv'
BY FilesStep, RegistryStep, ClaimsStep, ChainsStep, RestStep DEF Inv

LEMMA AlwaysInv == Spec => []Inv
BY InitOK, InvStep, PTL DEF Spec

(* Mailbox files, bindings, requests, chains and local storage keep their  *)
(* shape, whatever the awaits of the channel's handlers interleave with,   *)
(* for any messages, tabs, profiles, browsers and number of faults.        *)
THEOREM BridgeTypes == Spec => []TypeOK
<1>1. Inv => TypeOK
  BY DEF Inv, FilesOK, RegistryOK, Bindings, ClaimsOK, ChainsOK, RestOK, TypeOK, MailboxTypeOK, Box
<1>. QED BY <1>1, AlwaysInv, PTL

(* "A reload mid-turn must not run the message twice"                      *)
(* (web/src/server/local-backend.ts): a turn of a browser is about a       *)
(* message that no tab of this browser has run, though its letter is       *)
(* claimed by several tabs, claimed again after a lost ack, or left in a   *)
(* mailbox an older ack wrote back; unless the browser has forgotten the   *)
(* id, to a refused write or to SeenKeep newer ids.                        *)
THEOREM TurnRunsOnce == Spec => RunsOnce
<1>1. Inv /\ [Next]_vars
        => [\A t \in Tab :
              runTurn(t) => \/ <<BrowserOf[t], message(t)>> \notin ran
                            \/ first(t).id \in forgot[BrowserOf[t]]]_vars
  BY ChainRun
<1>. QED BY <1>1, AlwaysInv, PTL DEF Spec, RunsOnce

(* The binding of a chat to a live profile survives every step but a       *)
(* restart of the channel: an inbox request that decided to take the chat  *)
(* over, and lost the race while it awaited the mailbox, does not.         *)
THEOREM LiveOwnerKept == Spec => LiveOwnerStays
<1>1. Inv /\ [Next]_vars
        => [\A c \in DOMAIN bindings :
              bindings[c].live => restartChannel \/ (c \in DOMAIN bindings' /\ owner(c)' = owner(c))]_vars
  <2>. SUFFICES ASSUME Inv, [Next]_vars, NEW c \in DOMAIN bindings, bindings[c].live, ~restartChannel
                PROVE  c \in DOMAIN bindings' /\ owner(c)' = owner(c)
    OBVIOUS
  <2>1. Stays
    BY RegistryStep
  <2>. QED BY <2>1 DEF Stays, owner
<1>. QED BY <1>1, AlwaysInv, PTL DEF Spec, LiveOwnerStays
=============================================================================
