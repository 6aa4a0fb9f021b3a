--------------------------- MODULE TelegramMailbox ---------------------------
(***************************************************************************)
(* The Node half of the Telegram channel (src/telegram-bridge.ts): parked  *)
(* messages in one file per chat, bindings of chats to profiles in memory  *)
(* and in bindings.json, ids answered before.  Every handler that awaits a *)
(* file is as many actions as it has awaits, and all handlers interleave.  *)
(*                                                                         *)
(* Time is abstracted: a binding is live until its last heartbeat is older *)
(* than BRIDGE_TTL_MS.                                                     *)
(***************************************************************************)
EXTENDS Integers, Sequences, FiniteSets

CONSTANTS
  Message,      \* [conv, id]: Telegram numbers the messages of each chat
  Tab,          \* the browser tabs that poll the channel
  Profile,
  ProfileOf,    \* the profile each tab serves
  AnsweredKeep  \* how many answered ids a chat keeps (ANSWERED_KEEP)

Conv == {m.conv : m \in Message}
Id == {m.id : m \in Message}
msg(c, i) == [conv |-> c, id |-> i]

ASSUME MessageAssumption == Message # {} /\ Message \subseteq [conv : Conv, id : Nat]
ASSUME KeepAssumption == AnsweredKeep \in Nat
ASSUME ProfileAssumption == ProfileOf \in [Tab -> Profile]

Binding == [profile : Profile, epoch : Nat, live : BOOLEAN]

(* What claimPending found for one message.                                *)
Letter == [conv : Conv, id : Id, epoch : Nat]

(* One /api/inbox request per tab: the chats it has to look at, the one    *)
(* whose mailbox it awaits with the epoch it takes over (-1: none).        *)
Claim == [phase : {"idle", "scan", "read"}, wanted : BOOLEAN,
          todo : SUBSET Conv, at : Conv, handover : Nat \cup {-1},
          letters : Seq(Letter), answered : SUBSET Id]

NoClaim == [phase |-> "idle", wanted |-> TRUE, todo |-> {}, at |-> CHOOSE c \in Conv : TRUE,
            handover |-> -1, letters |-> <<>>, answered |-> {}]

(* One /api/ack request, which rewrites the mailbox and then the answered  *)
(* file: list is what it writes next.                                      *)
Ack == [tab : Tab, conv : Conv, id : Id, list : Seq(Id),
        phase : {"write", "rename", "read", "mark", "replace"}]

VARIABLES
  arrived,      \* the messages parkMessage has appended
  mailbox,      \* chat -> the ids in its mailbox file
  tmp,          \* the .tmp files of mailboxes that exist: chat -> ids
  answered,     \* chat -> the ids in its answered file, the newest last
  draft,        \* the .tmp files of answered files that exist: chat -> ids
  bindings,     \* the bindings in memory: a map from bound chats
  stored,       \* bindings.json
  saving,       \* is a write of bindings.json queued?
  claim,        \* tab -> its inbox request
  acks,         \* the ack requests being handled
  overwritten   \* the messages an ack removed though nobody acked them

answers == <<answered, draft>>
files == <<arrived, mailbox, tmp, answers, overwritten>>
registry == <<bindings, stored, saving>>
mailboxVars == <<files, registry, claim, acks>>

Put(f, c, v) == [d \in DOMAIN f \cup {c} |-> IF d = c THEN v ELSE f[d]]
Remove(f, c) == [d \in DOMAIN f \ {c} |-> f[d]]
idsOf(s) == {s[i] : i \in DOMAIN s}

(* The last elements of a sequence, and those at some of its indices.      *)
newest(s, n) == SubSeq(s, IF Len(s) > n THEN Len(s) - n + 1 ELSE 1, Len(s))
nth(indices, k) == CHOOSE i \in indices : Cardinality({j \in indices : j <= i}) = k
pick(s, indices) == [k \in 1 .. Cardinality(indices) |-> s[nth(indices, k)]]

MailboxInit ==
  /\ arrived = {}
  /\ mailbox = [c \in Conv |-> <<>>]
  /\ tmp = <<>>
  /\ answered = [c \in Conv |-> <<>>]
  /\ draft = <<>>
  /\ bindings = <<>>
  /\ stored = <<>>
  /\ saving = FALSE
  /\ claim = [t \in Tab |-> NoClaim]
  /\ acks = {}
  /\ overwritten = {}

-----------------------------------------------------------------------------
(* The bot parks a message: texts and transcripts are appended in whatever *)
(* order their handlers get there.                                         *)
parkMessage(m) ==
  /\ m \notin arrived
  /\ arrived' = arrived \cup {m}
  /\ mailbox' = [mailbox EXCEPT ![m.conv] = Append(@, m.id)]
  /\ UNCHANGED <<tmp, answers, overwritten, registry, claim, acks>>

-----------------------------------------------------------------------------
(* claimPending.  The list of chats is read once, ...                      *)
pendingConvs == {m.conv : m \in arrived}

startClaim(t) ==
  /\ claim[t].phase = "idle"
  /\ claim' = [claim EXCEPT ![t] = [NoClaim EXCEPT !.phase = "scan", !.todo = pendingConvs]]
  /\ UNCHANGED <<files, registry, acks>>

foreign(t, c) == c \in DOMAIN bindings /\ bindings[c].profile # ProfileOf[t]

(* ... a chat of another live profile is left alone, an expired binding    *)
(* goes, and the mailbox is awaited; ...                                   *)
checkChat(t, c) ==
  /\ claim[t].phase = "scan"
  /\ c \in claim[t].todo
  /\ IF foreign(t, c) /\ bindings[c].live
       THEN /\ claim' = [claim EXCEPT ![t].todo = @ \ {c}]
            /\ UNCHANGED bindings
       ELSE /\ claim' = [claim EXCEPT ![t] =
                 [@ EXCEPT !.phase = "read", !.at = c, !.todo = claim[t].todo \ {c},
                           !.handover = IF foreign(t, c) THEN bindings[c].epoch ELSE -1]]
            /\ bindings' = IF foreign(t, c) THEN Remove(bindings, c) ELSE bindings
  /\ UNCHANGED <<files, stored, saving, acks>>

(* Mutant: whoever reads last owns the chat.                               *)
bind_Overwrites(t, c) ==
  bindings' = Put(bindings, c, [profile |-> ProfileOf[t], live |-> TRUE,
                                epoch |-> claim[t].handover + 1])

(* ... a chat that is bound by now keeps its binding, whoever has it, and  *)
(* a new binding has bindings.json written, which is queued.               *)
bind(t, c) ==
  bindings' = IF c \in DOMAIN bindings
                THEN [bindings EXCEPT ![c].live = TRUE]
                ELSE Put(bindings, c, [profile |-> ProfileOf[t], live |-> TRUE,
                                       epoch |-> claim[t].handover + 1])

readChat(t) ==
  LET c == claim[t].at
      waiting == mailbox[c]
      letters == [i \in DOMAIN waiting |->
                    [conv |-> c, id |-> waiting[i], epoch |-> bindings'[c].epoch]]
  IN  /\ claim[t].phase = "read"
      /\ IF waiting = <<>>
           THEN /\ claim' = [claim EXCEPT ![t] = [@ EXCEPT !.phase = "scan", !.handover = -1]]
                /\ UNCHANGED <<bindings, saving>>
           ELSE /\ bind(t, c)
                /\ saving' = (saving \/ c \notin DOMAIN bindings)
                /\ claim' = [claim EXCEPT ![t] =
                     [@ EXCEPT !.phase = "scan", !.handover = -1,
                               !.letters = claim[t].letters \o letters,
                               !.answered = claim[t].answered \cup idsOf(answered[c])]]
      /\ UNCHANGED <<files, stored, acks>>

claimDone(t) == claim[t].phase = "scan" /\ claim[t].todo = {}

-----------------------------------------------------------------------------
(* Mutant: a heartbeat refreshes every binding.                            *)
beatProfile_Everyone(profile) ==
  /\ bindings' = [c \in DOMAIN bindings |-> [bindings[c] EXCEPT !.live = TRUE]]
  /\ saving' = (saving \/ bindings # <<>>)

(* A heartbeat refreshes the bindings of a profile; those beaten less than *)
(* a second ago are not worth a write.                                     *)
beatProfile(profile) ==
  LET mine == {c \in DOMAIN bindings : bindings[c].profile = profile}
      stale == {c \in mine : ~bindings[c].live}
  IN  /\ bindings' = [c \in DOMAIN bindings |-> [bindings[c] EXCEPT !.live = @ \/ c \in mine]]
      /\ saving' \in {saving \/ old # {} : old \in {stale, mine}}

(* BRIDGE_TTL_MS pass without a heartbeat.                                 *)
expire(c) ==
  /\ c \in DOMAIN bindings
  /\ bindings[c].live
  /\ bindings' = [bindings EXCEPT ![c].live = FALSE]
  /\ UNCHANGED <<files, stored, saving, claim, acks>>

expired == {c \in DOMAIN bindings : ~bindings[c].live}

startSweep ==
  /\ expired # {}
  /\ bindings' = [c \in DOMAIN bindings \ expired |-> bindings[c]]
  /\ saving' = TRUE
  /\ UNCHANGED <<files, stored, claim, acks>>

saveBindings ==
  /\ saving
  /\ stored' = bindings
  /\ saving' = FALSE
  /\ UNCHANGED <<files, bindings, claim, acks>>

-----------------------------------------------------------------------------
(* ackMessages: read the mailbox, write what is kept to the .tmp file of   *)
(* the chat, rename it over the mailbox; markAnswered: the same with the   *)
(* answered file.  A rename whose .tmp another ack took fails, and so the  *)
(* request.                                                                *)
Acking(a, b) == acks' = (acks \ {a}) \cup {b}
over(a) == acks' = acks \ {a}

startAck(t, m) ==
  /\ LET box == mailbox[m.conv]
     IN acks' = acks \cup {[tab |-> t, conv |-> m.conv, id |-> m.id, phase |-> "write",
                            list |-> pick(box, {i \in DOMAIN box : box[i] # m.id})]}
  /\ UNCHANGED <<files, registry, claim>>

writeTmp(a) ==
  /\ a.phase = "write"
  /\ tmp' = Put(tmp, a.conv, a.list)
  /\ Acking(a, [a EXCEPT !.phase = "rename", !.list = <<>>])
  /\ UNCHANGED <<arrived, mailbox, answers, overwritten, registry, claim>>

renameTmp(a) ==
  LET c == a.conv
      asked == {b.id : b \in {b \in acks : b.conv = c}}
      lost == idsOf(mailbox[c]) \ (idsOf(tmp[c]) \cup asked)
  IN  /\ a.phase = "rename"
      /\ IF c \in DOMAIN tmp
           THEN /\ mailbox' = [mailbox EXCEPT ![c] = tmp[c]]
                /\ tmp' = Remove(tmp, c)
                /\ overwritten' = overwritten \cup {msg(c, i) : i \in lost}
                /\ Acking(a, [a EXCEPT !.phase = "read"])
           ELSE /\ over(a)
                /\ UNCHANGED <<mailbox, tmp, overwritten>>
      /\ UNCHANGED <<arrived, answers, registry, claim>>

(* answeredIds is awaited; a known id keeps its place in the list.         *)
added(s, i) == IF i \in idsOf(s) THEN s ELSE Append(s, i)

readAnswered(a) ==
  /\ a.phase = "read"
  /\ Acking(a, [a EXCEPT !.phase = "mark",
                         !.list = newest(added(answered[a.conv], a.id), AnsweredKeep)])
  /\ UNCHANGED <<files, registry, claim>>

markAnswered(a) ==
  /\ a.phase = "mark"
  /\ draft' = Put(draft, a.conv, a.list)
  /\ Acking(a, [a EXCEPT !.phase = "replace", !.list = <<>>])
  /\ UNCHANGED <<arrived, mailbox, tmp, answered, overwritten, registry, claim>>

replaceAnswered(a) ==
  /\ a.phase = "replace"
  /\ over(a)
  /\ IF a.conv \in DOMAIN draft
       THEN /\ answered' = [answered EXCEPT ![a.conv] = draft[a.conv]]
            /\ draft' = Remove(draft, a.conv)
       ELSE UNCHANGED answers
  /\ UNCHANGED <<arrived, mailbox, tmp, overwritten, registry, claim>>

ackMessages ==
  \E a \in acks :
    writeTmp(a) \/ renameTmp(a) \/ readAnswered(a) \/ markAnswered(a) \/ replaceAnswered(a)

-----------------------------------------------------------------------------
(* The process restarts: requests are gone, bindings are those of the      *)
(* file, as stale as the file is old.                                      *)
restart ==
  /\ \E late \in SUBSET DOMAIN stored :
       bindings' = [c \in DOMAIN stored |-> [stored[c] EXCEPT !.live = @ /\ c \notin late]]
  /\ saving' = FALSE
  /\ claim' = [t \in Tab |-> NoClaim]
  /\ acks' = {}
  /\ UNCHANGED <<files, stored>>

MailboxTypeOK ==
  /\ arrived \subseteq Message /\ overwritten \subseteq Message
  /\ mailbox \in [Conv -> Seq(Id)]
  /\ \A f \in {tmp, draft} :
       DOMAIN f \subseteq Conv /\ \A c \in DOMAIN f : f[c] \in Seq(Id)
  /\ answered \in [Conv -> Seq(Id)]
  /\ \A f \in {bindings, stored} :
       DOMAIN f \subseteq Conv /\ \A c \in DOMAIN f : f[c] \in Binding
  /\ saving \in BOOLEAN
  /\ claim \in [Tab -> Claim]
  /\ acks \subseteq Ack
=============================================================================
