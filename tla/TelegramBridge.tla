---------------------------- MODULE TelegramBridge ----------------------------
(***************************************************************************)
(* The Telegram channel end to end: the mailbox of the Node process, its   *)
(* relay (src/index.ts), and the bridge loop of the tabs                   *)
(* (web/src/server/local-backend.ts).  A tab claims what waits, remembers  *)
(* it in local storage, runs each message as a turn, relays the answer to  *)
(* the phone and acknowledges, one message after the other; meanwhile its  *)
(* loop goes on claiming.  Tabs are suspended and reloaded, the channel    *)
(* restarts, a relay fails.                                                *)
(*                                                                         *)
(* Every tab here has its bridge switched on and a workspace that can run. *)
(***************************************************************************)
EXTENDS TelegramMailbox

CONSTANTS
  Browser,
  BrowserOf,                             \* tabs of a browser share local storage
  SeenKeep,                              \* how many ids a browser remembers (300)
  Day,                                   \* what a day may bring, see below
  MaxFaults,                             \* bound: faults together
  MaxChain                               \* bound: messages a tab has to answer

ASSUME BrowserAssumption == BrowserOf \in [Tab -> Browser] /\ SeenKeep \in Nat
ASSUME BoundAssumption == {MaxFaults, MaxChain} \subseteq Nat

(* The tabs a user has, the messages that are sent, the faults that happen. *)
Fault == {"suspend", "reload", "refuse", "restart", "quota"}
ASSUME DayAssumption ==
  Day \subseteq [open : SUBSET Tab, sent : SUBSET Message, trouble : SUBSET Fault]

VARIABLES
  seen,       \* browser -> the ids in bob:telegram-bridge-seen
  chain,      \* tab -> bridgeChain: the messages it will answer
  step,       \* tab -> what it does with the first of them
  awake,      \* the tabs that are not suspended
  ran,        \* <<browser, message>>: turns that settled
  forgot,     \* browser -> claimed ids that its list did not keep
  shed,       \* the messages a reload took out of a chain
  phone,      \* <<browser, message>>: answers the phone has received
  faults,     \* the faults so far
  day         \* which tabs, messages and faults there are

tabVars == <<seen, chain, step, awake>>
ghosts == <<ran, forgot, shed, phone, faults, day>>
vars == <<mailboxVars, tabVars, ghosts>>

Step == {"run", "relay", "ack", "wait"}
about(letter) == msg(letter.conv, letter.id)
first(t) == Head(chain[t])
message(t) == about(first(t))
chained(t) == {about(chain[t][i]) : i \in DOMAIN chain[t]}

Init ==
  /\ MailboxInit
  /\ seen = [b \in Browser |-> <<>>]
  /\ chain = [t \in Tab |-> <<>>]
  /\ step = [t \in Tab |-> "run"]
  /\ day \in Day /\ awake = day.open
  /\ ran = {} /\ shed = {}
  /\ forgot = [b \in Browser |-> {}]
  /\ phone = {}
  /\ faults = <<>>

-----------------------------------------------------------------------------
(* bridgeTick asks the inbox; with the answer it posts a heartbeat, drops  *)
(* what it saw or what was answered, remembers the rest and chains it.     *)
(* The heartbeat, which waits for no file, is handled as it is posted.     *)
bridgeTick(t) ==
  /\ t \in awake
  /\ startClaim(t)
  /\ UNCHANGED <<tabVars, ghosts>>

happened(kind) == \E i \in DOMAIN faults : faults[i] = kind

Fail(kind) ==
  /\ kind \in day.trouble
  /\ Len(faults) < MaxFaults
  /\ faults' = Append(faults, kind)
  /\ UNCHANGED day

(* Ids are compared without their chat.                                    *)
(* Mutant: what was answered is known only by its ack.                     *)
isFresh_Unacked(t, letter) == letter.id \notin claim[t].answered

isFresh(t, letter) ==
  /\ letter.id \notin idsOf(seen[BrowserOf[t]])
  /\ letter.id \notin claim[t].answered

(* The list in local storage: each id once, the new ones last, the oldest  *)
(* too many cut off.  A write that local storage refuses leaves it as it   *)
(* was, and the tab does not notice.                                       *)
once(s) == pick(s, {i \in DOMAIN s : \A j \in DOMAIN s : j < i => s[j] # s[i]})
remembered(s, ids) == newest(once(s) \o ids, SeenKeep)

remember(b, ids) ==
  /\ \/ /\ seen' = [seen EXCEPT ![b] = remembered(@, ids)]
        /\ UNCHANGED <<faults, day>>
     \/ /\ ids # <<>>
        /\ Fail("quota")
        /\ UNCHANGED seen
  /\ forgot' = [forgot EXCEPT ![b] = @ \cup ((idsOf(seen[b]) \cup idsOf(ids)) \ idsOf(seen'[b]))]

receiveClaim(t) ==
  LET letters == claim[t].letters
      fresh == pick(letters, {i \in DOMAIN letters : isFresh(t, letters[i])})
  IN  /\ t \in awake
      /\ claimDone(t) /\ claim[t].wanted
      /\ Len(chain[t]) + Len(fresh) <= MaxChain
      /\ claim' = [claim EXCEPT ![t] = NoClaim]
      /\ beatProfile(ProfileOf[t])
      /\ remember(BrowserOf[t], [i \in DOMAIN fresh |-> fresh[i].id])
      /\ chain' = [chain EXCEPT ![t] = @ \o fresh]
      /\ UNCHANGED <<files, stored, acks, step, awake, ran, shed, phone>>

(* The page that asked was reloaded: nobody reads the answer.              *)
dropClaim(t) ==
  /\ claimDone(t) /\ ~claim[t].wanted
  /\ claim' = [claim EXCEPT ![t] = NoClaim]
  /\ UNCHANGED <<files, registry, acks, tabVars, ghosts>>

-----------------------------------------------------------------------------
(* runBridgeMessage, for one message of the chain at a time.               *)
Doing(t, what) == t \in awake /\ chain[t] # <<>> /\ step[t] = what
Then(t, what) == step' = [step EXCEPT ![t] = what] /\ UNCHANGED chain
nextMessage(t) == step' = [step EXCEPT ![t] = "run"] /\ chain' = [chain EXCEPT ![t] = Tail(@)]

(* The turn settles, with an answer or an error text.                      *)
runTurn(t) ==
  /\ Doing(t, "run")
  /\ ran' = ran \cup {<<BrowserOf[t], message(t)>>}
  /\ Then(t, "relay")
  /\ UNCHANGED <<mailboxVars, seen, awake, forgot, shed, phone, faults, day>>

(* /api/relay: the chat has not moved to another profile, and the epoch of *)
(* the claim is not older than that of the binding.  What the relay says   *)
(* does not matter to the tab: it acknowledges.                            *)
mayRelay(t, c) ==
  \/ c \notin DOMAIN bindings
  \/ bindings[c].profile = ProfileOf[t] /\ first(t).epoch >= bindings[c].epoch

relay(t) ==
  /\ Doing(t, "relay")
  /\ phone' = IF mayRelay(t, first(t).conv)
                THEN phone \cup {<<BrowserOf[t], message(t)>>} ELSE phone
  /\ Then(t, "ack")
  /\ UNCHANGED <<mailboxVars, seen, awake, ran, forgot, shed, faults, day>>

(* Telegram refuses the answer (the relay says so, the tab acknowledges),  *)
(* or the channel cannot be reached (the message is given up).             *)
relayFails(t) ==
  /\ Doing(t, "relay")
  /\ Fail("refuse")
  /\ Then(t, "ack") \/ nextMessage(t)
  /\ UNCHANGED <<mailboxVars, seen, awake, ran, forgot, shed, phone>>

postAck(t) ==
  /\ Doing(t, "ack")
  /\ startAck(t, message(t))
  /\ Then(t, "wait")
  /\ UNCHANGED <<seen, awake, ghosts>>

(* The request is over, done, failed or lost with the channel.             *)
ackDone(t) ==
  /\ Doing(t, "wait")
  /\ \A a \in acks : a.tab = t => msg(a.conv, a.id) # message(t)
  /\ nextMessage(t)
  /\ UNCHANGED <<mailboxVars, seen, awake, ghosts>>

-----------------------------------------------------------------------------
(* A tab is suspended with everything it holds, or closed for good; one    *)
(* tab stays.  A suspended tab does not beat.                              *)
suspend(t) ==
  /\ t \in awake /\ awake # {t}
  /\ Fail("suspend")
  /\ awake' = awake \ {t}
  /\ UNCHANGED <<mailboxVars, seen, chain, step, ran, forgot, shed, phone>>

wake(t) ==
  /\ t \in day.open \ awake
  /\ awake' = awake \cup {t}
  /\ UNCHANGED <<mailboxVars, seen, chain, step, ghosts>>

(* A reload keeps local storage and forgets the chain.                     *)
reload(t) ==
  /\ t \in day.open
  /\ Fail("reload")
  /\ chain' = [chain EXCEPT ![t] = <<>>]
  /\ shed' = shed \cup chained(t)
  /\ step' = [step EXCEPT ![t] = "run"]
  /\ awake' = awake \cup {t}
  /\ claim' = [claim EXCEPT ![t].wanted = (claim[t].phase = "idle")]
  /\ UNCHANGED <<files, registry, acks, seen, ran, forgot, phone>>

silence(c) ==
  /\ expire(c)
  /\ \A t \in awake : ProfileOf[t] # bindings[c].profile
  /\ UNCHANGED <<tabVars, ghosts>>

restartChannel ==
  /\ Fail("restart")
  /\ restart
  /\ UNCHANGED <<tabVars, ran, forgot, shed, phone>>

(* Only a restart to come reads what was saved.                            *)
save == "restart" \in day.trouble /\ Len(faults) < MaxFaults /\ saveBindings

-----------------------------------------------------------------------------
TabStep(t) ==
  \/ bridgeTick(t) \/ receiveClaim(t)
  \/ runTurn(t) \/ relay(t) \/ postAck(t) \/ ackDone(t)

InboxStep(t) ==
  \/ /\ (\E c \in Conv : checkChat(t, c)) \/ readChat(t)
     /\ UNCHANGED <<tabVars, ghosts>>
  \/ dropClaim(t)

ChannelStep ==
  \/ /\ ackMessages \/ startSweep \/ save
     /\ UNCHANGED <<tabVars, ghosts>>
  \/ \E c \in Conv : silence(c)

Park == \E m \in day.sent : parkMessage(m) /\ UNCHANGED <<tabVars, ghosts>>

FaultStep ==
  \/ \E t \in Tab : suspend(t) \/ wake(t) \/ reload(t) \/ relayFails(t)
  \/ restartChannel

Next == Park \/ ChannelStep \/ FaultStep \/ \E t \in Tab : TabStep(t) \/ InboxStep(t)

Spec == Init /\ [][Next]_vars

(* Loops tick, requests are handled and answered, turns settle, a binding  *)
(* without a heartbeat expires.  A tab has one claim and one message in    *)
(* work at a time, so each is one process, and the channel is one.         *)
(* Nothing makes a tab wake up, a message arrive or a fault happen.        *)
Fairness ==
  /\ \A t \in Tab :
       /\ WF_vars(bridgeTick(t) \/ receiveClaim(t) \/ InboxStep(t))
       /\ WF_vars(runTurn(t) \/ relay(t) \/ postAck(t) \/ ackDone(t))
  /\ WF_vars(ChannelStep)

FairSpec == Spec /\ Fairness

-----------------------------------------------------------------------------
(* Properties.                                                             *)

(* Mailbox, registry and tabs keep their shape: requests of tabs are about *)
(* chats that exist, epochs are numbers, a chain holds claimed messages.   *)
TypeOK ==
  /\ MailboxTypeOK
  /\ seen \in [Browser -> Seq(Id)] /\ forgot \in [Browser -> SUBSET Id]
  /\ chain \in [Tab -> Seq(Letter)]
  /\ step \in [Tab -> Step]
  /\ awake \subseteq Tab /\ shed \subseteq Message
  /\ ran \subseteq Browser \X Message /\ phone \subseteq Browser \X Message
  /\ faults \in Seq(Fault) /\ day \in Day

parked(m) == m.id \in idsOf(mailbox[m.conv])
wasRun(m) == \E b \in Browser : <<b, m>> \in ran

(* telegram-bridge.ts: parked messages wait for a tab and are never        *)
(* touched.  A message leaves the mailbox only once some tab has run it.   *)
(* It does not hold: an ack writes back a mailbox it read before.          *)
NothingParkedIsLost == \A m \in arrived : parked(m) \/ wasRun(m)

(* "A reload mid-turn must not run the message twice": whatever claims,    *)
(* reloads and lost acks do, a browser does not run a message again unless *)
(* it forgot its id: local storage refused the list, or SeenKeep newer ids *)
(* have pushed it out.                                                     *)
RunsOnce ==
  [][\A t \in Tab :
       runTurn(t) => \/ <<BrowserOf[t], message(t)>> \notin ran
                     \/ first(t).id \in forgot[BrowserOf[t]]]_vars

(* A chat that a live tab owns is not taken from its profile, however the  *)
(* claims of two tabs interleave around the file reads.                    *)
owner(c) == bindings[c].profile
LiveOwnerStays ==
  [][\A c \in DOMAIN bindings :
       bindings[c].live => restartChannel \/ (c \in DOMAIN bindings' /\ owner(c)' = owner(c))]_vars

(* "If the tab dies before answering, the message stays parked and the     *)
(* next connection re-runs it": whatever is parked, and not overwritten,   *)
(* is run by some tab in the end.                                          *)
Rerun == \A m \in Message : m \in arrived ~> wasRun(m) \/ m \in overwritten

(* The same, with what the list of seen ids costs: a message is left when  *)
(* its id is that of a message of another chat, when a reload empties the  *)
(* chain that has it, and when the tab that has it is suspended while      *)
(* another of its browser lives.  Any other suspension, handovers,         *)
(* expiries, refused writes and restarts of the channel only delay it.     *)
clashes(m) == \E n \in arrived \ {m} : n.id = m.id
stranded(m) ==
  \E t \in Tab \ awake, u \in awake : m \in chained(t) /\ BrowserOf[u] = BrowserOf[t]
EventuallyRun ==
  \A m \in Message :
    m \in arrived ~> wasRun(m) \/ m \in overwritten \cup shed \/ clashes(m) \/ stranded(m)
=============================================================================
