---------------------------- MODULE MailboxLink -----------------------------
(***************************************************************************)
(* A browser tab that is paired with a desktop through the desktop's own    *)
(* mailbox: PeerManager and its PeerSessions (src/bridge/peer.ts), the file  *)
(* of paired browsers (src/bridge/store.ts), the tab's side                  *)
(* (web/src/server-link.ts, main.ts, sync-ui.ts).  Other than over a relay,  *)
(* a session lasts as long as its connection: to come back the tab makes a   *)
(* new channel with its key, and the desktop has a session for each.  A       *)
(* session and the two ends of its connection have the name of its channel;  *)
(* a key has the name of the pairing that minted it.  One profile: the       *)
(* records of other browsers in peers.json are left out.                     *)
(***************************************************************************)
EXTENDS PairingMailbox

CONSTANT MaxEvents   \* bound: pairings, revocations, faults of connections, tab, channels and desktop

VARIABLES
  session,   \* the desktop's PeerSession of each channel
  end,       \* the tab's end of each channel
  wire,      \* the data channel of each channel
  live,      \* liveByProfile: the session, of this profile
  peers,     \* peers.json: the key of this profile
  tmp,       \* peers.json.tmp, which every write goes through
  writes,    \* calls that change peers.json, by who makes them
  stored,    \* the key in the tab's storage
  events,    \* how many events there were
  retired,   \* history: keys that were saved when a revocation or a newer pairing wrote
  crossed    \* history: a write moved the tmp of another one, or found none

mailboxVars == <<mailbox, session, end, wire, live, peers, tmp, writes, stored, events,
                 retired, crossed>>

Key == {NoChannel} \cup Channel
NoKey == 0
Revocation == -1
Writer == Channel \cup {Revocation}

\* What awaits in a session: attaching, attachProfileLink; starting, startRuntime.
Session == [mode : {"none", "pairing", "reconnect"},
            phase : {"none", "waiting", "hello", "approval", "saving", "greeting", "resuming", "paired", "closed"},
            runtime : {"none", "attaching", "starting", "started"},
            closing : BOOLEAN]        \* closeSoon
End == [phase : {"none", "signaling", "negotiating", "compare", "live", "over"}, key : Key]
Frame == [op : {"hello", "server", "paired", "resume", "resumed", "ready", "error"}, key : Key]
frame(op) == [op |-> op, key |-> NoKey]
Wire == [up : BOOLEAN, toTab : Seq(Frame), toDesk : Seq(Frame)]
down == [up |-> FALSE, toTab |-> <<>>, toDesk |-> <<>>]
Write == {"none", "begun", "written", "done", "lost"}
NoFile == -1

TypeOK ==
  /\ MailboxTypeOK
  /\ session \in [Channel -> Session] /\ end \in [Channel -> End] /\ wire \in [Channel -> Wire]
  /\ live \in Key /\ stored \in Key
  /\ peers \in Key /\ tmp \in Key \cup {NoFile} /\ writes \in [Writer -> Write]
  /\ events \in 0 .. MaxEvents
  /\ retired \subseteq Channel /\ crossed \in BOOLEAN

newSession(mode, phase) == [mode |-> mode, phase |-> phase, runtime |-> "none", closing |-> FALSE]

Init ==
  /\ MailboxInit
  /\ session = [c \in Channel |-> newSession("none", "none")]
  /\ end = [c \in Channel |-> [phase |-> "none", key |-> NoKey]]
  /\ wire = [c \in Channel |-> down]
  /\ live = NoChannel /\ stored = NoKey /\ peers = NoKey /\ tmp = NoFile
  /\ writes = [w \in Writer |-> "none"]
  /\ events = 0
  /\ retired = {} /\ crossed = FALSE

event == events < MaxEvents /\ events' = events + 1

Closed(c) == session[c].phase = "closed"
Open(c) == session[c].phase \notin {"none", "closed"}
\* The session's link is not null.
Linked(c) == Open(c) /\ session[c].phase # "waiting"

-----------------------------------------------------------------------------
(* PeerManager and the end of a session                                     *)

\* dispose of the sessions in cs: connection and channel go along. What awaits in
\* a session goes on awaiting; the rest of a closed session nobody looks at.
disposed(s, cs) ==
  [c \in Channel |-> IF c \in cs /\ s[c].phase # "none"
     THEN [newSession(s[c].mode, "closed") EXCEPT !.runtime = IF s[c].runtime = "started" THEN "none" ELSE s[c].runtime]
     ELSE s[c]]
cut(w, cs) == [c \in Channel |-> IF c \in cs THEN down ELSE w[c]]

\* unregister: the entry of a session goes with it, that of another stays.
unregister(l, cs) == IF l \in cs THEN NoChannel ELSE l

\* The sessions in cs are disposed of, and nothing else happens.
ends(cs) ==
  /\ session' = disposed(session, cs)
  /\ wire' = cut(wire, cs)
  /\ mailbox' = closed(mailbox, cs)
  /\ live' = unregister(live, cs)

\* makeLive: the session that was live is disposed of.
\* Mutant: it is only forgotten.
replacedBy_Forgotten(c) == {}
replacedBy(c) == {live} \ {NoChannel, c}

makeLive(c) ==
  /\ session' = disposed([session EXCEPT ![c].runtime = "started"], replacedBy(c))
  /\ wire' = cut(wire, replacedBy(c))
  /\ mailbox' = closed(mailbox, replacedBy(c))
  /\ live' = c

\* The session goes on in another phase, or ends soon, and says so.
says(c, s, fs) ==
  /\ session' = [session EXCEPT ![c] = s]
  /\ wire' = [wire EXCEPT ![c].toTab = IF wire[c].up THEN @ \o fs ELSE @]
  /\ UNCHANGED <<mailbox, end, live>>
endsSoon(c) == [session[c] EXCEPT !.closing = TRUE]

-----------------------------------------------------------------------------
(* peers.json: savePeer, removePeer.  Each call writes the one tmp file and   *)
(* moves it: two that overlap may move each other's bytes, or find no file.    *)

begins(w) == writes' = [writes EXCEPT ![w] = "begun"]

record(w) == IF w = Revocation THEN NoKey ELSE w

writeTmp ==
  /\ \E w \in Writer :
       /\ writes[w] = "begun"
       /\ tmp' = record(w)
       /\ writes' = [writes EXCEPT ![w] = "written"]
  /\ UNCHANGED <<mailbox, session, end, wire, live, peers, stored, events, retired, crossed>>

renamed(w) ==
  /\ tmp # NoFile
  /\ peers' = tmp /\ tmp' = NoFile
  /\ writes' = [writes EXCEPT ![w] = "done"]
  /\ retired' = retired \cup {c \in Channel \ {w} : writes[c] = "done"}
  /\ UNCHANGED <<mailbox, session, end, wire, live>>

\* The rename throws: revoke fails; a pairing says so and ends soon.
notRenamed(w) ==
  /\ tmp = NoFile
  /\ writes' = [writes EXCEPT ![w] = "lost"]
  /\ IF w \in Channel /\ session[w].phase = "saving"
       THEN says(w, endsSoon(w), <<frame("error")>>)
       ELSE UNCHANGED <<mailbox, session, end, wire, live>>
  /\ UNCHANGED <<peers, tmp, retired>>

rename ==
  /\ \E w \in Writer :
       /\ writes[w] = "written"
       /\ crossed' = (crossed \/ tmp # record(w))
       /\ renamed(w) \/ notRenamed(w)
  /\ UNCHANGED <<stored, events>>

\* revoke: the live session is disposed of and the record removed.
revoke ==
  /\ event /\ writes[Revocation] \notin {"begun", "written"}
  /\ ends({live} \ {NoChannel})
  /\ begins(Revocation)
  /\ UNCHANGED <<end, peers, tmp, stored, retired, crossed>>
-----------------------------------------------------------------------------
(* The desktop's session                                                    *)

others == UNCHANGED <<stored, peers, tmp, events, retired, crossed>>
reply(c, fs) == [wire EXCEPT ![c].toDesk = Tail(@), ![c].toTab = @ \o fs]

\* `npm run pair`: a channel with a code and a session that waits for its offer.
createPairing(c) ==
  /\ event /\ fresh(c)
  /\ createChannel(c, TRUE)
  /\ session' = [session EXCEPT ![c] = newSession("pairing", "waiting")]
  /\ UNCHANGED <<end, wire, live, peers, tmp, writes, stored, retired, crossed>>

Waiting(c) == session[c].phase = "waiting" /\ ~session[c].closing

\* The session has waited ten minutes: it says so in the channel and ends soon.
Forsaken(c) == end[c].phase \in {"none", "over"}
timesOut(c) ==
  /\ Waiting(c)
  /\ mailbox' = append(c, "error")
  /\ session' = [session EXCEPT ![c] = endsSoon(c)]
offerTimesOut(c) ==
  /\ Forsaken(c) /\ timesOut(c)
  /\ UNCHANGED <<end, wire, live, writes>> /\ others

\* The offer is answered and the data channel opens. The tab names its profile.
open(c) ==
  /\ end[c].phase = "signaling" /\ reachable(c) /\ "offer" \in mailbox[c].signals /\ Waiting(c)
  /\ end' = [end EXCEPT ![c].phase = "negotiating"]
  /\ LET first == session[c].mode = "pairing" IN
       /\ session' = [session EXCEPT ![c].phase = IF first THEN "hello" ELSE "greeting"]
       /\ wire' = [wire EXCEPT ![c] = [up |-> TRUE, toTab |-> <<>>,
                                      toDesk |-> IF first THEN <<frame("hello")>> ELSE <<>>]]
  /\ UNCHANGED <<mailbox, live, writes>> /\ others

\* start, once the link is open, for a tab that comes back: it gets the nonce, if the
\* profile is known. (In a pairing the frame only informs.)
sendServer(c) ==
  /\ session[c].phase = "greeting"
  /\ \/ /\ peers # NoKey
        /\ says(c, [session[c] EXCEPT !.phase = "resuming"], <<frame("server")>>)
     \/ peers = NoKey /\ ends({c}) /\ UNCHANGED end
  /\ UNCHANGED writes /\ others

Asked(c) == session[c].phase = "approval" /\ ~session[c].closing

\* An approved pairing is saved, whatever becomes of its connection.
approve(c) ==
  /\ Asked(c)
  /\ says(c, [session[c] EXCEPT !.phase = "saving"], <<>>)
  /\ begins(c)
  /\ others

deny(c) ==
  /\ Asked(c)
  /\ says(c, endsSoon(c), <<frame("error")>>)
  /\ UNCHANGED writes /\ others

\* The key goes to the tab once it is saved.
\* Mutant: while it is.
isSaved_Early(c) == TRUE
isSaved(c) == writes[c] = "done"

paired(c) ==
  /\ session[c].phase = "saving" /\ isSaved(c)
  /\ says(c, [session[c] EXCEPT !.phase = "paired"], <<[op |-> "paired", key |-> c]>>)
  /\ UNCHANGED writes /\ others

\* The proof of a tab is checked against the record as it is now.
recognised(key) == key = peers

\* onControl resume: without a record there is no answer at all.
onResume(c, key) ==
  \/ peers = NoKey /\ UNCHANGED session /\ wire' = reply(c, <<>>)
  \/ /\ peers # NoKey /\ recognised(key)
     /\ session' = [session EXCEPT ![c].phase = "paired"]
     /\ wire' = reply(c, <<frame("resumed")>>)
  \/ /\ peers # NoKey /\ ~recognised(key)
     /\ session' = [session EXCEPT ![c] = endsSoon(c)]
     /\ wire' = reply(c, <<frame("error")>>)

\* onControl: the operator is asked once the tab has said its profile.
onControl(c) ==
  /\ wire[c].toDesk # <<>> /\ Open(c)
  /\ LET f == Head(wire[c].toDesk) IN
       \/ /\ f.op = "hello"
          /\ session' = [session EXCEPT ![c].phase = IF @ = "hello" THEN "approval" ELSE @]
          /\ wire' = reply(c, <<>>)
       \/ f.op = "resume" /\ onResume(c, f.key)
       \/ /\ f.op = "ready"
          /\ session' = [session EXCEPT ![c].runtime = IF @ = "none" THEN "attaching" ELSE @]
          /\ wire' = reply(c, <<>>)
  /\ UNCHANGED <<mailbox, end, live, writes>> /\ others

\* The desktop's process ends: sessions, channels and calls are gone, the files stay.
\* The operator starts it again.
processEnds ==
  /\ session' = [c \in Channel |-> [disposed(session, Channel)[c] EXCEPT !.runtime = "none"]]
  /\ wire' = cut(wire, Channel)
  /\ mailbox' = closed(mailbox, Channel)
  /\ live' = NoChannel
  /\ writes' = [w \in Writer |-> IF writes[w] \in {"begun", "written"} THEN "lost" ELSE writes[w]]

\* attachProfileLink after its awaits, and what follows when the catalogs have crossed and
\* both sides allow the profile: its engine is attached at once; what startRuntime does
\* first takes as long as the folder is large. With no connection left the constructor of
\* the profile link throws, which nothing catches.
attachProfileLink(c) ==
  /\ session[c].runtime = "attaching"
  /\ IF Linked(c)
       THEN /\ session' = [session EXCEPT ![c].runtime = "starting"]
            /\ UNCHANGED <<mailbox, wire, live, writes>>
       ELSE processEnds
  /\ UNCHANGED end /\ others

\* startRuntime after its awaits, with no look at whether the session still lives.
startRuntime(c) ==
  /\ session[c].runtime = "starting"
  /\ makeLive(c)
  /\ UNCHANGED <<end, writes, peers, tmp, stored, retired, crossed, events>>

\* onLinkClosed, and closeSoon.
onLinkClosed(c) ==
  /\ \/ Linked(c) /\ ~wire[c].up
     \/ session[c].closing
  /\ ends({c})
  /\ UNCHANGED <<end, writes>> /\ others

-----------------------------------------------------------------------------
(* The tab                                                                  *)

tabOnly == UNCHANGED <<live, peers, tmp, writes, events, retired, crossed>>

over(c) == [end EXCEPT ![c] = [phase |-> "over", key |-> NoKey]]

\* The user enters the code; the dialog does one pairing at a time.
join(c) ==
  /\ joinable(c)
  /\ \A d \in Channel : session[d].mode = "pairing" => end[d].phase \in {"none", "over"}
  /\ mailbox' = spend(c)
  /\ end' = [end EXCEPT ![c].phase = "signaling"]
  /\ UNCHANGED <<session, wire, stored>> /\ tabOnly

\* createReconnect, for a request of the tab whose key is in the file: the live session
\* is disposed of, and there is a channel with a session for the new connection.
createReconnect(c) ==
  LET olds == {live} \ {NoChannel} IN
  /\ fresh(c) /\ peers = stored
  /\ mailbox' = closed([mailbox EXCEPT ![c] = [state |-> "open", code |-> FALSE, signals |-> {"offer"}]], olds)
  /\ session' = disposed([session EXCEPT ![c] = newSession("reconnect", "waiting")], olds)
  /\ wire' = cut(wire, olds)
  /\ live' = unregister(live, olds)

\* connectServerPeer, at boot and every 20 seconds, when no connection is there and no
\* attempt under way. The attempt keeps the link as it was stored.
connectServerPeer(c) ==
  /\ stored # NoKey
  /\ \A d \in Channel : session[d].mode = "reconnect" =>
        end[d].phase = "over" \/ (end[d].phase = "live" /\ ~wire[d].up)
  /\ createReconnect(c)
  /\ end' = [end EXCEPT ![c] = [phase |-> "signaling", key |-> stored]]
  /\ UNCHANGED <<peers, tmp, writes, stored>> /\ UNCHANGED <<events, retired, crossed>>

\* The signal poll finds the channel gone, or the desktop's error.
\* Mutant: it goes on when there is nothing to read.
refused_BySignal(c) == "error" \in mailbox[c].signals
refused(c) == ~reachable(c) \/ "error" \in mailbox[c].signals

signalFails(c) ==
  /\ end[c].phase = "signaling" /\ refused(c)
  /\ end' = over(c)
  /\ UNCHANGED <<mailbox, session, wire, stored>> /\ tabOnly

\* finishHandshake stores the link of its attempt and is ready.
ready(c, rest) ==
  /\ stored' = end[c].key
  /\ end' = [end EXCEPT ![c].phase = "live"]
  /\ wire' = [rest EXCEPT ![c].toDesk = IF rest[c].up THEN Append(@, frame("ready")) ELSE @]

negotiate(c) ==
  /\ end[c].phase = "negotiating" /\ wire[c].toTab # <<>>
  /\ LET f == Head(wire[c].toTab)
         rest == [wire EXCEPT ![c].toTab = Tail(@)] IN
       \/ /\ f.op = "server"
          /\ wire' = [rest EXCEPT ![c].toDesk = Append(@, [op |-> "resume", key |-> end[c].key])]
          /\ UNCHANGED <<end, stored>>
       \/ /\ f.op = "paired"
          /\ end' = [end EXCEPT ![c] = [phase |-> "compare", key |-> f.key]]
          /\ wire' = rest /\ UNCHANGED stored
       \/ f.op = "resumed" /\ ready(c, rest)
       \/ /\ f.op = "error"
          /\ end' = over(c) /\ UNCHANGED stored
          /\ wire' = cut(wire, {c})
  /\ UNCHANGED <<mailbox, session>> /\ tabOnly

\* The user compares the phrase. A link through the mailbox is stored and the page
\* loaded again: the tab comes back with its key.
confirmPhrase(c) ==
  /\ end[c].phase = "compare"
  /\ ready(c, wire)
  /\ UNCHANGED <<mailbox, session>> /\ tabOnly

rejectPhrase(c) ==
  /\ end[c].phase = "compare"
  /\ end' = over(c)
  /\ wire' = cut(wire, {c})
  /\ UNCHANGED <<mailbox, session, stored>> /\ tabOnly

\* A page that is loaded knows the stored key only.
loads ==
  /\ end' = [c \in Channel |-> IF end[c].phase = "none" THEN end[c] ELSE over(c)[c]]
  /\ wire' = cut(wire, Channel)
  /\ UNCHANGED <<mailbox, session, live, peers, tmp, writes, stored>>

reloadAfterPairing ==
  /\ \E c \in Channel : session[c].mode = "pairing" /\ end[c].phase = "live"
  /\ loads
  /\ UNCHANGED <<events, retired, crossed>>

\* The timer of negotiate. Hopeless: no frame will come any more.
Hopeless(c) ==
  \/ ~wire[c].up
  \/ session[c].phase = "resuming" /\ ~session[c].closing /\ wire[c].toTab = <<>> /\ wire[c].toDesk = <<>>
fails(c) ==
  /\ end' = over(c)
  /\ wire' = cut(wire, {c})
  /\ UNCHANGED <<mailbox, session, live, peers, tmp, writes, stored>>
givesUp(c) ==
  /\ end[c].phase = "negotiating" /\ Hopeless(c)
  /\ fails(c)
  /\ UNCHANGED <<events, retired, crossed>>

-----------------------------------------------------------------------------
(* Faults                                                                   *)

drop(c) ==
  /\ wire[c].up
  /\ wire' = cut(wire, {c})
  /\ UNCHANGED <<mailbox, session, end, live, peers, tmp, writes, stored>>

slow(c) ==
  /\ end[c].phase \in {"signaling", "negotiating"}
  /\ fails(c)

slowOffer(c) ==
  /\ ~Forsaken(c) /\ timesOut(c)
  /\ UNCHANGED <<end, wire, live, peers, tmp, writes, stored>>

\* prune: a channel where nothing was said for ten minutes, or thirty.
prune(c) ==
  /\ reachable(c) /\ session[c].phase = "waiting"
  /\ mailbox' = closed(mailbox, {c})
  /\ UNCHANGED <<session, end, wire, live, peers, tmp, writes, stored>>

restart == processEnds /\ UNCHANGED <<end, peers, tmp, stored>>

Faulty ==
  /\ event
  /\ loads \/ restart \/ \E c \in Channel : drop(c) \/ slow(c) \/ slowOffer(c) \/ prune(c)
  /\ UNCHANGED <<retired, crossed>>

-----------------------------------------------------------------------------
Desktop(c) ==
  \/ offerTimesOut(c) \/ sendServer(c) \/ paired(c)
  \/ onControl(c) \/ attachProfileLink(c) \/ startRuntime(c) \/ onLinkClosed(c)

TabStep(c) == connectServerPeer(c) \/ signalFails(c) \/ negotiate(c) \/ givesUp(c)

\* What the operator and the user do.
People(c) == createPairing(c) \/ join(c) \/ approve(c) \/ deny(c) \/ confirmPhrase(c) \/ rejectPhrase(c)

\* What goes on by itself.
Steps ==
  \/ \E c \in Channel : Desktop(c) \/ TabStep(c) \/ open(c)
  \/ writeTmp \/ rename \/ reloadAfterPairing

MailboxNext == Steps \/ (\E c \in Channel : People(c)) \/ revoke \/ Faulty

Spec == Init /\ [][MailboxNext]_mailboxVars

\* Something goes on while anything can; nothing is said of any single step.
FairSpec == Spec /\ WF_mailboxVars(Steps)

-----------------------------------------------------------------------------
\* "The profile's live writer" (peer.ts:1269): a session that is ready and not disposed
\* of is the live one, so there is one at most, in whatever order sessions of several
\* connections get ready, close and are replaced.
OneWriter == \A c \in Channel : session[c].runtime = "started" /\ ~Closed(c) => live = c

\* Known is the key a tab stores: it is in peers.json until a revocation or another
\* pairing takes it out, in whatever order these begin and end. Excused are writes that
\* crossed in the one tmp file, after which the code keeps this no longer.
PairedIsKnown == crossed \/ stored \in retired \cup {NoKey, peers}

\* The same without the excuse: one of two crossing writes installs the record of the
\* other, and a tab is told a key that is not in the file.
AlwaysKnown == stored \in retired \cup {NoKey, peers}

Serving(c) ==
  session[c].mode = "reconnect" /\ session[c].phase = "paired" /\ end[c].phase = "live" /\ wire[c].up

\* The desktop does not end a connection that works, but for a newer one, for a
\* revocation, or when its process ends. The code does not keep this: an older session
\* whose folder took long replaces the newer one when it gets ready.
WorkingLinksStay ==
  [][\A c \in Channel :
       Serving(c) /\ session'[c].phase = "closed" =>
         \/ live' > c \/ writes'[Revocation] = "begun"
         \/ \A d \in Channel : session'[d].phase \in {"none", "closed"}]_mailboxVars

\* "No code or desktop action is needed again" (docs/pairing-and-sync.md:331): a tab
\* whose key is good (no revocation, newer pairing or crossed write took it out) is
\* connected again after the last fault.
ComesBack ==
  <>[](\/ \E c \in Channel : Serving(c) /\ live = c
       \/ stored \in {NoKey} \cup retired \/ crossed
       \/ \A c \in Channel : mailbox[c].state # "unmade")
=============================================================================
