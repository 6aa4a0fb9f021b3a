-------------------------- MODULE ProfileLinks --------------------------
(***************************************************************************)
(* Two paired browsers: MultiProfileSync (web/src/sync/index.ts) over      *)
(* ProfileLink (web/src/sync/profile-link.ts).  A link is one data channel *)
(* between the two, with an end on each side.  Its users compare a phrase; *)
(* once both confirmed, each end sends the catalog of its device and its   *)
(* consent, and a profile that both sides allow is attached: its engine    *)
(* gets a virtual peer over the link, and its files move.                  *)
(*                                                                         *)
(* A channel delivers in order.  What is on its way when an end closes may *)
(* be lost.  handleCatalog stops in the middle when it has to change an id *)
(* of this device, until the registry is written; everything else a device *)
(* does is one step, as a browser tab runs one callback at a time.         *)
(***************************************************************************)
EXTENDS ProfileCatalog, FiniteSets, Sequences

CONSTANTS Device,      \* the two browsers
          Link,        \* the channels they may open, as numbers in that order
          Profiles,    \* Profiles[d]: the catalogs d may start with
          Fresh,       \* Fresh[d]: the profiles d may create
          Calm,        \* bound: is the old channel closed, and the last catalog
                       \* dealt with, before a device pairs again?
          MaxChanges   \* bound: how often the users pair, allow, turn off, unlink
                       \* or create

ASSUME LinksAreNumbered == Link \subseteq Nat \ {0}
ASSUME TwoDevices == \E a, b \in Device : a # b /\ Device = {a, b}
ASSUME ProfilesAreEntries == /\ Profiles \in [Device -> SUBSET SUBSET Entry]
                             /\ Fresh \in [Device -> SUBSET Entry]

VARIABLES
  registry,  \* registry[d]: the profiles of d, its catalog
  store,     \* store[d]: what d remembers of the other device
  entry,     \* entry[d]: the session under the other's device id, or 0
  end,       \* end[d][l]: the end of link l at d
  chan,      \* chan[d][l]: the controls on their way to d
  task,      \* task[d]: the calls of handleCatalog of d that await the registry
  vetoed,    \* vetoed[d]: names the user of d turned off last, without
             \* those that a failed or an overtaken change of ids opens
  changes    \* what the users did, counted

vars == <<registry, store, entry, end, chan, task, vetoed, changes>>

Other(d) == CHOOSE o \in Device : o # d

NoLink == 0

EndState == [state : {"new", "open", "closed"},
             local : BOOLEAN, remote : BOOLEAN,   \* confirmed here, and there
             ready : BOOLEAN,
             keyed : BOOLEAN,                     \* known by the device id
             fresh : BOOLEAN,                     \* no catalog seen yet
             catalog : SUBSET Entry,              \* what it would send
             consent : ConsentMap,
             pending : SUBSET ConsentMap,             \* at most one, kept aside
             attached : SUBSET Id]
NewEnd == [state |-> "new", local |-> FALSE, remote |-> FALSE, ready |-> FALSE,
           keyed |-> FALSE, fresh |-> TRUE, catalog |-> {}, consent |-> NoConsent,
           pending |-> {}, attached |-> {}]

PhraseOk == [op |-> "phrase-ok"]
Mismatch == [op |-> "phrase-mismatch"]
CatalogMsg(c) == [op |-> "profile-catalog", profiles |-> c]
ConsentMsg(c) == [op |-> "profile-consent", profiles |-> c]
Control == {PhraseOk, Mismatch}
             \cup {CatalogMsg(c) : c \in SUBSET Entry}
             \cup {ConsentMsg(c) : c \in ConsentMap}

\* A handleCatalog that awaits: what it decided, the id it is changing and
\* those it has left, and the two catalogs it decided from.
AutoLink == [from : Id, remoteId : Id, to : Id, name : Name]
Task == [link : Link, links : SUBSET AutoLink, now : AutoLink, left : SUBSET AutoLink,
         local : SUBSET Entry, remote : SUBSET Entry]

TypeOK ==
  /\ registry \in [Device -> SUBSET Entry]
  /\ store \in [Device -> PeerRecord]
  /\ entry \in [Device -> Link \cup {NoLink}]
  /\ end \in [Device -> [Link -> EndState]]
  /\ chan \in [Device -> [Link -> Seq(Control)]]
  /\ task \in [Device -> SUBSET Task]
  /\ vetoed \in [Device -> SUBSET Name]
  /\ changes \in 0 .. MaxChanges

Open(d, l) == end[d][l].state = "open"

\* The sessions a device lists: those not known by the device id are listed
\* under a key of their own until they close.
Listed(d) == {l \in Link : Open(d, l) /\ ~end[d][l].keyed} \cup ({entry[d]} \ {NoLink})

-----------------------------------------------------------------------------
\* What the steps below share.

\* The channels after end d of link l sent the messages; a closed end sends
\* nothing and a closed other end receives nothing.
Sent(channels, d, l, messages) ==
  IF end[d][l].state = "open" /\ end[Other(d)][l].state = "open"
  THEN [channels EXCEPT ![Other(d)][l] = @ \o messages] ELSE channels

\* Ids with an engine on a session: those of the catalog that both allow.
applyConsent(record, catalog) == {i \in Ids(catalog) : effectiveAllow(record, i)}

\* ProfileLink.close and the onClosed of index.ts: the session is taken out by
\* its key, whichever session is under that key by now.
Close(d, l) ==
  /\ end' = [end EXCEPT ![d][l] = [@ EXCEPT !.state = "closed", !.ready = FALSE,
                                            !.attached = {}]]
  /\ entry' = [entry EXCEPT ![d] = IF end[d][l].keyed THEN NoLink ELSE @]

\* An end is ready once the phrase is confirmed here and there.
bothConfirmed(here, there) == here /\ there

\* The first messages of an end that gets ready.
Opening(d, l) == <<CatalogMsg(end[d][l].catalog), ConsentMsg(end[d][l].consent)>>

Init ==
  /\ registry \in {r \in [Device -> SUBSET Entry] : \A d \in Device : r[d] \in Profiles[d]}
  /\ store = [d \in Device |-> Unknown]
  /\ entry = [d \in Device |-> NoLink]
  /\ end = [d \in Device |-> [l \in Link |-> NewEnd]]
  /\ chan = [d \in Device |-> [l \in Link |-> <<>>]]
  /\ task = [d \in Device |-> {}]
  /\ vetoed = [d \in Device |-> {}]
  /\ changes = 0

-----------------------------------------------------------------------------
Acts == changes < MaxChanges /\ changes' = changes + 1

\* Pairing: a channel opens at both ends, and each waits for the phrase.
attachDevice(l) ==
  /\ Acts
  /\ \A d \in Device : end[d][l].state = "new"
  /\ \A d \in Device, k \in Link :
       /\ k < l => end[d][k].state # "new"
       /\ Calm => ~Open(d, k) /\ task[d] = {}
  /\ end' = [d \in Device |-> [end[d] EXCEPT ![l] =
               [@ EXCEPT !.state = "open", !.catalog = registry[d]]]]
  /\ UNCHANGED <<registry, store, entry, chan, task, vetoed>>

\* The user of d says that the phrases match.
confirmPhrase(d, l) ==
  /\ Open(d, l) /\ ~end[d][l].local
  /\ LET ready == bothConfirmed(TRUE, end[d][l].remote)
     IN /\ end' = [end EXCEPT ![d][l].local = TRUE, ![d][l].ready = ready]
        /\ chan' = Sent(chan, d, l, <<PhraseOk>> \o IF ready THEN Opening(d, l) ELSE <<>>)
  /\ UNCHANGED <<registry, store, entry, task, vetoed, changes>>

\* The user of d says that they do not, or does not answer in two minutes:
\* only the first is told to the other end.
rejectPhrase(d, l) ==
  /\ Open(d, l) /\ ~end[d][l].ready
  /\ Close(d, l)
  /\ \E told \in BOOLEAN :
       chan' = Sent([chan EXCEPT ![d][l] = <<>>], d, l, IF told THEN <<Mismatch>> ELSE <<>>)
  /\ UNCHANGED <<registry, store, task, vetoed, changes>>

\* The channel breaks, or its other end closed.
Closed(d, l) ==
  /\ Open(d, l)
  /\ Close(d, l)
  /\ chan' = [chan EXCEPT ![d][l] = <<>>]
  /\ UNCHANGED <<registry, store, task, vetoed, changes>>

\* The user of d ends all pairings and forgets the peer.
unpair(d) ==
  /\ Listed(d) # {}
  /\ end' = [end EXCEPT ![d] = [l \in Link |->
               IF l \notin Listed(d) THEN end[d][l]
               ELSE [end[d][l] EXCEPT !.state = "closed", !.ready = FALSE,
                                      !.attached = {}]]]
  /\ chan' = [chan EXCEPT ![d] = [l \in Link |->
               IF l \in Listed(d) THEN <<>> ELSE chan[d][l]]]
  /\ entry' = [entry EXCEPT ![d] = NoLink]
  /\ store' = [store EXCEPT ![d] = IF entry[d] # NoLink THEN Unknown ELSE @]
  /\ vetoed' = [vetoed EXCEPT ![d] = IF entry[d] # NoLink THEN {} ELSE @]
  /\ UNCHANGED <<registry, task, changes>>

-----------------------------------------------------------------------------
\* Controls that arrive.
Arrives(d, l, op) ==
  /\ Open(d, l)
  /\ chan[d][l] # <<>>
  /\ Head(chan[d][l]).op = op

Taken(d, l) == [chan EXCEPT ![d][l] = Tail(@)]

readyOnOk(d, l) == bothConfirmed(end[d][l].local, TRUE)

onPhraseOk(d, l) ==
  /\ Arrives(d, l, "phrase-ok")
  /\ LET ready == readyOnOk(d, l)
     IN /\ end' = [end EXCEPT ![d][l].remote = TRUE, ![d][l].ready = ready]
        /\ chan' = Sent(Taken(d, l), d, l, IF ready THEN Opening(d, l) ELSE <<>>)
  /\ UNCHANGED <<registry, store, entry, task, vetoed, changes>>

onPhraseMismatch(d, l) ==
  /\ Arrives(d, l, "phrase-mismatch")
  /\ Close(d, l)
  /\ chan' = [chan EXCEPT ![d][l] = <<>>]
  /\ UNCHANGED <<registry, store, task, vetoed, changes>>

\* What answers a catalog: this side's consent, and the own catalog when ids of
\* it changed (always, and it would go to and fro for ever).
\* Mutant: the consent is left out.
answer_NoConsent(links, catalog, record) ==
  IF Adoptions(links) # {} THEN <<CatalogMsg(catalog)>> ELSE <<>>
answer_Echo(links, catalog, record) == <<CatalogMsg(catalog), ConsentMsg(record.local)>>
answer(links, catalog, record) ==
  (IF Adoptions(links) # {} THEN <<CatalogMsg(catalog)>> ELSE <<>>)
    \o <<ConsentMsg(record.local)>>

\* Consent that arrived before the record is what the record starts with.
withPending(record, pending) ==
  IF pending = {} THEN record
  ELSE [record EXCEPT !.remote = CHOOSE c \in pending : TRUE]

\* The end of handleCatalog, once the ids are changed: the record, the key of
\* the session, and the consent of this side, which is always sent.
FinishCatalog(d, l, channels, record, t) ==
  LET final == withPending(upsertPeer(record, t.local, t.remote, t.links),
                           end[d][l].pending)
  IN /\ store' = [store EXCEPT ![d] = final]
     /\ entry' = [entry EXCEPT ![d] = IF end[d][l].keyed THEN @ ELSE l]
     /\ end' = [end EXCEPT ![d][l] =
                  [@ EXCEPT !.keyed = TRUE, !.fresh = FALSE, !.pending = {},
                            !.catalog = registry[d], !.consent = final.local,
                            !.attached = applyConsent(final, registry[d])]]
     /\ chan' = Sent(channels, d, l, answer(t.links, registry[d], final))

\* Changes an id in the registry, in memory, before it is awaited on disk; it
\* is refused when the profile is gone or the id is taken.
CanRelink(d, k) == k.from \in Ids(registry[d]) /\ k.to \notin Ids(registry[d])
relinkProfile(d, k) ==
  registry' = [registry EXCEPT ![d] =
    {IF e.id = k.from THEN [e EXCEPT !.id = k.to] ELSE e : e \in @}]

\* A call that ends while others await opens the ids they have given out, as
\* the consent of those is still under the old ids: it overrides vetoes.
Overridden(vetoes, others) == vetoes \ {t.now.name : t \in others}

\* A catalog or a consent would be dropped by an end that is not ready: none
\* arrives there (GateHolds).

\* handleCatalog up to its first await, or to its end when no id changes.  The
\* first catalog of a new pairing forgets what was known of the peer.
handleCatalog(d, l) ==
  /\ Arrives(d, l, "profile-catalog")
  /\ end[d][l].ready
  /\ LET remote == Head(chan[d][l]).profiles
         record == IF end[d][l].fresh THEN Unknown ELSE store[d]
         links == autoLinkProfiles(registry[d], remote, record)
         possible == {k \in Adoptions(links) : CanRelink(d, k)}
         t(k) == [link |-> l, links |-> links, now |-> k, left |-> possible \ {k},
                  local |-> registry[d], remote |-> remote]
         vetoes == IF end[d][l].fresh THEN {} ELSE vetoed[d]
     IN \/ /\ possible = {}
           /\ vetoed' = [vetoed EXCEPT ![d] = Overridden(vetoes, task[d])]
           /\ FinishCatalog(d, l, Taken(d, l), record,
                            [links |-> links, local |-> registry[d], remote |-> remote])
           /\ UNCHANGED <<registry, task>>
        \/ /\ vetoed' = [vetoed EXCEPT ![d] = vetoes]
           /\ \E k \in possible :
                /\ relinkProfile(d, k)
                /\ task' = [task EXCEPT ![d] = @ \cup {t(k)}]
           /\ store' = [store EXCEPT ![d] = record]
           /\ end' = [end EXCEPT ![d][l].fresh = FALSE]
           /\ chan' = Taken(d, l)
           /\ UNCHANGED entry
  /\ UNCHANGED changes

\* The call goes on with the next id or ends, whatever became of its session.
GoesOn(d, t, record, vetoes) ==
  LET left == {k \in t.left : CanRelink(d, k)}
  IN \/ /\ left = {}
        /\ vetoed' = [vetoed EXCEPT ![d] = Overridden(vetoes, task[d] \ {t})]
        /\ FinishCatalog(d, t.link, chan, record, t)
        /\ task' = [task EXCEPT ![d] = @ \ {t}]
        /\ UNCHANGED registry
     \/ /\ vetoed' = [vetoed EXCEPT ![d] = vetoes]
        /\ \E k \in left :
             /\ relinkProfile(d, k)
             /\ task' = [task EXCEPT ![d] =
                  (@ \ {t}) \cup {[t EXCEPT !.now = k, !.left = left \ {k}]}]
        /\ store' = [store EXCEPT ![d] = record]
        /\ UNCHANGED <<entry, end, chan>>

\* The registry is written: consent moves to the new id.
relinkDone(d, t) ==
  /\ GoesOn(d, t, remapPeerConsent(store[d], t.now.from, t.now.to), vetoed[d])
  /\ UNCHANGED changes

\* The registry cannot be written: it keeps the new id in memory, and consent
\* stays with the old one, so that what the user turned off is forgotten.
relinkFails(d, t) ==
  /\ GoesOn(d, t, store[d], vetoed[d] \ {t.now.name})
  /\ UNCHANGED changes

\* The peer's consent; kept aside while the session has no record.
handleConsent(d, l) ==
  /\ Arrives(d, l, "profile-consent")
  /\ end[d][l].ready
  /\ LET given == Head(chan[d][l]).profiles
         record == [store[d] EXCEPT !.remote = given]
     IN IF end[d][l].keyed /\ store[d].known
        THEN /\ store' = [store EXCEPT ![d] = record]
             /\ end' = [end EXCEPT ![d][l].attached = applyConsent(record, registry[d])]
        ELSE /\ end' = [end EXCEPT ![d][l].pending = {given}]
             /\ UNCHANGED store
  /\ chan' = Taken(d, l)
  /\ UNCHANGED <<registry, entry, task, vetoed, changes>>

-----------------------------------------------------------------------------
\* What the users do.

\* The profiles the dialog of d shows, and the names that stand for an id.
KnownAs(d) == registry[d] \cup store[d].profiles
NamesOf(profiles, i) == {e.name : e \in {f \in profiles : f.id = i}}

\* The profiles of d that its user turns off with id i: those whose name is not
\* allowed under another id.
TurnedOff(d, i) == {n \in NamesOf(registry[d], i) :
  \A e \in KnownAs(d) : e.name = n /\ e.id # i => store[d].local[e.id] # "yes"}

\* Writes the record and tells the session under the peer's id, if any.
Decide(d, record) ==
  LET l == entry[d]
  IN /\ store' = [store EXCEPT ![d] = record]
     /\ IF l = NoLink THEN UNCHANGED <<end, chan>>
        ELSE /\ end' = [end EXCEPT ![d][l].consent = record.local,
                                   ![d][l].attached = applyConsent(record, registry[d])]
             /\ chan' = IF end[d][l].ready
                        THEN Sent(chan, d, l, <<ConsentMsg(record.local)>>) ELSE chan

setProfileConsent(d, i, allow) ==
  /\ store[d].known
  /\ Acts
  /\ Decide(d, [store[d] EXCEPT !.local[i] = IF allow THEN "yes" ELSE "no"])
  /\ vetoed' = [vetoed EXCEPT ![d] = IF allow THEN @ \ NamesOf(KnownAs(d), i)
                                             ELSE @ \cup TurnedOff(d, i)]
  /\ UNCHANGED <<registry, entry, task>>

unlinkProfile(d, i) ==
  /\ store[d].known
  /\ Acts
  /\ Decide(d, [store[d] EXCEPT !.local[i] = "no", !.unlinkedIds = @ \cup {i}])
  /\ vetoed' = [vetoed EXCEPT ![d] = @ \cup TurnedOff(d, i)]
  /\ UNCHANGED <<registry, entry, task>>

\* A profile is created, with an id of its own or with that of a profile of the
\* peer, and every session is told.
refreshProfiles(d, e) ==
  /\ e \in Fresh[d] \cup store[d].profiles
  /\ \A f \in registry[d] : f.id # e.id /\ f.name # e.name
  /\ Acts
  /\ registry' = [registry EXCEPT ![d] = @ \cup {e}]
  /\ end' = [end EXCEPT ![d] = [l \in Link |->
       IF l \notin Listed(d) THEN end[d][l]
       ELSE [end[d][l] EXCEPT !.catalog = registry'[d],
               !.attached = IF end[d][l].keyed /\ store[d].known
                            THEN applyConsent(store[d], registry'[d]) ELSE @]]]
  /\ chan' = [chan EXCEPT ![Other(d)] = [l \in Link |->
       IF l \in Listed(d) /\ end[d][l].ready /\ Open(Other(d), l)
       THEN Append(chan[Other(d)][l], CatalogMsg(registry'[d])) ELSE chan[Other(d)][l]]]
  /\ UNCHANGED <<store, entry, task, vetoed>>

-----------------------------------------------------------------------------
Receive(d, l) ==
  \/ onPhraseOk(d, l) \/ onPhraseMismatch(d, l)
  \/ handleCatalog(d, l) \/ handleConsent(d, l)

UserActs(d) ==
  \/ \E i \in Ids(KnownAs(d)), allow \in BOOLEAN : setProfileConsent(d, i, allow)
  \/ \E i \in Ids(KnownAs(d)) : unlinkProfile(d, i)
  \/ \E e \in Entry : refreshProfiles(d, e)
  \/ unpair(d)

Next ==
  \/ \E l \in Link : attachDevice(l)
  \/ \E d \in Device, l \in Link :
       confirmPhrase(d, l) \/ rejectPhrase(d, l) \/ Closed(d, l) \/ Receive(d, l)
  \/ \E d \in Device : UserActs(d) \/ (\E t \in task[d] : relinkDone(d, t) \/ relinkFails(d, t))

\* The channel delivers and the registry gets written.
Fairness == \A d \in Device :
  /\ \A l \in Link : WF_vars(Receive(d, l))
  /\ WF_vars(\E t \in task[d] : relinkDone(d, t) \/ relinkFails(d, t))

Spec == Init /\ [][Next]_vars /\ Fairness

-----------------------------------------------------------------------------
IdOf(d, n) == {e.id : e \in {f \in registry[d] : f.name = n}}

\* What a user turned off stays off: no live session has it attached, through
\* changes of ids, reconnections and messages on their way, until the user
\* allows it again or the peer is paired anew; unless its id is being changed
\* while another call of handleCatalog ends, or the change fails, which both
\* forget what was turned off.
VetoIsFinal ==
  \A d \in Device, l \in Link : \A n \in vetoed[d] :
    Open(d, l) => end[d][l].attached \cap IdOf(d, n) = {}

\* Nothing but the phrase is exchanged until both users confirmed: an end is
\* ready only then, and no end drops a catalog or a consent.
GateHolds ==
  \A d \in Device, l \in Link :
    /\ end[d][l].ready => end[d][l].local /\ end[Other(d)][l].local
    /\ Open(d, l) /\ ~end[d][l].ready /\ chan[d][l] # <<>> =>
         Head(chan[d][l]).op \in {"phrase-ok", "phrase-mismatch"}

\* Nothing is on its way on a link whose ends are ready, and nobody awaits.
Settled(l) ==
  \A d \in Device : Open(d, l) /\ end[d][l].ready /\ chan[d][l] = <<>> /\ task[d] = {}

\* Two devices at rest agree: each knows the consent of the other as it is, and
\* a profile both have is attached at both ends or at none.
RestAgrees ==
  \A l \in Link : Settled(l) =>
    \A d \in Device :
      LET o == Other(d)
      IN /\ \A i \in Ids(registry[d]) :
              (store[d].remote[i] = "yes") = (store[o].local[i] = "yes")
         /\ \A i \in Ids(registry[d]) \cap Ids(registry[o]) :
              (i \in end[d][l].attached) = (i \in end[o][l].attached)

\* A link that stays open comes to rest.
Settles ==
  \A l \in Link :
    <>[](\A d \in Device : Open(d, l) /\ end[d][l].local) => <>[]Settled(l)

=============================================================================
