-------------------------- MODULE ServerLinkProofs --------------------------
(***************************************************************************)
(* Theorems about the link of a tab and a desktop, for every number of       *)
(* attempts, channels, faults and close events.  First the way over a relay: *)
(*   SignalingTypes    the type invariant of the signaling                   *)
(*   RequestsTakenUp   the watcher leaves no request behind                  *)
(*   ProvenPeers       a connection carries files only for a proven tab      *)
(*   PairingKept       what happens to connections does not end a pairing    *)
(* then the way through the desktop's own mailbox:                           *)
(*   MailboxTypes      the type invariant                                    *)
(*   OneLiveWriter     a profile has one live session at most                *)
(*   StoredIsKnown     the key a tab stores is known to the desktop          *)
(* OneLiveWriter holds by the sessions alone. StoredIsKnown needs to know    *)
(* where a key can be: it is on its way to the tab only after its write has  *)
(* ended, and a write that has ended stays the last one or is retired, as     *)
(* long as no two writes have crossed in the tmp file.                        *)
(* The run of ServerLink checks these properties of both ways together; a     *)
(* step there takes one way and leaves the variables of the other alone.      *)
(***************************************************************************)
EXTENDS ServerLink, SequenceTheorems, TLAPS

-----------------------------------------------------------------------------
(* The signaling alone: what the watcher has read it has read from the feed, *)
(* and a request among it is taken up.                                       *)

Read == watch.cursor <= Len(feed)
OnlyTabsAsk == \A i \in DOMAIN feed : feed[i].type = "reconnect" => feed[i].from = "tab"
TransportInv == TransportTypeOK /\ Read /\ OnlyTabsAsk /\ NoRequestSkipped

LEMMA GensFacts == Pairing \in Gens /\ Gens \subseteq Nat /\ NoGen \notin Gens
  BY GensAssumption DEF Gens, Pairing, NoGen

LEMMA TransportInitOK == TransportInit => TransportInv
<1>. SUFFICES ASSUME TransportInit PROVE TransportInv
  OBVIOUS
<1>1. [from |-> "desktop", type |-> "offer", gen |-> Pairing] \in Signal
  BY GensFacts DEF Signal
<1>2. feed \in Seq(Signal) /\ Len(feed) = 1
  BY <1>1 DEF TransportInit
<1>3. watch \in Watch /\ watch.cursor = 0 /\ gone \in BOOLEAN
  BY GensFacts DEF TransportInit, Watch
<1>4. \A i \in DOMAIN feed : i > 0
  BY <1>2, LenProperties
<1>5. OnlyTabsAsk
  BY <1>2, LenProperties DEF TransportInit, OnlyTabsAsk
<1>. QED BY <1>2, <1>3, <1>4, <1>5 DEF TransportInv, TransportTypeOK, Read, NoRequestSkipped

(* A message that is added is beyond what the watcher has read.              *)
LEMMA FeedGrows ==
  ASSUME TransportInv, NEW from \in {"desktop", "tab"},
         NEW type \in {"offer", "answer", "reconnect", "bye"}, NEW g \in Gens
  PROVE  /\ relaySignal(from, type, g) \in Seq(Signal)
         /\ Len(relaySignal(from, type, g)) = Len(feed) + 1
         /\ DOMAIN relaySignal(from, type, g) = 1 .. Len(feed) + 1
         /\ \A i \in DOMAIN feed : relaySignal(from, type, g)[i] = feed[i]
         /\ relaySignal(from, type, g)[Len(feed) + 1] = [from |-> from, type |-> type, gen |-> g]
         /\ DOMAIN feed = 1 .. Len(feed) /\ Len(feed) \in Nat
<1>1. [from |-> from, type |-> type, gen |-> g] \in Signal
  BY DEF Signal
<1>2. feed \in Seq(Signal)
  BY DEF TransportInv, TransportTypeOK
<1>. QED BY <1>1, <1>2, AppendProperties, LenProperties DEF relaySignal

LEMMA SignalKeeps ==
  ASSUME TransportInv, NEW from \in {"desktop", "tab"},
         NEW type \in {"offer", "answer", "reconnect", "bye"}, NEW g \in Gens,
         type = "reconnect" => from = "tab",
         feed' = relaySignal(from, type, g), gone' \in BOOLEAN,
         watch' \in Watch, watch'.cursor = watch.cursor, watch'.handled = watch.handled
  PROVE  TransportInv'
<1>1. /\ feed' \in Seq(Signal) /\ Len(feed') = Len(feed) + 1
      /\ DOMAIN feed' = 1 .. Len(feed) + 1
      /\ \A i \in DOMAIN feed : feed'[i] = feed[i]
      /\ feed'[Len(feed) + 1] = [from |-> from, type |-> type, gen |-> g]
      /\ DOMAIN feed = 1 .. Len(feed) /\ Len(feed) \in Nat
  BY FeedGrows
<1>2. watch.cursor \in Nat /\ watch.cursor <= Len(feed)
  BY DEF TransportInv, Read, TransportTypeOK, Watch
<1>3. ASSUME NEW i \in DOMAIN feed', i <= watch.cursor
      PROVE  i \in DOMAIN feed
  BY <1>1, <1>2, <1>3
<1>4. NoRequestSkipped'
  BY <1>1, <1>3 DEF TransportInv, NoRequestSkipped
<1>5. Read'
  BY <1>1, <1>2 DEF Read
<1>6. OnlyTabsAsk'
  <2>1. ASSUME NEW i \in DOMAIN feed', i # Len(feed) + 1
        PROVE  i \in DOMAIN feed
    BY <1>1, <2>1
  <2>. QED BY <1>1, <2>1 DEF TransportInv, OnlyTabsAsk
<1>. QED BY <1>1, <1>4, <1>5, <1>6 DEF TransportInv, TransportTypeOK

(* The offer that is open, and its answer, do not matter.                    *)
LEMMA OfferKeeps ==
  ASSUME TransportInv, feed' = feed, gone' \in BOOLEAN,
         watch' \in Watch, watch'.cursor = watch.cursor, watch'.handled = watch.handled
  PROVE  TransportInv'
  BY DEF TransportInv, TransportTypeOK, Read, OnlyTabsAsk, NoRequestSkipped

LEMMA NoOfferKeeps ==
  ASSUME TransportInv
  PROVE  /\ noOffer \in Watch /\ noOffer.cursor = watch.cursor /\ noOffer.handled = watch.handled
         /\ [watch EXCEPT !.answered = TRUE] \in Watch
         /\ [watch EXCEPT !.answered = TRUE].cursor = watch.cursor
         /\ [watch EXCEPT !.answered = TRUE].handled = watch.handled
         /\ watch \in Watch /\ gone \in BOOLEAN
  BY DEF TransportInv, TransportTypeOK, noOffer, Watch

LEMMA UnchangedKeeps == TransportInv /\ UNCHANGED transportVars => TransportInv'
  BY DEF TransportInv, TransportTypeOK, Read, OnlyTabsAsk, NoRequestSkipped, transportVars

LEMMA PollKeeps == TransportInv /\ pollAnswer => TransportInv'
<1>. SUFFICES ASSUME TransportInv, pollAnswer PROVE TransportInv'
  OBVIOUS
<1>1. watch' = noOffer \/ watch' = [watch EXCEPT !.answered = TRUE]
  BY DEF pollAnswer
<1>2. feed' = feed /\ gone' = gone
  BY DEF pollAnswer
<1>. QED BY <1>1, <1>2, NoOfferKeeps, OfferKeeps

(* The watcher reads one message: if it is a request, the request is taken up *)
(* now or was before.                                                         *)
LEMMA WatchKeeps == TransportInv /\ watchNext => TransportInv'
<1>. SUFFICES ASSUME TransportInv, watchNext PROVE TransportInv'
  OBVIOUS
<1>1. PICK i : i = watch.cursor + 1
  OBVIOUS
<1>2. /\ i \in DOMAIN feed /\ feed \in Seq(Signal) /\ Len(feed) \in Nat
      /\ DOMAIN feed = 1 .. Len(feed) /\ watch.cursor \in Nat /\ watch \in Watch /\ gone \in BOOLEAN
      /\ feed[i] \in Signal /\ feed[i].gen \in Gens
  <2>1. feed \in Seq(Signal) /\ watch \in Watch /\ gone \in BOOLEAN
    BY DEF TransportInv, TransportTypeOK
  <2>2. i \in DOMAIN feed
    BY <1>1 DEF watchNext
  <2>3. feed[i] \in Signal
    BY <2>1, <2>2, ElementOfSeq, LenProperties
  <2>. QED BY <2>1, <2>2, <2>3, LenProperties DEF Watch, Signal
<1>3. gone' = gone
  BY DEF watchNext
<1>4. CASE fresh(i)
  <2>1. /\ watch' = [watch EXCEPT !.cursor = i, !.offer = feed[i].gen,
                                  !.handled = @ \cup {feed[i].gen}, !.answered = FALSE]
        /\ feed' = relaySignal("desktop", "offer", feed[i].gen)
    BY <1>1, <1>4 DEF watchNext, lookedAt
  <2>2. /\ watch' \in Watch /\ watch'.cursor = i
        /\ watch'.handled = watch.handled \cup {feed[i].gen}
    <3>1. PICK g \in Gens : g = feed[i].gen
      BY <1>2
    <3>2. PICK h \in SUBSET Gens : h = watch.handled \cup {g}
      BY <1>2 DEF Watch
    <3>3. i \in Nat
      BY <1>1, <1>2
    <3>4. watch' = [watch EXCEPT !.cursor = i, !.offer = g, !.handled = h, !.answered = FALSE]
      BY <2>1, <3>1, <3>2
    <3>5. watch' \in Watch
      BY <1>2, <3>3, <3>4 DEF Watch
    <3>6. watch'.cursor = i /\ watch'.handled = h
      BY <1>2, <3>4 DEF Watch
    <3>. QED BY <3>1, <3>2, <3>5, <3>6
  <2>3. /\ feed' \in Seq(Signal) /\ Len(feed') = Len(feed) + 1
        /\ DOMAIN feed' = 1 .. Len(feed) + 1
        /\ \A k \in DOMAIN feed : feed'[k] = feed[k]
        /\ feed'[Len(feed) + 1] = [from |-> "desktop", type |-> "offer", gen |-> feed[i].gen]
    BY <1>2, <2>1, FeedGrows
  <2>4. NoRequestSkipped'
    <3>. SUFFICES ASSUME NEW k \in DOMAIN feed', feed'[k].type = "reconnect", k <= watch'.cursor
                  PROVE  feed'[k].gen \in watch'.handled
      BY DEF NoRequestSkipped
    <3>1. k \in DOMAIN feed /\ feed'[k] = feed[k]
      BY <1>2, <2>2, <2>3
    <3>2. CASE k = i
      BY <2>2, <3>1, <3>2
    <3>3. CASE k # i
      <4>1. k <= watch.cursor
        BY <1>1, <1>2, <2>2, <3>1, <3>3
      <4>. QED BY <2>2, <3>1, <4>1 DEF TransportInv, NoRequestSkipped
    <3>. QED BY <3>2, <3>3
  <2>5. Read'
    BY <1>2, <2>2, <2>3 DEF Read
  <2>6. OnlyTabsAsk'
    <3>1. ASSUME NEW k \in DOMAIN feed', k # Len(feed) + 1
          PROVE  k \in DOMAIN feed
      BY <1>2, <2>3, <3>1
    <3>. QED BY <1>2, <2>3, <3>1 DEF TransportInv, OnlyTabsAsk
  <2>. QED BY <1>2, <1>3, <2>2, <2>3, <2>4, <2>5, <2>6 DEF TransportInv, TransportTypeOK
<1>5. CASE ~fresh(i)
  <2>1. watch' = [watch EXCEPT !.cursor = i] /\ feed' = feed
    BY <1>1, <1>5 DEF watchNext, lookedAt
  <2>2. watch' \in Watch /\ watch'.cursor = i /\ watch'.handled = watch.handled
    BY <1>1, <1>2, <2>1 DEF Watch
  <2>3. feed[i].type = "reconnect" => feed[i].gen \in watch.handled
    BY <1>2, <1>5 DEF fresh, TransportInv, OnlyTabsAsk
  <2>4. NoRequestSkipped'
    <3>. SUFFICES ASSUME NEW k \in DOMAIN feed, feed[k].type = "reconnect", k <= i
                  PROVE  feed[k].gen \in watch.handled
      BY <2>1, <2>2 DEF NoRequestSkipped
    <3>1. CASE k = i
      BY <2>3, <3>1
    <3>2. CASE k # i
      <4>1. k <= watch.cursor
        BY <1>1, <1>2, <3>2
      <4>. QED BY <4>1 DEF TransportInv, NoRequestSkipped
    <3>. QED BY <3>1, <3>2
  <2>5. Read'
    BY <1>2, <2>1, <2>2 DEF Read
  <2>6. OnlyTabsAsk'
    BY <2>1 DEF TransportInv, OnlyTabsAsk
  <2>. QED BY <1>2, <1>3, <2>1, <2>2, <2>4, <2>5, <2>6 DEF TransportInv, TransportTypeOK
<1>. QED BY <1>4, <1>5

-----------------------------------------------------------------------------
(* Frames on a connection.                                                  *)

Ops == {"hello", "server", "paired", "resume", "resumed", "ready", "catalog", "error"}
Has(frames, op) == \E i \in DOMAIN frames : frames[i].op = op
In(frames, f) == \E i \in DOMAIN frames : frames[i] = f

LEMMA NoneHas == (\A op : ~Has(<<>>, op)) /\ (\A f : ~In(<<>>, f))
  BY DEF Has, In

LEMMA HasAppend ==
  ASSUME NEW T, NEW s \in Seq(T), NEW f \in T
  PROVE  /\ Append(s, f) \in Seq(T)
         /\ \A op : Has(Append(s, f), op) => Has(s, op) \/ f.op = op
         /\ \A g : In(Append(s, f), g) => In(s, g) \/ f = g
<1>1. /\ Append(s, f) \in Seq(T) /\ Len(s) \in Nat
      /\ DOMAIN Append(s, f) = 1 .. Len(s) + 1 /\ DOMAIN s = 1 .. Len(s)
      /\ Append(s, f)[Len(s) + 1] = f
      /\ \A i \in 1 .. Len(s) : Append(s, f)[i] = s[i]
  BY AppendProperties, LenProperties
<1>2. ASSUME NEW op, NEW i \in DOMAIN Append(s, f), Append(s, f)[i].op = op
      PROVE  Has(s, op) \/ f.op = op
  <2>1. CASE i = Len(s) + 1
    BY <1>1, <1>2, <2>1
  <2>2. CASE i # Len(s) + 1
    <3>1. i \in DOMAIN s
      BY <1>1, <2>2
    <3>. QED BY <1>1, <1>2, <3>1 DEF Has
  <2>. QED BY <2>1, <2>2
<1>3. ASSUME NEW g, NEW i \in DOMAIN Append(s, f), Append(s, f)[i] = g
      PROVE  In(s, g) \/ f = g
  <2>1. CASE i = Len(s) + 1
    BY <1>1, <1>3, <2>1
  <2>2. CASE i # Len(s) + 1
    <3>1. i \in DOMAIN s
      BY <1>1, <2>2
    <3>. QED BY <1>1, <1>3, <3>1 DEF In
  <2>. QED BY <2>1, <2>2
<1>4. \A op : Has(Append(s, f), op) => Has(s, op) \/ f.op = op
  BY <1>2 DEF Has
<1>5. \A g : In(Append(s, f), g) => In(s, g) \/ f = g
  BY <1>3 DEF In
<1>. QED BY <1>1, <1>4, <1>5

LEMMA HasTail ==
  ASSUME NEW T, NEW s \in Seq(T), s # <<>>
  PROVE  /\ Tail(s) \in Seq(T) /\ Head(s) \in T
         /\ Has(s, Head(s).op) /\ In(s, Head(s))
         /\ \A op : Has(Tail(s), op) => Has(s, op)
         /\ \A f : In(Tail(s), f) => In(s, f)
<1>1. /\ Tail(s) \in Seq(T) /\ Head(s) \in T /\ Head(s) = s[1]
      /\ Len(s) \in Nat /\ Len(s) >= 1 /\ Len(Tail(s)) = Len(s) - 1
      /\ \A i \in 1 .. Len(Tail(s)) : Tail(s)[i] = s[i + 1]
  BY HeadTailProperties, LenProperties, EmptySeq
<1>2. DOMAIN s = 1 .. Len(s) /\ DOMAIN Tail(s) = 1 .. Len(s) - 1
  BY <1>1, LenProperties
<1>3. Has(s, Head(s).op) /\ In(s, Head(s))
  <2>1. 1 \in DOMAIN s
    BY <1>1, <1>2
  <2>. QED BY <1>1, <2>1 DEF Has, In
<1>4. ASSUME NEW op, NEW i \in DOMAIN Tail(s), Tail(s)[i].op = op
      PROVE  Has(s, op)
  <2>1. i + 1 \in DOMAIN s /\ s[i + 1].op = op
    BY <1>1, <1>2, <1>4
  <2>. QED BY <2>1 DEF Has
<1>5. ASSUME NEW f, NEW i \in DOMAIN Tail(s), Tail(s)[i] = f
      PROVE  In(s, f)
  <2>1. i + 1 \in DOMAIN s /\ s[i + 1] = f
    BY <1>1, <1>2, <1>5
  <2>. QED BY <2>1 DEF In
<1>6. \A op : Has(Tail(s), op) => Has(s, op)
  BY <1>4 DEF Has
<1>7. \A f : In(Tail(s), f) => In(s, f)
  BY <1>5 DEF In
<1>. QED BY <1>1, <1>3, <1>6, <1>7

LEMMA HasConcat ==
  ASSUME NEW T, NEW s \in Seq(T), NEW t \in Seq(T)
  PROVE  /\ s \o t \in Seq(T)
         /\ \A op : Has(s \o t, op) => Has(s, op) \/ Has(t, op)
         /\ \A f : In(s \o t, f) => In(s, f) \/ In(t, f)
<1>1. /\ s \o t \in Seq(T) /\ Len(s) \in Nat /\ Len(t) \in Nat
      /\ DOMAIN (s \o t) = 1 .. Len(s) + Len(t)
      /\ DOMAIN s = 1 .. Len(s) /\ DOMAIN t = 1 .. Len(t)
      /\ \A i \in 1 .. Len(s) + Len(t) :
           (s \o t)[i] = IF i <= Len(s) THEN s[i] ELSE t[i - Len(s)]
  BY ConcatProperties, LenProperties
<1>2. ASSUME NEW op, NEW i \in DOMAIN (s \o t), (s \o t)[i].op = op
      PROVE  Has(s, op) \/ Has(t, op)
  <2>1. CASE i <= Len(s)
    <3>1. i \in DOMAIN s /\ s[i].op = op
      BY <1>1, <1>2, <2>1
    <3>. QED BY <3>1 DEF Has
  <2>2. CASE ~(i <= Len(s))
    <3>1. i - Len(s) \in DOMAIN t /\ t[i - Len(s)].op = op
      BY <1>1, <1>2, <2>2
    <3>. QED BY <3>1 DEF Has
  <2>. QED BY <2>1, <2>2
<1>3. ASSUME NEW f, NEW i \in DOMAIN (s \o t), (s \o t)[i] = f
      PROVE  In(s, f) \/ In(t, f)
  <2>1. CASE i <= Len(s)
    <3>1. i \in DOMAIN s /\ s[i] = f
      BY <1>1, <1>3, <2>1
    <3>. QED BY <3>1 DEF In
  <2>2. CASE ~(i <= Len(s))
    <3>1. i - Len(s) \in DOMAIN t /\ t[i - Len(s)] = f
      BY <1>1, <1>3, <2>2
    <3>. QED BY <3>1 DEF In
  <2>. QED BY <2>1, <2>2
<1>4. \A op : Has(s \o t, op) => Has(s, op) \/ Has(t, op)
  BY <1>2 DEF Has
<1>5. \A f : In(s \o t, f) => In(s, f) \/ In(t, f)
  BY <1>3 DEF In
<1>. QED BY <1>1, <1>4, <1>5

-----------------------------------------------------------------------------
(* The types.  The bound on the nonces is a bound of the model only.         *)

Nonces == Gens \X Nat
Frames == [op : Ops, nonce : Nonces]
Sessions == [phase : {"offering", "greeting", "hello", "approval", "saving", "paired", "closed", "crashed"},
             link : Maybe, nonce : Nonces, hello : BOOLEAN, authed : BOOLEAN, reconnecting : BOOLEAN,
             proving : SUBSET Nonces, proved : SUBSET Maybe,
             attaching : BOOLEAN, profileLink : Maybe, pending : BOOLEAN, synced : Maybe,
             deaf : SUBSET Gens, closing : BOOLEAN]
Tabs == [phase : {"code", "requested", "opening", "negotiating", "paired", "live", "idle", "failed", "dead"},
         gen : Gens, nonce : Nonces, confirmed : BOOLEAN, saved : BOOLEAN]
Wires == [gen : Maybe, toTab : Seq(Frames), toDesk : Seq(Frames)]

LinkTypes ==
  /\ session \in Sessions /\ tab \in Tabs /\ wire \in Wires
  /\ waiters \in Nat /\ greeting \subseteq Nonces

\* What lets a tab in: the frames under way and what the tab is about to say
\* already have their proof.
Attaches ==
  session.link # NoGen /\ (session.attaching \/ Has(wire.toDesk, "ready"))
    => session.authed /\ session.link \in session.proved /\ tab.confirmed
Greets ==
  /\ session.link # NoGen
  /\ Has(wire.toTab, "paired") \/ Has(wire.toTab, "resumed") \/ (tab.phase = "paired" /\ wire.gen # NoGen)
  => session.authed /\ session.link \in session.proved
Returns ==
  \/ tab.gen # Pairing \/ tab.saved
  \/ Has(wire.toDesk, "resume") \/ Has(wire.toTab, "resumed") \/ session.proving # {}
  => tab.confirmed
SameWire == session.link # NoGen /\ wire.gen # NoGen => wire.gen = session.link

LetIn == OnlyProvenPeers /\ Attaches /\ Greets /\ Returns /\ SameWire

Inv == TransportInv /\ LinkTypes /\ LetIn

(* Steps that let nobody in.                                                 *)

SessionEases ==
  /\ session'.link # NoGen => session'.link = session.link
  /\ session'.profileLink # NoGen => session'.profileLink = session.profileLink
  /\ session'.proving # {} => session.proving # {}
  /\ session'.link # NoGen \/ session'.profileLink # NoGen =>
       /\ session.authed => session'.authed
       /\ session.proved \subseteq session'.proved
       /\ session'.attaching => session.attaching

TabEases ==
  /\ tab.confirmed => tab'.confirmed
  /\ tab'.gen # Pairing => tab.gen # Pairing \/ tab.saved
  /\ tab'.saved => tab.saved
  /\ tab'.phase = "paired" => tab.phase = "paired"

WireEases ==
  /\ wire'.gen # NoGen => wire'.gen = wire.gen
  /\ \A op \in {"paired", "resume", "resumed", "ready"} :
       /\ Has(wire'.toTab, op) => Has(wire.toTab, op)
       /\ Has(wire'.toDesk, op) => Has(wire.toDesk, op)

LEMMA EasesKeeps ==
  ASSUME LetIn, SessionEases, TabEases, WireEases
  PROVE  LetIn'
<1>1. OnlyProvenPeers'
  BY DEF LetIn, OnlyProvenPeers, SessionEases, TabEases
<1>2. Attaches'
  BY DEF LetIn, Attaches, SessionEases, TabEases, WireEases
<1>3. Greets'
  BY DEF LetIn, Greets, SessionEases, TabEases, WireEases
<1>4. Returns'
  BY DEF LetIn, Returns, SessionEases, TabEases, WireEases
<1>5. SameWire'
  BY DEF LetIn, SameWire, SessionEases, WireEases
<1>. QED BY <1>1, <1>2, <1>3, <1>4, <1>5 DEF LetIn

LEMMA SessionSame == session' = session => SessionEases
  BY DEF SessionEases
LEMMA TabSame == tab' = tab => TabEases
  BY DEF TabEases
LEMMA WireSame == wire' = wire => WireEases
  BY DEF WireEases

LEMMA FramesOf ==
  /\ \A op \in Ops : frame(op) \in Frames /\ frame(op).op = op
  /\ \A op \in Ops, n \in Nonces : proof(op, n) \in Frames /\ proof(op, n).op = op
  BY GensFacts DEF frame, proof, Frames, NoNonce, Nonces

LEMMA ToTabOf ==
  ASSUME wire \in Wires, NEW f \in Frames, toTab(f)
  PROVE  /\ wire' \in Wires /\ wire'.gen = wire.gen /\ wire'.toDesk = wire.toDesk
         /\ \A op : Has(wire'.toTab, op) => Has(wire.toTab, op) \/ (f.op = op /\ wire.gen # NoGen)
         /\ \A g : In(wire'.toTab, g) => In(wire.toTab, g) \/ g = f
<1>1. wire.toTab \in Seq(Frames)
  BY DEF Wires
<1>2. PICK s : s = Append(wire.toTab, f)
  OBVIOUS
<1>3. /\ s \in Seq(Frames)
      /\ \A op : Has(s, op) => Has(wire.toTab, op) \/ f.op = op
      /\ \A g : In(s, g) => In(wire.toTab, g) \/ g = f
  BY <1>1, <1>2, HasAppend
<1>4. CASE wire.gen = NoGen
  <2>1. wire' = wire
    BY <1>4 DEF toTab, Wires
  <2>. QED BY <2>1
<1>5. CASE wire.gen # NoGen
  <2>1. wire' = [wire EXCEPT !.toTab = s]
    BY <1>2, <1>5 DEF toTab
  <2>2. wire' \in Wires /\ wire'.gen = wire.gen /\ wire'.toDesk = wire.toDesk /\ wire'.toTab = s
    BY <1>3, <2>1 DEF Wires
  <2>. QED BY <1>3, <1>5, <2>2
<1>. QED BY <1>4, <1>5

LEMMA ToDeskOf ==
  ASSUME NEW w \in Wires, NEW fs \in Seq(Frames)
  PROVE  /\ toDesk(w, fs) \in Wires /\ toDesk(w, fs).gen = w.gen /\ toDesk(w, fs).toTab = w.toTab
         /\ \A op : Has(toDesk(w, fs).toDesk, op) => Has(w.toDesk, op) \/ (Has(fs, op) /\ w.gen # NoGen)
         /\ \A g : In(toDesk(w, fs).toDesk, g) => In(w.toDesk, g) \/ In(fs, g)
<1>1. w.toDesk \in Seq(Frames)
  BY DEF Wires
<1>2. PICK s : s = w.toDesk \o fs
  OBVIOUS
<1>3. /\ s \in Seq(Frames)
      /\ \A op : Has(s, op) => Has(w.toDesk, op) \/ Has(fs, op)
      /\ \A g : In(s, g) => In(w.toDesk, g) \/ In(fs, g)
  BY <1>1, <1>2, HasConcat
<1>4. CASE w.gen = NoGen
  <2>1. toDesk(w, fs) = w
    BY <1>4 DEF toDesk, Wires
  <2>. QED BY <2>1
<1>5. CASE w.gen # NoGen
  <2>1. toDesk(w, fs) = [w EXCEPT !.toDesk = s]
    BY <1>2, <1>5 DEF toDesk
  <2>2. PICK v : v = toDesk(w, fs)
    OBVIOUS
  <2>3. v \in Wires /\ v.gen = w.gen /\ v.toTab = w.toTab /\ v.toDesk = s
    BY <1>3, <2>1, <2>2 DEF Wires
  <2>. QED BY <1>3, <1>5, <2>2, <2>3
<1>. QED BY <1>4, <1>5

(* The next frame for the tab, or for the desktop, is taken.                 *)
LEMMA RestOf ==
  ASSUME wire \in Wires, wire.toTab # <<>>, NEW rest, rest = [wire EXCEPT !.toTab = Tail(@)]
  PROVE  /\ rest \in Wires /\ rest.gen = wire.gen /\ rest.toDesk = wire.toDesk
         /\ Head(wire.toTab) \in Frames /\ Has(wire.toTab, Head(wire.toTab).op)
         /\ In(wire.toTab, Head(wire.toTab))
         /\ \A op : Has(rest.toTab, op) => Has(wire.toTab, op)
         /\ \A f : In(rest.toTab, f) => In(wire.toTab, f)
<1>1. wire.toTab \in Seq(Frames)
  BY DEF Wires
<1>2. PICK s : s = Tail(wire.toTab)
  OBVIOUS
<1>3. /\ s \in Seq(Frames) /\ Head(wire.toTab) \in Frames /\ Has(wire.toTab, Head(wire.toTab).op)
      /\ In(wire.toTab, Head(wire.toTab))
      /\ \A op : Has(s, op) => Has(wire.toTab, op)
      /\ \A f : In(s, f) => In(wire.toTab, f)
  BY <1>1, <1>2, HasTail
<1>4. rest \in Wires /\ rest.gen = wire.gen /\ rest.toDesk = wire.toDesk /\ rest.toTab = s
  BY <1>2, <1>3 DEF Wires
<1>. QED BY <1>3, <1>4

LEMMA ConsumedOf ==
  ASSUME wire \in Wires, wire.toDesk # <<>>
  PROVE  /\ Head(wire.toDesk) \in Frames /\ Has(wire.toDesk, Head(wire.toDesk).op)
         /\ In(wire.toDesk, Head(wire.toDesk))
         /\ Tail(wire.toDesk) \in Seq(Frames)
         /\ \A op : Has(Tail(wire.toDesk), op) => Has(wire.toDesk, op)
         /\ \A f : In(Tail(wire.toDesk), f) => In(wire.toDesk, f)
         /\ consumed => /\ wire' \in Wires /\ wire'.gen = wire.gen /\ wire'.toTab = wire.toTab
                        /\ \A op : Has(wire'.toDesk, op) => Has(wire.toDesk, op)
                        /\ \A f : In(wire'.toDesk, f) => In(wire.toDesk, f)
<1>1. wire.toDesk \in Seq(Frames)
  BY DEF Wires
<1>2. PICK s : s = Tail(wire.toDesk)
  OBVIOUS
<1>3. /\ s \in Seq(Frames) /\ Head(wire.toDesk) \in Frames /\ Has(wire.toDesk, Head(wire.toDesk).op)
      /\ In(wire.toDesk, Head(wire.toDesk))
      /\ \A op : Has(s, op) => Has(wire.toDesk, op)
      /\ \A f : In(s, f) => In(wire.toDesk, f)
  BY <1>1, <1>2, HasTail
<1>4. ASSUME consumed
      PROVE  wire' \in Wires /\ wire'.gen = wire.gen /\ wire'.toTab = wire.toTab /\ wire'.toDesk = s
  BY <1>2, <1>3, <1>4 DEF Wires, consumed
<1>. QED BY <1>2, <1>3, <1>4

LEMMA DownOf ==
  wire' = down => wire' \in Wires /\ WireEases
<1>1. <<>> \in Seq(Frames)
  BY EmptySeq
<1>2. down \in Wires /\ down.gen = NoGen /\ down.toTab = <<>> /\ down.toDesk = <<>>
  BY <1>1 DEF down, Wires, Maybe
<1>. QED BY <1>2, NoneHas DEF WireEases

LEMMA LostOf == anyLost => wire' = down
  BY DEF anyLost, lost

(* What the ends of a session leave.                                         *)
LEMMA DisposedOf ==
  ASSUME session \in Sessions
  PROVE  /\ session' = disposed => session' \in Sessions /\ SessionEases
         /\ session' = [disposed EXCEPT !.phase = "crashed"] => session' \in Sessions /\ SessionEases
<1>1. /\ disposed \in Sessions /\ disposed.link = NoGen /\ disposed.profileLink = NoGen
      /\ [disposed EXCEPT !.phase = "crashed"] \in Sessions
      /\ [disposed EXCEPT !.phase = "crashed"].link = NoGen
      /\ [disposed EXCEPT !.phase = "crashed"].profileLink = NoGen
      /\ disposed.proving = {} /\ [disposed EXCEPT !.phase = "crashed"].proving = {}
  BY DEF disposed, Sessions, Maybe
<1>. QED BY <1>1 DEF SessionEases

LEMMA ForgottenOf ==
  ASSUME session \in Sessions, session' = forgotten
  PROVE  session' \in Sessions /\ SessionEases
<1>1. session.profileLink # NoGen => session.profileLink \in Gens
  BY DEF Sessions, Maybe
<1>2. PICK d \in SUBSET Gens :
        d = IF session.profileLink = NoGen THEN session.deaf ELSE session.deaf \cup {session.profileLink}
  BY <1>1 DEF Sessions
<1>3. PICK r \in BOOLEAN : r = (session.reconnecting \/ session.phase = "paired")
  <2>1. (session.reconnecting \/ session.phase = "paired") \in BOOLEAN
    OBVIOUS
  <2>. QED BY <2>1, Zenon
<1>4. session' = [session EXCEPT !.link = NoGen, !.authed = FALSE, !.pending = FALSE,
                                 !.reconnecting = r, !.deaf = d, !.profileLink = NoGen]
  BY <1>2, <1>3 DEF forgotten
<1>5. NoGen \in Maybe
  BY DEF Maybe
<1>6. session'.link = NoGen /\ session'.profileLink = NoGen /\ session'.proving = session.proving
  BY <1>4 DEF Sessions
<1>7. session' \in Sessions
  <2>1. PICK s : s = [session EXCEPT !.link = NoGen, !.authed = FALSE, !.pending = FALSE]
    OBVIOUS
  <2>2. s \in Sessions
    BY <1>5, <2>1 DEF Sessions
  <2>3. PICK t : t = [s EXCEPT !.reconnecting = r, !.deaf = d]
    OBVIOUS
  <2>4. t \in Sessions
    BY <2>2, <2>3 DEF Sessions
  <2>5. [t EXCEPT !.profileLink = NoGen] \in Sessions
    BY <1>5, <2>4 DEF Sessions
  <2>6. session' = [t EXCEPT !.profileLink = NoGen]
    BY <1>4, <2>1, <2>3
  <2>. QED BY <2>5, <2>6
<1>. QED BY <1>6, <1>7 DEF SessionEases

LEMMA FailureOf ==
  ASSUME tab \in Tabs
  PROVE  /\ tab' = afterFailure => tab' \in Tabs /\ TabEases
         /\ \A p \in {"failed", "idle", "dead", "requested", "opening", "live"} :
              tab' = [tab EXCEPT !.phase = p] => tab' \in Tabs /\ TabEases
<1>1. ASSUME NEW p \in {"failed", "idle", "dead", "requested", "opening", "live"},
             tab' = [tab EXCEPT !.phase = p]
      PROVE  tab' \in Tabs /\ TabEases
  BY <1>1 DEF Tabs, TabEases
<1>2. afterFailure = [tab EXCEPT !.phase = "failed"] \/ afterFailure = [tab EXCEPT !.phase = "idle"]
  BY DEF afterFailure
<1>. QED BY <1>1, <1>2

-----------------------------------------------------------------------------
(* Every step keeps the types and lets in only a proven tab.                 *)

LEMMA InitInv == Init => Inv
<1>. SUFFICES ASSUME Init PROVE Inv
  OBVIOUS
<1>1. TransportInv
  BY TransportInitOK DEF Init
<1>2. <<>> \in Seq(Frames) /\ NoNonce \in Nonces
  BY EmptySeq, GensFacts DEF NoNonce, Nonces
<1>3. session \in Sessions
  BY <1>2 DEF Init, Sessions, Maybe
<1>4. tab \in Tabs
  BY <1>2, GensFacts DEF Init, Tabs
<1>5. wire \in Wires /\ wire.gen = NoGen /\ wire.toTab = <<>> /\ wire.toDesk = <<>>
  BY <1>2 DEF Init, Wires, Maybe, down
<1>6. waiters \in Nat /\ greeting \subseteq Nonces
  BY DEF Init
<1>7. LetIn
  BY <1>5, NoneHas DEF Init, LetIn, OnlyProvenPeers, Attaches, Greets, Returns, SameWire
<1>. QED BY <1>1, <1>3, <1>4, <1>5, <1>6, <1>7 DEF Inv, LinkTypes

(* Steps of the tab's signaling.                                             *)

LEMMA JoinKeeps == Inv /\ join => Inv'
<1>. SUFFICES ASSUME Inv, join PROVE Inv'
  OBVIOUS
<1>1. tab' \in Tabs /\ TabEases
  BY FailureOf DEF join, Inv, LinkTypes
<1>2. LetIn'
  BY <1>1, SessionSame, WireSame, EasesKeeps DEF join, tabOnly, Inv
<1>3. TransportInv'
  BY UnchangedKeeps DEF join, Inv
<1>. QED BY <1>1, <1>2, <1>3 DEF join, tabOnly, Inv, LinkTypes

LEMMA ConnectKeeps == Inv /\ connectServerPeer => Inv'
<1>. SUFFICES ASSUME Inv, connectServerPeer PROVE Inv'
  OBVIOUS
<1>1. session' = session /\ wire' = wire /\ waiters' = waiters /\ greeting' = greeting /\ tab.saved
  BY DEF connectServerPeer, tabOnly
<1>2. CASE tab.gen < MaxGens /\ requestReconnect(tab.gen + 1)
           /\ tab' = [tab EXCEPT !.phase = "requested", !.gen = @ + 1]
  <2>1. PICK g : g = tab.gen + 1
    OBVIOUS
  <2>2. g \in Gens
    BY <1>2, <2>1, GensAssumption DEF Inv, LinkTypes, Tabs, Gens
  <2>3. tab' = [tab EXCEPT !.phase = "requested", !.gen = g]
    BY <1>2, <2>1
  <2>4. tab' \in Tabs /\ TabEases
    BY <1>1, <2>2, <2>3 DEF Inv, LinkTypes, Tabs, TabEases
  <2>5. TransportInv'
    BY <1>2, <2>1, <2>2, SignalKeeps, NoOfferKeeps DEF requestReconnect, Inv
  <2>6. LetIn'
    BY <1>1, <2>4, SessionSame, WireSame, EasesKeeps DEF Inv
  <2>. QED BY <1>1, <2>4, <2>5, <2>6 DEF Inv, LinkTypes
<1>3. CASE tab' = [tab EXCEPT !.phase = "dead"] /\ UNCHANGED transportVars
  <2>1. tab' \in Tabs /\ TabEases
    BY <1>3, FailureOf DEF Inv, LinkTypes
  <2>2. LetIn'
    BY <1>1, <2>1, SessionSame, WireSame, EasesKeeps DEF Inv
  <2>. QED BY <1>1, <1>3, <2>1, <2>2, UnchangedKeeps DEF Inv, LinkTypes
<1>. QED BY <1>2, <1>3 DEF connectServerPeer

LEMMA AnswerKeeps == Inv /\ answer => Inv'
<1>. SUFFICES ASSUME Inv, answer PROVE Inv'
  OBVIOUS
<1>1. tab' \in Tabs /\ TabEases
  BY FailureOf DEF answer, Inv, LinkTypes
<1>2. LetIn'
  BY <1>1, SessionSame, WireSame, EasesKeeps DEF answer, tabOnly, Inv
<1>3. TransportInv'
  BY SignalKeeps, NoOfferKeeps DEF answer, answerOffer, Inv, LinkTypes, Tabs
<1>. QED BY <1>1, <1>2, <1>3 DEF answer, tabOnly, Inv, LinkTypes

LEMMA SignalFailsKeeps == Inv /\ signalFails => Inv'
<1>. SUFFICES ASSUME Inv, signalFails PROVE Inv'
  OBVIOUS
<1>1. \/ tab' = [tab EXCEPT !.phase = "failed"]
      \/ tab' = [tab EXCEPT !.phase = "idle"]
      \/ tab' = [tab EXCEPT !.phase = "dead"]
  BY DEF signalFails, afterFailure, Inv, LinkTypes, Tabs
<1>2. tab' \in Tabs /\ TabEases
  BY <1>1, FailureOf DEF Inv, LinkTypes
<1>3. LetIn'
  BY <1>2, SessionSame, WireSame, EasesKeeps DEF signalFails, tabOnly, Inv
<1>4. TransportInv'
  BY UnchangedKeeps DEF signalFails, Inv
<1>. QED BY <1>2, <1>3, <1>4 DEF signalFails, tabOnly, Inv, LinkTypes

(* A new connection starts with empty queues.                                *)
LEMMA OpenKeeps == Inv /\ open => Inv'
<1>. SUFFICES ASSUME Inv, open PROVE Inv'
  OBVIOUS
<1>1. PICK g \in Gens : g = watch.offer
  BY DEF open, Inv, TransportInv, TransportTypeOK, Watch
<1>2. PICK calls \in Nat : calls = IF g = Pairing THEN 1 ELSE waiters
  BY DEF Inv, LinkTypes
<1>3. PICK hellos : hellos = IF g = Pairing THEN <<frame("hello")>> ELSE <<>>
  OBVIOUS
<1>4. wire' = [gen |-> g, toTab |-> <<>>, toDesk |-> hellos]
  BY <1>1, <1>3 DEF open
<1>5. hellos \in Seq(Frames) /\ ~Has(hellos, "ready") /\ ~Has(hellos, "resume")
  <2>1. frame("hello") \in Frames /\ frame("hello").op = "hello"
    BY FramesOf DEF Ops
  <2>2. <<frame("hello")>> \in Seq(Frames) /\ ~Has(<<frame("hello")>>, "ready") /\ ~Has(<<frame("hello")>>, "resume")
    BY <2>1 DEF Has
  <2>3. <<>> \in Seq(Frames) /\ ~Has(<<>>, "ready") /\ ~Has(<<>>, "resume")
    BY NoneHas, EmptySeq
  <2>. QED BY <1>3, <2>2, <2>3
<1>6. wire' \in Wires /\ wire'.toTab = <<>> /\ wire'.toDesk = hellos
  BY <1>4, <1>5, EmptySeq DEF Wires, Maybe
<1>7. NoNonce \in Nonces
  BY GensFacts DEF NoNonce, Nonces
<1>8. /\ tab' \in Tabs /\ tab'.phase = "negotiating" /\ tab'.gen = tab.gen
      /\ tab'.saved = tab.saved /\ tab'.confirmed = tab.confirmed
  BY <1>7 DEF open, Inv, LinkTypes, Tabs
<1>9. /\ session' \in Sessions /\ session'.profileLink = session.profileLink
      /\ session'.authed = session.authed /\ session'.attaching = session.attaching
      /\ session'.proved = session.proved /\ session'.proving = session.proving
      /\ session'.link = g
  <2>1. PICK p : p = IF g = Pairing THEN "greeting" ELSE session.phase
    OBVIOUS
  <2>2. session' = [session EXCEPT !.link = g, !.phase = p]
    BY <1>1, <2>1 DEF open
  <2>3. p \in {"offering", "greeting", "hello", "approval", "saving", "paired", "closed", "crashed"}
    BY <2>1 DEF Inv, LinkTypes, Sessions
  <2>. QED BY <2>2, <2>3 DEF Inv, LinkTypes, Sessions, Maybe
<1>10. greeting' \subseteq Nonces
  BY <1>1, <1>2 DEF open, Nonces, Inv, LinkTypes
<1>11. TransportInv'
  BY NoOfferKeeps, OfferKeeps DEF open, Inv
<1>12. ~session.attaching /\ wire'.gen = g
  BY <1>4 DEF open
<1>13. LetIn'
  <2>1. ~Has(wire'.toDesk, "ready") /\ ~Has(wire'.toDesk, "resume")
        /\ ~Has(wire'.toTab, "paired") /\ ~Has(wire'.toTab, "resumed")
    BY <1>5, <1>6, NoneHas
  <2>2. OnlyProvenPeers'
    BY <1>8, <1>9 DEF Inv, LetIn, OnlyProvenPeers
  <2>. QED BY <1>8, <1>9, <1>12, <2>1, <2>2 DEF Inv, LetIn, Attaches, Greets, Returns, SameWire
<1>. QED BY <1>6, <1>8, <1>9, <1>10, <1>11, <1>13 DEF open, Inv, LinkTypes

(* Steps of the desktop's session.                                           *)

LEMMA ServerKeeps == Inv /\ sendServer => Inv'
<1>. SUFFICES ASSUME Inv, sendServer PROVE Inv'
  OBVIOUS
<1>1. PICK n \in greeting :
        /\ greeting' = greeting \ {n}
        /\ session' = [session EXCEPT !.nonce = n, !.phase = IF n[1] = Pairing THEN "hello" ELSE @]
        /\ IF wire.gen = n[1] THEN toTab(proof("server", n)) ELSE wire' = wire
  BY DEF sendServer
<1>2. n \in Nonces
  BY DEF Inv, LinkTypes
<1>3. session' \in Sessions /\ SessionEases
  <2>1. PICK p : p = IF n[1] = Pairing THEN "hello" ELSE session.phase
    OBVIOUS
  <2>2. session' = [session EXCEPT !.nonce = n, !.phase = p]
    BY <1>1, <2>1
  <2>3. p \in {"offering", "greeting", "hello", "approval", "saving", "paired", "closed", "crashed"}
    BY <2>1 DEF Inv, LinkTypes, Sessions
  <2>. QED BY <1>2, <2>2, <2>3 DEF Inv, LinkTypes, Sessions, SessionEases
<1>4. wire' \in Wires /\ WireEases
  <2>1. proof("server", n) \in Frames /\ proof("server", n).op = "server"
    BY <1>2, FramesOf DEF Ops
  <2>2. wire \in Wires
    BY DEF Inv, LinkTypes
  <2>3. CASE toTab(proof("server", n))
    BY <2>1, <2>2, <2>3, ToTabOf DEF WireEases
  <2>4. CASE wire' = wire
    BY <2>2, <2>4, WireSame
  <2>. QED BY <1>1, <2>3, <2>4
<1>5. LetIn'
  BY <1>3, <1>4, TabSame, EasesKeeps DEF sendServer, deskOnly, Inv
<1>6. TransportInv'
  BY UnchangedKeeps DEF sendServer, Inv
<1>. QED BY <1>1, <1>3, <1>4, <1>5, <1>6 DEF sendServer, deskOnly, Inv, LinkTypes

(* The phases of a session: none lets a tab in.                              *)
LEMMA PhaseOf ==
  ASSUME session \in Sessions
  PROVE  /\ \A p \in {"approval", "saving"} :
              session' = [session EXCEPT !.phase = p] => session' \in Sessions /\ SessionEases
         /\ session' = [session EXCEPT !.hello = TRUE] => session' \in Sessions /\ SessionEases
         /\ session' = [session EXCEPT !.closing = TRUE] => session' \in Sessions /\ SessionEases
         /\ session' = [session EXCEPT !.pending = TRUE] => session' \in Sessions /\ SessionEases
         /\ session' = [session EXCEPT !.synced = session.profileLink] => session' \in Sessions /\ SessionEases
<1>1. ASSUME NEW p \in {"approval", "saving"}, session' = [session EXCEPT !.phase = p]
      PROVE  session' \in Sessions /\ SessionEases
  BY <1>1 DEF Sessions, SessionEases
<1>2. ASSUME session' = [session EXCEPT !.hello = TRUE]
      PROVE  session' \in Sessions /\ SessionEases
  BY <1>2 DEF Sessions, SessionEases
<1>3. ASSUME session' = [session EXCEPT !.closing = TRUE]
      PROVE  session' \in Sessions /\ SessionEases
  BY <1>3 DEF Sessions, SessionEases
<1>4. ASSUME session' = [session EXCEPT !.pending = TRUE]
      PROVE  session' \in Sessions /\ SessionEases
  BY <1>4 DEF Sessions, SessionEases
<1>5. ASSUME session' = [session EXCEPT !.synced = session.profileLink]
      PROVE  session' \in Sessions /\ SessionEases
  BY <1>5 DEF Sessions, SessionEases
<1>. QED BY <1>1, <1>2, <1>3, <1>4, <1>5

LEMMA AwaitApprovalKeeps == Inv /\ awaitApproval => Inv'
<1>. SUFFICES ASSUME Inv, awaitApproval PROVE Inv'
  OBVIOUS
<1>1. session' \in Sessions /\ SessionEases
  BY PhaseOf DEF awaitApproval, Inv, LinkTypes
<1>2. LetIn'
  BY <1>1, TabSame, WireSame, EasesKeeps DEF awaitApproval, deskOnly, Inv
<1>3. TransportInv'
  BY UnchangedKeeps DEF awaitApproval, Inv
<1>. QED BY <1>1, <1>2, <1>3 DEF awaitApproval, deskOnly, Inv, LinkTypes

LEMMA ApproveKeeps == ASSUME NEW ok \in BOOLEAN PROVE Inv /\ approve(ok) => Inv'
<1>. SUFFICES ASSUME Inv, approve(ok) PROVE Inv'
  OBVIOUS
<1>1. session' \in Sessions /\ SessionEases
  BY PhaseOf DEF approve, Inv, LinkTypes
<1>2. wire' \in Wires /\ WireEases
  <2>1. frame("error") \in Frames /\ frame("error").op = "error"
    BY FramesOf DEF Ops
  <2>2. wire \in Wires
    BY DEF Inv, LinkTypes
  <2>3. CASE toTab(frame("error"))
    BY <2>1, <2>2, <2>3, ToTabOf DEF WireEases
  <2>4. CASE wire' = wire
    BY <2>2, <2>4, WireSame
  <2>. QED BY <2>3, <2>4 DEF approve
<1>3. LetIn'
  BY <1>1, <1>2, TabSame, EasesKeeps DEF approve, deskOnly, Inv
<1>4. TransportInv'
  BY UnchangedKeeps DEF approve, Inv
<1>. QED BY <1>1, <1>2, <1>3, <1>4 DEF approve, deskOnly, Inv, LinkTypes

(* The operator's approval is the first proof.                               *)
LEMMA PairedKeeps == Inv /\ paired => Inv'
<1>. SUFFICES ASSUME Inv, paired PROVE Inv'
  OBVIOUS
<1>1. /\ session' \in Sessions /\ session'.authed = TRUE /\ session'.link = session.link
      /\ session'.profileLink = session.profileLink /\ session'.attaching = session.attaching
      /\ session'.proving = session.proving /\ session'.proved = session.proved \cup {session.link}
  BY DEF paired, Inv, LinkTypes, Sessions
<1>2. frame("paired") \in Frames /\ frame("paired").op = "paired"
  BY FramesOf DEF Ops
<1>3. /\ wire' \in Wires /\ wire'.gen = wire.gen /\ wire'.toDesk = wire.toDesk
      /\ \A op : Has(wire'.toTab, op) => Has(wire.toTab, op) \/ op = "paired"
  BY <1>2, ToTabOf DEF paired, Inv, LinkTypes
<1>4. tab' = tab
  BY DEF paired, deskOnly
<1>5. LetIn'
  BY <1>1, <1>3, <1>4 DEF Inv, LetIn, OnlyProvenPeers, Attaches, Greets, Returns, SameWire
<1>6. TransportInv'
  BY UnchangedKeeps DEF paired, Inv
<1>. QED BY <1>1, <1>3, <1>5, <1>6 DEF paired, deskOnly, Inv, LinkTypes

(* A frame of the tab: a proof is looked up, and a frame that says ready opens *)
(* the way to a ProfileLink.                                                  *)
LEMMA ResumeKeeps ==
  ASSUME Inv, wire.toDesk # <<>>, Head(wire.toDesk).op = "resume", onResume(Head(wire.toDesk).nonce),
         tab' = tab
  PROVE  session' \in Sessions /\ wire' \in Wires /\ LetIn'
<1>1. PICK n : n = Head(wire.toDesk).nonce
  OBVIOUS
<1>2. PICK rest : rest = Tail(wire.toDesk)
  OBVIOUS
<1>3. PICK sent : sent = wire.toTab
  OBVIOUS
<1>4. /\ n \in Nonces /\ rest \in Seq(Frames) /\ sent \in Seq(Frames)
      /\ Has(wire.toDesk, "resume")
      /\ \A op : Has(rest, op) => Has(wire.toDesk, op)
  BY <1>1, <1>2, <1>3, ConsumedOf DEF Inv, LinkTypes, Frames, Wires
<1>5. tab.confirmed
  BY <1>4 DEF Inv, LetIn, Returns
<1>6. CASE session.reconnecting
  <2>1. PICK ns \in SUBSET Nonces : ns = session.proving \cup {n}
    BY <1>4 DEF Inv, LinkTypes, Sessions
  <2>2. session' = [session EXCEPT !.proving = ns] /\ wire' = [wire EXCEPT !.toDesk = rest]
    BY <1>1, <1>2, <1>6, <2>1 DEF onResume
  <2>3. /\ session' \in Sessions /\ session'.authed = session.authed /\ session'.link = session.link
        /\ session'.profileLink = session.profileLink /\ session'.attaching = session.attaching
        /\ session'.proved = session.proved
    BY <2>2 DEF Inv, LinkTypes, Sessions
  <2>4. wire' \in Wires /\ wire'.gen = wire.gen /\ wire'.toTab = wire.toTab /\ wire'.toDesk = rest
    BY <1>4, <2>2 DEF Inv, LinkTypes, Wires
  <2>5. LetIn'
    BY <1>4, <1>5, <2>3, <2>4 DEF Inv, LetIn, OnlyProvenPeers, Attaches, Greets, Returns, SameWire
  <2>. QED BY <2>3, <2>4, <2>5
<1>7. CASE ~session.reconnecting
  <2>1. PICK f : f = frame("error")
    OBVIOUS
  <2>2. f \in Frames /\ f.op = "error"
    BY <2>1, FramesOf DEF Ops
  <2>3. PICK s : s = Append(sent, f)
    OBVIOUS
  <2>4. s \in Seq(Frames) /\ \A op : Has(s, op) => Has(sent, op) \/ op = "error"
    BY <1>4, <2>2, <2>3, HasAppend
  <2>5. session' = session /\ wire' = [wire EXCEPT !.toTab = s, !.toDesk = rest]
    BY <1>1, <1>2, <1>3, <1>7, <2>1, <2>3 DEF onResume
  <2>6. wire' \in Wires /\ wire'.gen = wire.gen /\ wire'.toTab = s /\ wire'.toDesk = rest
    BY <1>4, <2>4, <2>5 DEF Inv, LinkTypes, Wires
  <2>7. WireEases
    BY <1>3, <1>4, <2>4, <2>6 DEF WireEases
  <2>8. LetIn'
    BY <2>5, <2>7, SessionSame, TabSame, EasesKeeps DEF Inv
  <2>. QED BY <2>5, <2>6, <2>8 DEF Inv, LinkTypes
<1>. QED BY <1>6, <1>7

(* The proof lets the connection in on which it came, and that one is told:   *)
(* the connection of now, if it is another, is let in by nothing.             *)
LEMMA ProvesKeeps == Inv /\ proves => Inv'
<1>. SUFFICES ASSUME Inv, proves PROVE Inv'
  OBVIOUS
<1>1. PICK n \in session.proving :
        /\ IF proven(n)
             THEN session' = [session EXCEPT !.proving = session.proving \ {n}, !.authed = TRUE,
                                !.reconnecting = FALSE, !.proved = @ \cup {n[1]}]
             ELSE session' = [session EXCEPT !.proving = session.proving \ {n}, !.closing = TRUE]
        /\ IF wire.gen = n[1]
             THEN toTab(IF proven(n) THEN proof("resumed", n) ELSE frame("error"))
             ELSE wire' = wire
  BY DEF proves
<1>2. tab' = tab /\ waiters' = waiters /\ greeting' = greeting /\ UNCHANGED transportVars
  BY DEF proves, deskOnly
<1>3. /\ session \in Sessions /\ wire \in Wires /\ n \in Nonces /\ n[1] \in Gens /\ n[1] # NoGen
      /\ tab.confirmed
  BY GensFacts DEF Inv, LinkTypes, Sessions, Nonces, LetIn, Returns
<1>4. PICK rest \in SUBSET Nonces : rest = session.proving \ {n}
  BY <1>3 DEF Sessions
<1>5. CASE proven(n)
  <2>1. PICK ps \in SUBSET Maybe : ps = session.proved \cup {n[1]}
    BY <1>3 DEF Sessions, Maybe
  <2>2. session' = [session EXCEPT !.proving = rest, !.authed = TRUE, !.reconnecting = FALSE, !.proved = ps]
    BY <1>1, <1>4, <1>5, <2>1
  <2>3. /\ session' \in Sessions /\ session'.authed = TRUE /\ session'.link = session.link
        /\ session'.profileLink = session.profileLink /\ session'.attaching = session.attaching
        /\ session'.proved = ps /\ session'.proving = rest
    BY <1>3, <2>2 DEF Sessions
  <2>4. PICK f : f = proof("resumed", n)
    OBVIOUS
  <2>5. f \in Frames /\ f.op = "resumed"
    BY <1>3, <2>4, FramesOf DEF Ops
  <2>6. /\ wire' \in Wires /\ wire'.gen = wire.gen /\ wire'.toDesk = wire.toDesk
        /\ \A op : Has(wire'.toTab, op) =>
             Has(wire.toTab, op) \/ (op = "resumed" /\ wire.gen = n[1])
    <3>1. CASE wire.gen = n[1]
      BY <1>1, <1>3, <1>5, <2>4, <2>5, <3>1, ToTabOf
    <3>2. CASE wire.gen # n[1]
      BY <1>1, <1>3, <3>2
    <3>. QED BY <3>1, <3>2
  <2>7. LetIn'
    BY <1>2, <1>3, <2>1, <2>3, <2>6 DEF Inv, LetIn, OnlyProvenPeers, Attaches, Greets, Returns, SameWire
  <2>. QED BY <1>2, <2>3, <2>6, <2>7, UnchangedKeeps DEF Inv, LinkTypes
<1>6. CASE ~proven(n)
  <2>1. session' = [session EXCEPT !.proving = rest, !.closing = TRUE]
    BY <1>1, <1>4, <1>6
  <2>2. session' \in Sessions /\ SessionEases
    BY <1>3, <2>1 DEF Sessions, SessionEases
  <2>3. PICK f : f = frame("error")
    OBVIOUS
  <2>4. f \in Frames /\ f.op = "error"
    BY <2>3, FramesOf DEF Ops
  <2>5. wire' \in Wires /\ WireEases
    <3>1. CASE wire.gen = n[1]
      BY <1>1, <1>3, <1>6, <2>3, <2>4, <3>1, ToTabOf DEF WireEases
    <3>2. CASE wire.gen # n[1]
      BY <1>1, <1>3, <3>2, WireSame
    <3>. QED BY <3>1, <3>2
  <2>6. LetIn'
    BY <1>2, <2>2, <2>5, TabSame, EasesKeeps DEF Inv
  <2>. QED BY <1>2, <2>2, <2>5, <2>6, UnchangedKeeps DEF Inv, LinkTypes
<1>. QED BY <1>5, <1>6

LEMMA ReadyKeeps ==
  ASSUME Inv, wire.toDesk # <<>>, Head(wire.toDesk).op = "ready", onReady, consumed, tab' = tab
  PROVE  session' \in Sessions /\ wire' \in Wires /\ LetIn'
<1>1. /\ wire' \in Wires /\ wire'.gen = wire.gen /\ wire'.toTab = wire.toTab
      /\ Has(wire.toDesk, "ready")
      /\ \A op : Has(wire'.toDesk, op) => Has(wire.toDesk, op)
  BY ConsumedOf DEF Inv, LinkTypes
<1>2. session.link # NoGen => session.authed /\ session.link \in session.proved /\ tab.confirmed
  BY <1>1 DEF Inv, LetIn, Attaches
<1>3. PICK a \in BOOLEAN :
        a = (session.attaching \/ (session.link # NoGen /\ session.profileLink = NoGen))
  <2>1. (session.attaching \/ (session.link # NoGen /\ session.profileLink = NoGen)) \in BOOLEAN
    OBVIOUS
  <2>. QED BY <2>1, Zenon
<1>4. session' = [session EXCEPT !.attaching = a]
  BY <1>3 DEF onReady
<1>5. /\ session' \in Sessions /\ session'.authed = session.authed /\ session'.link = session.link
      /\ session'.profileLink = session.profileLink /\ session'.proved = session.proved
      /\ session'.proving = session.proving
  BY <1>4 DEF Inv, LinkTypes, Sessions
<1>6. LetIn'
  BY <1>1, <1>2, <1>5 DEF Inv, LetIn, OnlyProvenPeers, Attaches, Greets, Returns, SameWire
<1>. QED BY <1>1, <1>5, <1>6

LEMMA ControlKeeps == Inv /\ onControl => Inv'
<1>. SUFFICES ASSUME Inv, onControl PROVE Inv'
  OBVIOUS
<1>1. wire.toDesk # <<>> /\ tab' = tab /\ session \in Sessions
  BY DEF onControl, deskOnly, Inv, LinkTypes
<1>2. PICK f : f = Head(wire.toDesk)
  OBVIOUS
<1>3. consumed => wire' \in Wires /\ WireEases
  BY <1>1, ConsumedOf DEF Inv, LinkTypes, WireEases
<1>4. TabEases
  BY <1>1, TabSame
<1>5. session' \in Sessions /\ wire' \in Wires /\ LetIn'
  <2>1. \/ session' = session /\ consumed
        \/ f.op = "hello" /\ session' = [session EXCEPT !.hello = TRUE] /\ consumed
        \/ f.op = "resume" /\ onResume(f.nonce)
        \/ f.op = "ready" /\ onReady /\ consumed
        \/ f.op = "catalog" /\ onCatalog /\ consumed
    BY <1>2 DEF onControl
  <2>2. ASSUME session' = session /\ consumed
        PROVE  session' \in Sessions /\ wire' \in Wires /\ LetIn'
    BY <1>1, <1>3, <1>4, <2>2, SessionSame, EasesKeeps DEF Inv
  <2>3. ASSUME f.op = "hello" /\ session' = [session EXCEPT !.hello = TRUE] /\ consumed
        PROVE  session' \in Sessions /\ wire' \in Wires /\ LetIn'
    <3>1. session' \in Sessions /\ SessionEases
      BY <1>1, <2>3, PhaseOf
    <3>. QED BY <1>3, <1>4, <2>3, <3>1, EasesKeeps DEF Inv
  <2>4. ASSUME f.op = "resume" /\ onResume(f.nonce)
        PROVE  session' \in Sessions /\ wire' \in Wires /\ LetIn'
    BY <1>1, <1>2, <2>4, ResumeKeeps
  <2>5. ASSUME f.op = "ready" /\ onReady /\ consumed
        PROVE  session' \in Sessions /\ wire' \in Wires /\ LetIn'
    BY <1>1, <1>2, <2>5, ReadyKeeps
  <2>6. ASSUME f.op = "catalog" /\ onCatalog /\ consumed
        PROVE  session' \in Sessions /\ wire' \in Wires /\ LetIn'
    <3>1. \/ session' = [session EXCEPT !.pending = TRUE]
          \/ session' = [session EXCEPT !.synced = session.profileLink]
      BY <2>6 DEF onCatalog
    <3>2. session' \in Sessions /\ SessionEases
      BY <1>1, <3>1, PhaseOf
    <3>. QED BY <1>3, <1>4, <2>6, <3>2, EasesKeeps DEF Inv
  <2>. QED BY <2>1, <2>2, <2>3, <2>4, <2>5, <2>6
<1>6. TransportInv'
  BY UnchangedKeeps DEF onControl, Inv
<1>. QED BY <1>1, <1>5, <1>6 DEF onControl, deskOnly, Inv, LinkTypes

(* The ProfileLink is put on the connection the session has, which is proven. *)
LEMMA AttachKeeps == Inv /\ attachProfileLink => Inv'
<1>. SUFFICES ASSUME Inv, attachProfileLink PROVE Inv'
  OBVIOUS
<1>1. tab' = tab /\ session \in Sessions /\ wire \in Wires /\ session.attaching
  BY DEF attachProfileLink, deskOnly, Inv, LinkTypes
<1>2. ASSUME session.link = NoGen
      PROVE  session' \in Sessions /\ wire' \in Wires /\ LetIn'
  <2>1. session' = [disposed EXCEPT !.phase = "crashed"] /\ wire' = down
    BY <1>2 DEF attachProfileLink
  <2>2. session' \in Sessions /\ SessionEases /\ wire' \in Wires /\ WireEases
    BY <1>1, <2>1, DisposedOf, DownOf
  <2>. QED BY <1>1, <2>2, TabSame, EasesKeeps DEF Inv
<1>3. ASSUME session.link # NoGen
      PROVE  session' \in Sessions /\ wire' \in Wires /\ LetIn'
  <2>1. PICK y \in Maybe : y = IF session.pending THEN session.link ELSE session.synced
    BY <1>1 DEF Sessions
  <2>2. session' = [session EXCEPT !.attaching = FALSE, !.profileLink = session.link,
                                   !.synced = y, !.pending = FALSE]
    BY <1>3, <2>1 DEF attachProfileLink
  <2>3. /\ session' \in Sessions /\ session'.authed = session.authed /\ session'.link = session.link
        /\ session'.attaching = FALSE /\ session'.profileLink = session.link
        /\ session'.proved = session.proved /\ session'.proving = session.proving
    BY <1>1, <2>2 DEF Sessions
  <2>4. wire' = wire
    BY <1>3 DEF attachProfileLink
  <2>5. session.authed /\ session.link \in session.proved /\ tab.confirmed
    BY <1>1, <1>3 DEF Inv, LetIn, Attaches
  <2>6. LetIn'
    BY <1>1, <2>3, <2>4, <2>5 DEF Inv, LetIn, OnlyProvenPeers, Attaches, Greets, Returns, SameWire
  <2>. QED BY <1>1, <2>3, <2>4, <2>6
<1>4. session' \in Sessions /\ wire' \in Wires /\ LetIn'
  BY <1>2, <1>3
<1>5. TransportInv'
  BY UnchangedKeeps DEF attachProfileLink, Inv
<1>. QED BY <1>1, <1>4, <1>5 DEF attachProfileLink, deskOnly, Inv, LinkTypes

(* A close event takes the connection from the session before anything else.  *)
LEMMA LinkClosedKeeps == Inv /\ onLinkClosed => Inv'
<1>. SUFFICES ASSUME Inv, onLinkClosed PROVE Inv'
  OBVIOUS
<1>1. /\ tab' = tab /\ wire' = wire /\ greeting' = greeting /\ UNCHANGED transportVars
      /\ session' = session \/ session' = forgotten \/ session' = disposed
      /\ waiters' = waiters \/ waiters' = waiters + 1 \/ waiters' = 0
  BY DEF onLinkClosed
<1>2. session' \in Sessions /\ SessionEases
  BY <1>1, SessionSame, ForgottenOf, DisposedOf DEF Inv, LinkTypes
<1>3. LetIn'
  BY <1>1, <1>2, TabSame, WireSame, EasesKeeps DEF Inv
<1>. QED BY <1>1, <1>2, <1>3, UnchangedKeeps DEF Inv, LinkTypes

LEMMA DisposeKeeps == Inv /\ dispose => Inv'
<1>. SUFFICES ASSUME Inv, dispose PROVE Inv'
  OBVIOUS
<1>1. session' \in Sessions /\ SessionEases
  BY DisposedOf DEF dispose, Inv, LinkTypes
<1>2. wire' \in Wires /\ WireEases
  BY DownOf DEF dispose
<1>3. LetIn'
  BY <1>1, <1>2, TabSame, EasesKeeps DEF dispose, deskOnly, Inv
<1>. QED BY <1>1, <1>2, <1>3, UnchangedKeeps DEF dispose, deskOnly, Inv, LinkTypes

(* Steps that leave session, tab and connection as they are.                  *)
LEMMA ApartKeeps ==
  ASSUME Inv, TransportInv', UNCHANGED <<session, waiters, greeting, tab, wire>>
  PROVE  Inv'
<1>1. LetIn'
  BY SessionSame, TabSame, WireSame, EasesKeeps DEF Inv
<1>. QED BY <1>1 DEF Inv, LinkTypes

LEMMA WatchReconnectKeeps == Inv /\ watchReconnect => Inv'
  BY WatchKeeps, ApartKeeps DEF watchReconnect, deskOnly, Inv

LEMMA PollOfferKeeps == Inv /\ pollOffer => Inv'
  BY PollKeeps, ApartKeeps DEF pollOffer, deskOnly, Inv

(* Steps of the tab's handshake.                                             *)

LEMMA ReadyAndCatalog ==
  /\ readyAndCatalog \in Seq(Frames) /\ ~Has(readyAndCatalog, "resume")
  /\ \A f : In(readyAndCatalog, f) => f.op # "resume"
<1>1. PICK a, b : a = frame("ready") /\ b = frame("catalog")
  OBVIOUS
<1>2. a \in Frames /\ b \in Frames /\ a.op = "ready" /\ b.op = "catalog"
  BY <1>1, FramesOf DEF Ops
<1>3. readyAndCatalog = <<a, b>>
  BY <1>1 DEF readyAndCatalog
<1>4. <<a, b>> \in Seq(Frames)
  BY <1>2
<1>5. ~Has(<<a, b>>, "resume") /\ \A f : In(<<a, b>>, f) => f.op # "resume"
  <2>1. DOMAIN <<a, b>> = 1 .. 2 /\ <<a, b>>[1] = a /\ <<a, b>>[2] = b
    OBVIOUS
  <2>. QED BY <1>2, <2>1 DEF Has, In
<1>. QED BY <1>3, <1>4, <1>5

(* The desktop's proof makes the tab live: it says that it is ready.         *)
LEMMA NegotiateKeeps == Inv /\ negotiate => Inv'
<1>. SUFFICES ASSUME Inv, negotiate PROVE Inv'
  OBVIOUS
<1>1. session' = session /\ waiters' = waiters /\ greeting' = greeting /\ UNCHANGED transportVars
  BY DEF negotiate, tabOnly
<1>2. tab \in Tabs /\ wire \in Wires /\ wire.toTab # <<>>
  BY DEF negotiate, Inv, LinkTypes
<1>3. PICK rest : rest = [wire EXCEPT !.toTab = Tail(@)]
  OBVIOUS
<1>4. PICK f : f = Head(wire.toTab)
  OBVIOUS
<1>5. /\ rest \in Wires /\ rest.gen = wire.gen /\ rest.toDesk = wire.toDesk
      /\ f \in Frames /\ Has(wire.toTab, f.op)
      /\ \A op : Has(rest.toTab, op) => Has(wire.toTab, op)
  BY <1>2, <1>3, <1>4, RestOf
<1>6. f.nonce \in Nonces
  BY <1>5 DEF Frames
<1>7. \/ f.op = "server" /\ wire' = rest /\ tab' = tab
      \/ /\ f.op = "server" /\ tab.gen # Pairing
         /\ wire' = toDesk(rest, <<proof("resume", f.nonce)>>)
         /\ tab' = [tab EXCEPT !.nonce = f.nonce]
      \/ f.op = "paired" /\ wire' = rest /\ tab' = [tab EXCEPT !.phase = "paired"]
      \/ /\ f.op = "resumed"
         /\ wire' = toDesk(rest, readyAndCatalog)
         /\ tab' = [tab EXCEPT !.phase = "live"]
      \/ anyLost /\ tab' = afterFailure
  BY <1>3, <1>4 DEF negotiate
<1>8. ASSUME f.op = "server" /\ wire' = rest /\ tab' = tab
      PROVE  tab' \in Tabs /\ wire' \in Wires /\ LetIn'
  <2>1. WireEases
    BY <1>5, <1>8 DEF WireEases
  <2>. QED BY <1>1, <1>2, <1>5, <1>8, <2>1, SessionSame, TabSame, EasesKeeps DEF Inv
<1>9. ASSUME f.op = "server", tab.gen # Pairing,
             wire' = toDesk(rest, <<proof("resume", f.nonce)>>),
             tab' = [tab EXCEPT !.nonce = f.nonce]
      PROVE  tab' \in Tabs /\ wire' \in Wires /\ LetIn'
  <2>1. PICK p : p = proof("resume", f.nonce)
    OBVIOUS
  <2>2. p \in Frames /\ p.op = "resume"
    BY <1>6, <2>1, FramesOf DEF Ops
  <2>3. <<p>> \in Seq(Frames) /\ \A op : Has(<<p>>, op) => op = "resume"
    BY <2>2 DEF Has
  <2>4. /\ wire' \in Wires /\ wire'.gen = wire.gen /\ wire'.toTab = rest.toTab
        /\ \A op : Has(wire'.toDesk, op) => Has(wire.toDesk, op) \/ op = "resume"
    BY <1>5, <1>9, <2>1, <2>3, ToDeskOf
  <2>5. /\ tab' \in Tabs /\ tab'.confirmed = tab.confirmed /\ tab'.phase = tab.phase
        /\ tab'.gen = tab.gen /\ tab'.saved = tab.saved
    BY <1>2, <1>6, <1>9 DEF Tabs
  <2>6. tab.confirmed
    BY <1>9 DEF Inv, LetIn, Returns
  <2>7. LetIn'
    BY <1>1, <1>5, <2>4, <2>5, <2>6 DEF Inv, LetIn, OnlyProvenPeers, Attaches, Greets, Returns, SameWire
  <2>. QED BY <2>4, <2>5, <2>7
<1>10. ASSUME f.op = "paired", wire' = rest, tab' = [tab EXCEPT !.phase = "paired"]
       PROVE  tab' \in Tabs /\ wire' \in Wires /\ LetIn'
  <2>1. /\ tab' \in Tabs /\ tab'.confirmed = tab.confirmed
        /\ tab'.gen = tab.gen /\ tab'.saved = tab.saved
    BY <1>2, <1>10 DEF Tabs
  <2>2. session.link # NoGen => session.authed /\ session.link \in session.proved
    BY <1>5, <1>10 DEF Inv, LetIn, Greets
  <2>3. LetIn'
    BY <1>1, <1>5, <1>10, <2>1, <2>2 DEF Inv, LetIn, OnlyProvenPeers, Attaches, Greets, Returns, SameWire
  <2>. QED BY <1>5, <1>10, <2>1, <2>3
<1>11. ASSUME f.op = "resumed", wire' = toDesk(rest, readyAndCatalog), tab' = [tab EXCEPT !.phase = "live"]
       PROVE  tab' \in Tabs /\ wire' \in Wires /\ LetIn'
  <2>1. /\ tab' \in Tabs /\ tab'.confirmed = tab.confirmed
        /\ tab'.gen = tab.gen /\ tab'.saved = tab.saved /\ tab'.phase = "live"
    BY <1>2, <1>11 DEF Tabs
  <2>2. /\ tab.confirmed
        /\ session.link # NoGen => session.authed /\ session.link \in session.proved
    BY <1>5, <1>11 DEF Inv, LetIn, Greets, Returns
  <2>3. /\ wire' \in Wires /\ wire'.gen = wire.gen /\ wire'.toTab = rest.toTab
    BY <1>5, <1>11, ReadyAndCatalog, ToDeskOf
  <2>4. LetIn'
    BY <1>1, <1>5, <2>1, <2>2, <2>3 DEF Inv, LetIn, OnlyProvenPeers, Attaches, Greets, Returns, SameWire
  <2>. QED BY <2>1, <2>3, <2>4
<1>12. ASSUME anyLost, tab' = afterFailure
       PROVE  tab' \in Tabs /\ wire' \in Wires /\ LetIn'
  <2>1. tab' \in Tabs /\ TabEases /\ wire' \in Wires /\ WireEases
    BY <1>2, <1>12, FailureOf, LostOf, DownOf
  <2>. QED BY <1>1, <2>1, SessionSame, EasesKeeps DEF Inv
<1>13. tab' \in Tabs /\ wire' \in Wires /\ LetIn'
  BY <1>7, <1>8, <1>9, <1>10, <1>11, <1>12
<1>. QED BY <1>1, <1>13, UnchangedKeeps DEF Inv, LinkTypes

(* The user's comparison of the phrase is the other half of the first proof.  *)
LEMMA ConfirmKeeps == Inv /\ confirmPhrase => Inv'
<1>. SUFFICES ASSUME Inv, confirmPhrase PROVE Inv'
  OBVIOUS
<1>1. session' = session /\ waiters' = waiters /\ greeting' = greeting /\ UNCHANGED transportVars
  BY DEF confirmPhrase, tabOnly
<1>2. tab' = [tab EXCEPT !.phase = "live", !.confirmed = TRUE, !.saved = TRUE] /\ tab.phase = "paired"
  BY DEF confirmPhrase
<1>3. tab' \in Tabs /\ tab'.confirmed = TRUE /\ tab'.phase = "live"
  BY <1>2 DEF Inv, LinkTypes, Tabs
<1>4. wire \in Wires /\ wire' = toDesk(wire, readyAndCatalog)
  BY DEF confirmPhrase, Inv, LinkTypes
<1>5. /\ wire' \in Wires /\ wire'.gen = wire.gen /\ wire'.toTab = wire.toTab
      /\ Has(wire'.toDesk, "ready") => Has(wire.toDesk, "ready") \/ wire.gen # NoGen
  BY <1>4, ReadyAndCatalog, ToDeskOf
<1>6. LetIn'
  <2>1. wire.gen # NoGen /\ session.link # NoGen => session.authed /\ session.link \in session.proved
    BY <1>2 DEF Inv, LetIn, Greets
  <2>. QED BY <1>1, <1>3, <1>5, <2>1 DEF Inv, LetIn, OnlyProvenPeers, Attaches, Greets, Returns, SameWire
<1>. QED BY <1>1, <1>3, <1>5, <1>6, UnchangedKeeps DEF Inv, LinkTypes

(* The tab loses or leaves its connection.                                   *)
LEMMA LeavesKeeps ==
  ASSUME Inv, UNCHANGED <<transportVars, session, waiters, greeting>>,
         anyLost \/ wire' = wire,
         \/ tab' = tab \/ tab' = afterFailure
         \/ tab' = [tab EXCEPT !.phase = "failed"] \/ tab' = [tab EXCEPT !.phase = "idle"]
  PROVE  Inv'
<1>1. wire' \in Wires /\ WireEases
  BY LostOf, DownOf, WireSame DEF Inv, LinkTypes
<1>2. tab' \in Tabs /\ TabEases
  BY FailureOf, TabSame DEF Inv, LinkTypes
<1>3. LetIn'
  BY <1>1, <1>2, SessionSame, EasesKeeps DEF Inv
<1>4. TransportInv'
  BY UnchangedKeeps DEF Inv
<1>. QED BY <1>1, <1>2, <1>3, <1>4 DEF Inv, LinkTypes

LEMMA RejectKeeps == Inv /\ rejectPhrase => Inv'
  BY LeavesKeeps DEF rejectPhrase, tabOnly

LEMMA OnClosedKeeps == Inv /\ onClosed => Inv'
  BY LeavesKeeps DEF onClosed, tabOnly

LEMMA GivesUpKeeps == Inv /\ givesUp => Inv'
  BY LeavesKeeps DEF givesUp, timesOut, tabOnly

LEMMA IgnoreKeeps == Inv /\ ignore => Inv'
<1>. SUFFICES ASSUME Inv, ignore PROVE Inv'
  OBVIOUS
<1>1. wire \in Wires /\ wire.toTab # <<>> /\ wire' = [wire EXCEPT !.toTab = Tail(@)]
  BY DEF ignore, Inv, LinkTypes
<1>2. wire' \in Wires /\ WireEases
  BY <1>1, RestOf DEF WireEases
<1>3. LetIn'
  BY <1>2, SessionSame, TabSame, EasesKeeps DEF ignore, tabOnly, Inv
<1>. QED BY <1>2, <1>3, UnchangedKeeps DEF ignore, tabOnly, Inv, LinkTypes

(* Faults.                                                                   *)

LEMMA FaultyKeeps == Inv /\ Faulty => Inv'
<1>. SUFFICES ASSUME Inv, Faulty PROVE Inv'
  OBVIOUS
<1>1. CASE drop
  BY <1>1, LeavesKeeps DEF drop
<1>2. CASE reload
  <2>1. tab' = [tab EXCEPT !.phase = "failed"] \/ tab' = [tab EXCEPT !.phase = "idle"]
    BY <1>2 DEF reload
  <2>. QED BY <1>2, <2>1, LeavesKeeps DEF reload
<1>3. CASE slow
  BY <1>3, LeavesKeeps DEF slow, timesOut
<1>4. CASE offerFails
  <2>1. /\ UNCHANGED <<gone, waiters, greeting, tab, wire>> /\ watch' = noOffer
        /\ \/ session' = disposed /\ feed' = relaySignal("desktop", "bye", Pairing)
           \/ session' = session /\ feed' = feed
    BY <1>4 DEF offerFails
  <2>2. session' \in Sessions /\ SessionEases
    BY <2>1, DisposedOf, SessionSame DEF Inv, LinkTypes
  <2>3. TransportInv'
    <3>1. /\ watch' \in Watch /\ watch'.cursor = watch.cursor /\ watch'.handled = watch.handled
          /\ gone' \in BOOLEAN
      BY <2>1, NoOfferKeeps DEF Inv
    <3>2. CASE feed' = relaySignal("desktop", "bye", Pairing)
      BY <3>1, <3>2, GensFacts, SignalKeeps DEF Inv
    <3>3. CASE feed' = feed
      BY <3>1, <3>3, OfferKeeps DEF Inv
    <3>. QED BY <2>1, <3>2, <3>3
  <2>4. LetIn'
    BY <2>1, <2>2, TabSame, WireSame, EasesKeeps DEF Inv
  <2>. QED BY <2>1, <2>2, <2>3, <2>4 DEF Inv, LinkTypes
<1>5. CASE expire
  <2>1. UNCHANGED <<session, waiters, greeting, tab, wire, feed, watch>> /\ gone' = TRUE
    BY <1>5 DEF expire, purge
  <2>2. TransportInv'
    BY <2>1, OfferKeeps, NoOfferKeeps DEF Inv
  <2>. QED BY <2>1, <2>2, ApartKeeps
<1>. QED BY <1>1, <1>2, <1>3, <1>4, <1>5 DEF Faulty

-----------------------------------------------------------------------------
LEMMA NextInv == Inv /\ [Next]_vars => Inv'
<1>. SUFFICES ASSUME Inv, [Next]_vars PROVE Inv'
  OBVIOUS
<1>1. CASE Desktop
  BY <1>1, ServerKeeps, AwaitApprovalKeeps, ApproveKeeps, PairedKeeps, ControlKeeps, ProvesKeeps, AttachKeeps,
     LinkClosedKeeps, DisposeKeeps, WatchReconnectKeeps, PollOfferKeeps DEF Desktop
<1>2. CASE TabSteps
  BY <1>2, ConnectKeeps, AnswerKeeps, SignalFailsKeeps, NegotiateKeeps, ConfirmKeeps, IgnoreKeeps,
     OnClosedKeeps, GivesUpKeeps DEF TabSteps
<1>3. CASE open \/ join \/ approve(FALSE) \/ rejectPhrase \/ Faulty
  BY <1>3, OpenKeeps, JoinKeeps, ApproveKeeps, RejectKeeps, FaultyKeeps
<1>4. CASE UNCHANGED vars
  BY <1>4, UnchangedKeeps, ApartKeeps DEF vars, Inv
<1>. QED BY <1>1, <1>2, <1>3, <1>4 DEF Next, Steps

(* The state of the relay and of the watcher keeps its type.                 *)
THEOREM SignalingTypes == Spec => []TransportTypeOK
<1>1. Inv => TransportTypeOK
  BY DEF Inv, TransportInv
<1>. QED BY <1>1, InitInv, NextInv, PTL DEF Spec

(* The watcher leaves no request to come back behind: one it has read past    *)
(* was taken up (RelayTransport.watchReconnect).                              *)
THEOREM RequestsTakenUp == Spec => []NoRequestSkipped
<1>1. Inv => NoRequestSkipped
  BY DEF Inv, TransportInv
<1>. QED BY <1>1, InitInv, NextInv, PTL DEF Spec

(* A ProfileLink is on a connection only when the operator approved and the   *)
(* user confirmed the phrase, or the tab proved its key on this connection    *)
(* (PeerSession.onControl, attachProfileLink).                                *)
THEOREM ProvenPeers == Spec => []OnlyProvenPeers
<1>1. Inv => OnlyProvenPeers
  BY DEF Inv, LetIn
<1>. QED BY <1>1, InitInv, NextInv, PTL DEF Spec
-----------------------------------------------------------------------------
(* The pairing outlives its connections.  As long as no connection gave two   *)
(* close events, there is one of these at a time: a connection, its close     *)
(* event, a session that waits for the tab.  So a connection has one close    *)
(* handler and one server frame, the tab proves the nonce the session has,     *)
(* and a session that was paired is not closed.                               *)

\* The tab may store the link, has stored it, or is about to be told.
Told == tab.saved \/ tab.phase = "paired" \/ Has(wire.toTab, "paired")
Stays == session.phase \in {"paired", "crashed"} \/ gone \/ doubled
ToldStays == Told => Stays

Calm == ~Closed /\ ~doubled

EventTypes == handlers \in [Gens -> {0, 1}] /\ notices \in [Gens -> {0, 1}] /\ waiters \in {0, 1}
NoNotice == \A g \in Gens : notices[g] = 0

OneEvent ==
  /\ EventTypes
  /\ wire.gen # NoGen => waiters = 0 /\ NoNotice
  /\ waiters = 1 => NoNotice
  /\ session.phase = "offering" => wire.gen = NoGen /\ waiters = 0 /\ NoNotice
  /\ \A g, h \in Gens : notices[g] = 1 /\ notices[h] = 1 => g = h
  /\ watch.offer \notin {NoGen, Pairing} => waiters = 1
  /\ watch.offer = Pairing => session.phase = "offering"

OneNonce ==
  /\ \A m, n \in greeting : m = n
  /\ \A n \in greeting : n[1] = Pairing => session.phase = "greeting"
  /\ \A f : greeting # {} /\ In(wire.toTab, f) => f.op # "server"
  /\ \A f : greeting # {} /\ In(wire.toDesk, f) => f.op # "resume"
  /\ \A f : In(wire.toTab, f) /\ f.op = "server" => f.nonce = session.nonce
  /\ \A f : In(wire.toDesk, f) /\ f.op = "resume" => f.nonce = session.nonce
  /\ session.proving # {} => greeting = {} /\ session.proving = {session.nonce}
  /\ session.closing => session.phase = "approval"

\* The first offer is the pairing's, a later one answers a request.
AsksLater == \A i \in DOMAIN feed : feed[i].type = "reconnect" => feed[i].gen # Pairing

PairInv == AsksLater /\ ToldStays /\ (Calm => OneEvent /\ OneNonce)

-----------------------------------------------------------------------------
(* Steps that disturb no part of it.                                         *)

SamePairing ==
  /\ tab'.saved => tab.saved
  /\ tab'.phase = "paired" => tab.phase = "paired"
  /\ Has(wire'.toTab, "paired") => Has(wire.toTab, "paired")
  /\ session.phase \in {"paired", "crashed"} => session'.phase = session.phase \/ session'.phase = "crashed"
  /\ gone => gone'
  /\ doubled => doubled'

LEMMA ToldKeeps == ASSUME ToldStays, SamePairing PROVE ToldStays'
  BY DEF ToldStays, Told, Stays, SamePairing

SameEvents ==
  /\ handlers' = handlers /\ notices' = notices /\ waiters' = waiters
  /\ wire'.gen = wire.gen
  /\ watch'.offer = watch.offer \/ watch'.offer = NoGen
  /\ session'.phase = "offering" <=> session.phase = "offering"

LEMMA EventsKeep == ASSUME OneEvent, SameEvents PROVE OneEvent'
  BY DEF OneEvent, SameEvents, EventTypes, NoNotice, NoGen, Pairing

SameNonces ==
  /\ greeting' = greeting /\ session'.nonce = session.nonce
  /\ session.phase = "greeting" => session'.phase = "greeting"
  /\ session'.closing => session'.phase = "approval"
  /\ session'.proving = session.proving \/ session'.proving = {}
  /\ \A f : f.op = "server" /\ In(wire'.toTab, f) => In(wire.toTab, f)
  /\ \A f : f.op = "resume" /\ In(wire'.toDesk, f) => In(wire.toDesk, f)

LEMMA NoncesKeep == ASSUME OneNonce, SameNonces PROVE OneNonce'
  BY DEF OneNonce, SameNonces

LEMMA PairsKeep ==
  ASSUME PairInv, AsksLater', SamePairing, Calm' => Calm /\ SameEvents /\ SameNonces
  PROVE  PairInv'
  BY ToldKeeps, EventsKeep, NoncesKeep DEF PairInv

LEMMA CalmBefore ==
  ASSUME doubled => doubled', Closed => session'.phase \in {"closed", "crashed"}, PairInv, Calm'
  PROVE  Calm /\ OneEvent /\ OneNonce
  BY DEF Calm, Closed, PairInv

LEMMA AsksSame == ASSUME AsksLater, feed' = feed PROVE AsksLater'
  BY DEF AsksLater

LEMMA AsksGrow ==
  ASSUME TransportInv, AsksLater, NEW from \in {"desktop", "tab"},
         NEW type \in {"offer", "answer", "reconnect", "bye"}, NEW g \in Gens,
         feed' = relaySignal(from, type, g), type = "reconnect" => g # Pairing
  PROVE  AsksLater'
<1>1. /\ DOMAIN feed' = 1 .. Len(feed) + 1 /\ DOMAIN feed = 1 .. Len(feed) /\ Len(feed) \in Nat
      /\ \A i \in DOMAIN feed : feed'[i] = feed[i]
      /\ feed'[Len(feed) + 1] = [from |-> from, type |-> type, gen |-> g]
  BY FeedGrows
<1>2. ASSUME NEW i \in DOMAIN feed', i # Len(feed) + 1 PROVE i \in DOMAIN feed
  BY <1>1, <1>2
<1>. QED BY <1>1, <1>2 DEF AsksLater

-----------------------------------------------------------------------------
(* A connection that ends gives its close event.                             *)

LEMMA LostEvents ==
  ASSUME Inv, Calm => OneEvent, anyLost,
         UNCHANGED <<session, waiters, handlers, watch>>
  PROVE  (Calm' => OneEvent') /\ (doubled => doubled')
<1>1. PICK n \in 1 .. MaxNotices : lost(n)
  BY DEF anyLost
<1>2. wire' = down /\ wire'.gen = NoGen
  BY <1>1 DEF lost, down
<1>3. doubled => doubled'
  BY <1>1 DEF lost
<1>4. ASSUME Calm' PROVE OneEvent'
  <2>1. OneEvent /\ Calm
    BY <1>3, <1>4 DEF Calm, Closed
  <2>2. CASE wire.gen = NoGen
    <3>1. notices' = notices
      BY <1>1, <2>2 DEF lost
    <3>. QED BY <1>2, <2>1, <2>2, <3>1 DEF OneEvent, EventTypes, NoNotice
  <2>3. CASE wire.gen # NoGen
    <3>1. PICK w \in Gens : w = wire.gen
      BY <2>3 DEF Inv, LinkTypes, Wires, Maybe
    <3>2. PICK k : k = n * handlers[w]
      OBVIOUS
    <3>3. notices' = [notices EXCEPT ![w] = k] /\ ~(k > 1)
      BY <1>1, <1>4, <2>3, <3>1, <3>2 DEF lost, Calm
    <3>4. handlers[w] \in {0, 1} /\ n \in Int /\ n >= 1
      BY <2>1, <3>1 DEF OneEvent, EventTypes
    <3>5. k = 0 \/ k = n
      BY <3>2, <3>4
    <3>6. k \in {0, 1}
      BY <3>3, <3>4, <3>5
    <3>7. waiters = 0 /\ NoNotice /\ session.phase # "offering"
      BY <2>1, <2>3 DEF OneEvent
    <3>8. notices' \in [Gens -> {0, 1}] /\ \A g \in Gens : g # w => notices'[g] = 0
      BY <2>1, <3>3, <3>6, <3>7 DEF OneEvent, EventTypes, NoNotice
    <3>. QED BY <1>2, <2>1, <3>7, <3>8 DEF OneEvent, EventTypes, NoNotice
  <2>. QED BY <2>2, <2>3
<1>. QED BY <1>3, <1>4

LEMMA LostPairs ==
  ASSUME Inv, PairInv, anyLost,
         UNCHANGED <<transportVars, session, waiters, greeting, handlers>>,
         tab'.saved => tab.saved, tab'.phase = "paired" => tab.phase = "paired"
  PROVE  PairInv'
<1>1. wire' = down
  BY LostOf
<1>2. ~Has(wire'.toTab, "paired") /\ \A f : ~In(wire'.toTab, f) /\ ~In(wire'.toDesk, f)
  BY <1>1, NoneHas DEF down
<1>3. (Calm' => OneEvent') /\ (doubled => doubled')
  BY LostEvents DEF PairInv, transportVars
<1>4. SamePairing
  BY <1>2, <1>3 DEF SamePairing, transportVars
<1>5. Calm' => Calm
  BY <1>3 DEF Calm, Closed
<1>6. Calm' => SameNonces
  BY <1>2, <1>5 DEF SameNonces, PairInv, OneNonce
<1>. QED BY <1>3, <1>4, <1>5, <1>6, ToldKeeps, NoncesKeep, AsksSame DEF PairInv, transportVars

-----------------------------------------------------------------------------
LEMMA InitPairs == Init => PairInv
<1>. SUFFICES ASSUME Init PROVE PairInv
  OBVIOUS
<1>1. wire = down /\ wire.gen = NoGen /\ \A f : ~In(wire.toTab, f) /\ ~In(wire.toDesk, f)
  BY NoneHas DEF Init, down
<1>2. ~Has(wire.toTab, "paired")
  BY <1>1, NoneHas DEF down
<1>3. AsksLater
  <2>1. DOMAIN feed = {1} /\ feed[1].type = "offer"
    BY DEF Init, TransportInit
  <2>. QED BY <2>1 DEF AsksLater
<1>4. ToldStays
  BY <1>2 DEF Init, ToldStays, Told
<1>5. OneEvent
  BY <1>1 DEF Init, TransportInit, OneEvent, EventTypes, NoNotice
<1>6. OneNonce
  BY <1>1 DEF Init, OneNonce
<1>. QED BY <1>3, <1>4, <1>5, <1>6 DEF PairInv

(* Steps of the tab that leave the connection as it is.                      *)
LEMMA TabPairs ==
  ASSUME PairInv, AsksLater',
         UNCHANGED <<session, waiters, greeting, handlers, notices, doubled, wire, watch>>,
         gone => gone',
         tab'.saved => tab.saved, tab'.phase = "paired" => tab.phase = "paired"
  PROVE  PairInv'
<1>1. SamePairing
  BY DEF SamePairing
<1>2. Calm' => Calm /\ SameEvents /\ SameNonces
  BY DEF Calm, Closed, SameEvents, SameNonces, PairInv, OneNonce
<1>. QED BY <1>1, <1>2, PairsKeep

LEMMA PhaseTab ==
  ASSUME tab \in Tabs, NEW p, tab' = [tab EXCEPT !.phase = p]
  PROVE  tab'.phase = p /\ tab'.saved = tab.saved
  BY DEF Tabs

LEMMA FailureTab ==
  ASSUME tab \in Tabs, tab' = afterFailure
  PROVE  tab'.phase \in {"failed", "idle"} /\ tab'.saved = tab.saved
  BY DEF Tabs, afterFailure

LEMMA JoinPairs == ASSUME Inv, PairInv, join PROVE PairInv'
<1>1. tab'.phase = "requested" /\ tab'.saved = tab.saved
  BY PhaseTab DEF join, Inv, LinkTypes
<1>. QED BY <1>1, AsksSame, TabPairs DEF join, tabOnly, transportVars, PairInv

LEMMA ConnectPairs == ASSUME Inv, PairInv, connectServerPeer PROVE PairInv'
<1>1. UNCHANGED <<session, waiters, greeting, handlers, notices, doubled, wire, watch, gone>>
  BY DEF connectServerPeer, tabOnly, requestReconnect, transportVars
<1>2. tab'.phase # "paired" /\ tab'.saved = tab.saved
  BY DEF connectServerPeer, Inv, LinkTypes, Tabs
<1>3. AsksLater'
  <2>1. CASE UNCHANGED transportVars
    BY <2>1, AsksSame DEF PairInv, transportVars
  <2>2. CASE tab.gen < MaxGens /\ requestReconnect(tab.gen + 1)
    <3>1. PICK g : g = tab.gen + 1
      OBVIOUS
    <3>2. g \in Gens /\ g # Pairing
      BY <2>2, <3>1, GensAssumption DEF Inv, LinkTypes, Tabs, Gens, Pairing
    <3>3. feed' = relaySignal("tab", "reconnect", g)
      BY <2>2, <3>1 DEF requestReconnect
    <3>. QED BY <3>2, <3>3, AsksGrow DEF Inv, PairInv
  <2>. QED BY <2>1, <2>2 DEF connectServerPeer
<1>. QED BY <1>1, <1>2, <1>3, TabPairs

LEMMA AnswerPairs == ASSUME Inv, PairInv, answer PROVE PairInv'
<1>1. tab'.phase = "opening" /\ tab'.saved = tab.saved
  BY PhaseTab DEF answer, Inv, LinkTypes
<1>2. AsksLater'
  BY AsksGrow DEF answer, answerOffer, Inv, LinkTypes, Tabs, PairInv
<1>. QED BY <1>1, <1>2, TabPairs DEF answer, answerOffer, tabOnly

LEMMA SignalFailsPairs == ASSUME Inv, PairInv, signalFails PROVE PairInv'
<1>1. tab'.phase # "paired" /\ tab'.saved = tab.saved
  BY DEF signalFails, afterFailure, Inv, LinkTypes, Tabs
<1>. QED BY <1>1, AsksSame, TabPairs DEF signalFails, tabOnly, transportVars, PairInv

LEMMA OnClosedPairs == ASSUME Inv, PairInv, onClosed PROVE PairInv'
<1>1. tab'.phase = "idle" /\ tab'.saved = tab.saved
  BY PhaseTab DEF onClosed, Inv, LinkTypes
<1>. QED BY <1>1, AsksSame, TabPairs DEF onClosed, tabOnly, transportVars, PairInv

(* The next two take the frames.                                             *)
LEMMA IgnorePairs == ASSUME Inv, PairInv, ignore PROVE PairInv'
<1>1. /\ wire'.gen = wire.gen /\ wire'.toDesk = wire.toDesk
      /\ Has(wire'.toTab, "paired") => Has(wire.toTab, "paired")
      /\ \A f : In(wire'.toTab, f) => In(wire.toTab, f)
  BY RestOf DEF ignore, Inv, LinkTypes
<1>2. UNCHANGED <<session, waiters, greeting, handlers, notices, doubled, tab, watch, gone, feed>>
  BY DEF ignore, tabOnly, transportVars
<1>3. SamePairing
  BY <1>1, <1>2 DEF SamePairing
<1>4. Calm' => Calm /\ SameEvents /\ SameNonces
  BY <1>1, <1>2 DEF Calm, Closed, SameEvents, SameNonces, PairInv, OneNonce
<1>. QED BY <1>2, <1>3, <1>4, AsksSame, PairsKeep DEF PairInv

LEMMA ConfirmPairs == ASSUME Inv, PairInv, confirmPhrase PROVE PairInv'
<1>1. wire \in Wires /\ wire' = toDesk(wire, readyAndCatalog)
  BY DEF confirmPhrase, Inv, LinkTypes
<1>2. /\ wire'.gen = wire.gen /\ wire'.toTab = wire.toTab
      /\ \A f : In(wire'.toDesk, f) => In(wire.toDesk, f) \/ In(readyAndCatalog, f)
  BY <1>1, ReadyAndCatalog, ToDeskOf
<1>3. UNCHANGED <<session, waiters, greeting, handlers, notices, doubled, watch, gone, feed>>
  BY DEF confirmPhrase, tabOnly, transportVars
<1>4. Calm' => Calm /\ SameEvents /\ SameNonces
  BY <1>2, <1>3, ReadyAndCatalog DEF Calm, Closed, SameEvents, SameNonces, PairInv, OneNonce
<1>5. ToldStays'
  BY <1>3 DEF confirmPhrase, PairInv, ToldStays, Told, Stays
<1>. QED BY <1>3, <1>4, <1>5, AsksSame, EventsKeep, NoncesKeep DEF PairInv
LEMMA NegotiatePairs == ASSUME Inv, PairInv, negotiate PROVE PairInv'
<1>1. tab \in Tabs /\ wire \in Wires /\ wire.toTab # <<>>
  BY DEF negotiate, Inv, LinkTypes
<1>2. PICK rest : rest = [wire EXCEPT !.toTab = Tail(@)]
  OBVIOUS
<1>3. PICK f : f = Head(wire.toTab)
  OBVIOUS
<1>4. /\ rest \in Wires /\ rest.gen = wire.gen /\ rest.toDesk = wire.toDesk
      /\ f \in Frames /\ Has(wire.toTab, f.op) /\ In(wire.toTab, f)
      /\ \A op : Has(rest.toTab, op) => Has(wire.toTab, op)
      /\ \A g : In(rest.toTab, g) => In(wire.toTab, g)
  BY <1>1, <1>2, <1>3, RestOf
<1>5. UNCHANGED <<session, waiters, greeting, handlers, watch, gone, feed>>
  BY DEF negotiate, tabOnly, transportVars
<1>6. CASE anyLost /\ tab' = afterFailure
  <2>1. tab'.saved = tab.saved /\ tab'.phase # "paired"
    BY <1>1, <1>6, FailureTab
  <2>. QED BY <1>5, <1>6, <2>1, LostPairs DEF transportVars
<1>7. CASE ~(anyLost /\ tab' = afterFailure)
  <2>1. UNCHANGED <<notices, doubled>>
    BY <1>7 DEF negotiate
  <2>2. \/ f.op = "server" /\ wire' = rest /\ tab' = tab
        \/ /\ f.op = "server" /\ wire' = toDesk(rest, <<proof("resume", f.nonce)>>)
           /\ tab' = [tab EXCEPT !.nonce = f.nonce]
        \/ f.op = "paired" /\ wire' = rest /\ tab' = [tab EXCEPT !.phase = "paired"]
        \/ wire' = toDesk(rest, readyAndCatalog) /\ tab' = [tab EXCEPT !.phase = "live"]
    BY <1>2, <1>3, <1>7 DEF negotiate
  <2>3. Calm' => Calm
    BY <1>5, <2>1 DEF Calm, Closed
  <2>4. ASSUME wire' = rest, tab'.saved = tab.saved,
               tab'.phase = "paired" => tab.phase = "paired" \/ f.op = "paired"
        PROVE  PairInv'
    <3>1. Calm' => SameEvents /\ SameNonces
      BY <1>4, <1>5, <2>1, <2>3, <2>4 DEF SameEvents, SameNonces, PairInv, OneNonce
    <3>2. ToldStays'
      BY <1>4, <1>5, <2>1, <2>4 DEF PairInv, ToldStays, Told, Stays
    <3>. QED BY <1>5, <2>3, <3>1, <3>2, AsksSame, EventsKeep, NoncesKeep DEF PairInv
  <2>5. ASSUME NEW fs \in Seq(Frames), wire' = toDesk(rest, fs), tab'.saved = tab.saved,
               tab'.phase = "paired" => tab.phase = "paired",
               Calm => \A g : In(fs, g) /\ g.op = "resume" => g.nonce = session.nonce /\ greeting = {}
        PROVE  PairInv'
    <3>1. /\ wire'.gen = wire.gen /\ wire'.toTab = rest.toTab
          /\ \A g : In(wire'.toDesk, g) => In(wire.toDesk, g) \/ In(fs, g)
      BY <1>4, <2>5, ToDeskOf
    <3>2. SamePairing
      BY <1>4, <1>5, <2>1, <2>5, <3>1 DEF SamePairing
    <3>3. Calm' => SameEvents
      BY <1>5, <2>1, <3>1 DEF SameEvents
    <3>4. Calm' => OneNonce'
      BY <1>4, <1>5, <2>3, <2>5, <3>1 DEF PairInv, OneNonce
    <3>. QED BY <1>5, <2>3, <3>2, <3>3, <3>4, AsksSame, ToldKeeps, EventsKeep DEF PairInv
  <2>6. CASE f.op = "server" /\ wire' = rest /\ tab' = tab
    BY <2>4, <2>6
  <2>7. CASE f.op = "paired" /\ wire' = rest /\ tab' = [tab EXCEPT !.phase = "paired"]
    <3>1. tab'.saved = tab.saved
      BY <1>1, <2>7 DEF Tabs
    <3>. QED BY <2>4, <2>7, <3>1
  <2>8. CASE /\ f.op = "server" /\ wire' = toDesk(rest, <<proof("resume", f.nonce)>>)
             /\ tab' = [tab EXCEPT !.nonce = f.nonce]
    <3>1. PICK r : r = proof("resume", f.nonce)
      OBVIOUS
    <3>2. r \in Frames /\ r.nonce = f.nonce
      BY <1>4, <3>1, FramesOf DEF proof, Frames, Ops
    <3>3. <<r>> \in Seq(Frames) /\ \A g : In(<<r>>, g) => g = r
      BY <3>2 DEF In
    <3>4. tab'.saved = tab.saved /\ tab'.phase = tab.phase
      BY <1>1, <2>8 DEF Tabs
    <3>5. Calm => f.nonce = session.nonce /\ greeting = {}
      BY <1>4, <2>8 DEF PairInv, OneNonce
    <3>. QED BY <2>5, <2>8, <3>1, <3>2, <3>3, <3>4, <3>5
  <2>9. CASE wire' = toDesk(rest, readyAndCatalog) /\ tab' = [tab EXCEPT !.phase = "live"]
    <3>1. tab'.saved = tab.saved /\ tab'.phase = "live"
      BY <1>1, <2>9, PhaseTab
    <3>. QED BY <2>5, <2>9, <3>1, ReadyAndCatalog
  <2>. QED BY <2>2, <2>6, <2>7, <2>8, <2>9
<1>. QED BY <1>6, <1>7

LEMMA RejectPairs == ASSUME Inv, PairInv, rejectPhrase PROVE PairInv'
<1>1. tab'.phase = "failed" /\ tab'.saved = tab.saved
  BY PhaseTab DEF rejectPhrase, Inv, LinkTypes
<1>. QED BY <1>1, LostPairs DEF rejectPhrase, tabOnly

LEMMA TimeoutPairs ==
  ASSUME Inv, PairInv, timesOut, UNCHANGED <<transportVars, session, waiters, greeting, handlers>>
  PROVE  PairInv'
<1>1. tab'.phase # "paired" /\ tab'.saved = tab.saved
  BY FailureTab DEF timesOut, Inv, LinkTypes
<1>. QED BY <1>1, LostPairs DEF timesOut

-----------------------------------------------------------------------------
(* Steps of the desktop.                                                     *)

(* A new connection takes the one session that waits.                        *)
LEMMA OpenPairs == ASSUME Inv, PairInv, open PROVE PairInv'
<1>1. PICK g \in Gens : g = watch.offer
  BY DEF open, Inv, TransportInv, TransportTypeOK, Watch
<1>2. PICK calls \in Nat : calls = IF g = Pairing THEN 1 ELSE waiters
  BY DEF Inv, LinkTypes
<1>3. PICK hellos : hellos = IF g = Pairing THEN <<frame("hello")>> ELSE <<>>
  OBVIOUS
<1>4. wire' = [gen |-> g, toTab |-> <<>>, toDesk |-> hellos]
  BY <1>1, <1>3 DEF open
<1>5. \A f : In(hellos, f) => f.op # "resume"
  <2>1. frame("hello").op = "hello"
    BY FramesOf DEF Ops
  <2>2. \A f : In(<<frame("hello")>>, f) => f.op = "hello"
    BY <2>1 DEF In
  <2>. QED BY <1>3, <2>2, NoneHas
<1>6. /\ wire'.gen = g /\ ~Has(wire'.toTab, "paired") /\ \A f : ~In(wire'.toTab, f)
      /\ \A f : In(wire'.toDesk, f) => f.op # "resume"
  BY <1>4, <1>5, NoneHas
<1>7. PICK p : p = IF g = Pairing THEN "greeting" ELSE session.phase
  OBVIOUS
<1>8. /\ session'.phase = p /\ session'.nonce = session.nonce /\ session'.closing = session.closing
      /\ session'.proving = {}
  <2>1. session.proving = {} /\ session' = [session EXCEPT !.link = g, !.phase = p]
    BY <1>1, <1>7 DEF open
  <2>. QED BY <2>1 DEF Inv, LinkTypes, Sessions
<1>9. /\ tab'.phase = "negotiating" /\ tab'.saved = tab.saved
      /\ watch'.offer = NoGen /\ waiters' = 0 /\ ~Closed /\ greeting = {}
      /\ UNCHANGED <<feed, gone, notices, doubled>>
  BY DEF open, noOffer, Inv, LinkTypes, Tabs, TransportInv, TransportTypeOK, Watch
<1>10. /\ handlers' = [handlers EXCEPT ![g] = calls]
       /\ greeting' = {<<g, k>> : k \in 1 .. calls}
  BY <1>1, <1>2, <1>9 DEF open
<1>11. g = Pairing /\ ~doubled => session.phase = "offering"
  BY <1>1, <1>9 DEF PairInv, Calm, OneEvent, NoGen, Pairing
<1>12. ToldStays'
  BY <1>6, <1>7, <1>8, <1>9, <1>11 DEF PairInv, ToldStays, Told, Stays
<1>13. ASSUME Calm' PROVE OneEvent' /\ OneNonce'
  <2>1. Calm /\ OneEvent /\ OneNonce
    BY <1>9, <1>13 DEF Calm, PairInv
  <2>2. calls = 1 /\ NoNotice
    BY <1>1, <1>2, <1>11, <2>1, GensFacts DEF OneEvent, EventTypes, Calm
  <2>3. handlers' \in [Gens -> {0, 1}]
    BY <1>10, <2>1, <2>2 DEF OneEvent, EventTypes
  <2>4. p # "offering"
    BY <1>1, <1>7, <2>1, <2>2, GensFacts DEF OneEvent
  <2>5. OneEvent'
    BY <1>6, <1>8, <1>9, <2>1, <2>2, <2>3, <2>4, GensFacts DEF OneEvent, EventTypes, NoNotice
  <2>6. greeting' = {<<g, 1>>}
    BY <1>10, <2>2
  <2>7. session.closing => p = "approval"
    BY <1>7, <1>11, <2>1 DEF OneNonce, Calm
  <2>. QED BY <1>6, <1>7, <1>8, <2>5, <2>6, <2>7 DEF OneNonce
<1>. QED BY <1>9, <1>12, <1>13, AsksSame DEF PairInv

(* The one server frame has the nonce the session will have.                 *)
LEMMA ServerPairs == ASSUME Inv, PairInv, sendServer PROVE PairInv'
<1>1. PICK n \in greeting :
        /\ greeting' = greeting \ {n}
        /\ session' = [session EXCEPT !.nonce = n, !.phase = IF n[1] = Pairing THEN "hello" ELSE @]
        /\ IF wire.gen = n[1] THEN toTab(proof("server", n)) ELSE wire' = wire
  BY DEF sendServer
<1>2. n \in Nonces /\ wire \in Wires
  BY DEF Inv, LinkTypes
<1>3. PICK p : p = IF n[1] = Pairing THEN "hello" ELSE session.phase
  OBVIOUS
<1>4. /\ session'.nonce = n /\ session'.phase = p /\ session'.closing = session.closing
      /\ session'.proving = session.proving
  BY <1>1, <1>3 DEF Inv, LinkTypes, Sessions
<1>5. PICK f : f = proof("server", n)
  OBVIOUS
<1>6. f \in Frames /\ f.op = "server" /\ f.nonce = n
  BY <1>2, <1>5, FramesOf DEF Ops, proof
<1>7. /\ wire'.gen = wire.gen /\ wire'.toDesk = wire.toDesk
      /\ Has(wire'.toTab, "paired") => Has(wire.toTab, "paired")
      /\ \A h : In(wire'.toTab, h) => In(wire.toTab, h) \/ h = f
  BY <1>1, <1>2, <1>5, <1>6, ToTabOf
<1>8. UNCHANGED <<tab, handlers, notices, doubled, waiters, watch, gone, feed>> /\ ~Closed
  BY DEF sendServer, deskOnly, transportVars
<1>9. Calm => (n[1] = Pairing => session.phase = "greeting")
  BY DEF PairInv, OneNonce
<1>10. ToldStays'
  BY <1>3, <1>4, <1>7, <1>8, <1>9 DEF PairInv, ToldStays, Told, Stays, Calm
<1>11. ASSUME Calm' PROVE OneEvent' /\ OneNonce'
  <2>1. Calm /\ OneEvent /\ OneNonce
    BY <1>8, <1>11 DEF Calm, PairInv
  <2>2. SameEvents
    BY <1>3, <1>4, <1>7, <1>8, <1>9, <2>1 DEF SameEvents
  <2>3. greeting' = {}
    BY <1>1, <2>1 DEF OneNonce
  <2>4. \A h : In(wire.toTab, h) => h.op # "server"
    BY <2>1 DEF OneNonce
  <2>5. session.proving = {} /\ \A h : In(wire.toDesk, h) => h.op # "resume"
    BY <2>1 DEF OneNonce
  <2>6. session.closing => p = "approval"
    BY <1>3, <1>9, <2>1 DEF OneNonce
  <2>7. OneNonce'
    BY <1>4, <1>6, <1>7, <2>3, <2>4, <2>5, <2>6 DEF OneNonce
  <2>. QED BY <2>1, <2>2, <2>7, EventsKeep
<1>. QED BY <1>8, <1>10, <1>11, AsksSame DEF PairInv

(* Steps of the desktop that keep the phase and the nonce.                   *)
LEMMA DeskPairs ==
  ASSUME PairInv, UNCHANGED <<transportVars, tab, handlers, notices, doubled, waiters, greeting>>,
         session'.phase = session.phase, session'.nonce = session.nonce,
         Calm => session'.closing = session.closing,
         session'.proving = session.proving \/ session'.proving = {},
         wire'.gen = wire.gen, Has(wire'.toTab, "paired") => Has(wire.toTab, "paired"),
         \A f : f.op = "server" /\ In(wire'.toTab, f) => In(wire.toTab, f),
         \A f : f.op = "resume" /\ In(wire'.toDesk, f) => In(wire.toDesk, f)
  PROVE  PairInv'
<1>1. SamePairing
  BY DEF SamePairing, transportVars
<1>2. Calm' => Calm
  BY DEF Calm, Closed
<1>3. Calm => SameEvents /\ SameNonces
  BY DEF SameEvents, SameNonces, PairInv, OneNonce, transportVars
<1>. QED BY <1>1, <1>2, <1>3, AsksSame, PairsKeep DEF PairInv, transportVars

LEMMA AwaitApprovalPairs == ASSUME Inv, PairInv, awaitApproval PROVE PairInv'
<1>1. UNCHANGED <<transportVars, tab, handlers, notices, doubled, waiters, greeting, wire>>
  BY DEF awaitApproval, deskOnly
<1>2. /\ session.phase = "hello" /\ session'.phase = "approval"
      /\ session'.nonce = session.nonce /\ session'.closing = session.closing
      /\ session'.proving = session.proving
  BY DEF awaitApproval, Inv, LinkTypes, Sessions
<1>3. SamePairing
  BY <1>1, <1>2 DEF SamePairing, transportVars
<1>4. Calm' => Calm /\ SameEvents /\ SameNonces
  BY <1>1, <1>2 DEF Calm, Closed, SameEvents, SameNonces, transportVars
<1>. QED BY <1>1, <1>3, <1>4, AsksSame, PairsKeep DEF PairInv, transportVars

LEMMA ApprovePairs == ASSUME NEW ok \in BOOLEAN, Inv, PairInv, approve(ok) PROVE PairInv'
<1>1. UNCHANGED <<transportVars, tab, handlers, notices, doubled, waiters, greeting>>
  BY DEF approve, deskOnly
<1>2. /\ session.phase = "approval" /\ session'.phase \in {"approval", "saving"}
      /\ session'.nonce = session.nonce /\ session'.proving = session.proving
      /\ session'.closing => session'.phase = "approval"
  BY DEF approve, Inv, LinkTypes, Sessions
<1>3. /\ wire'.gen = wire.gen /\ wire'.toDesk = wire.toDesk
      /\ Has(wire'.toTab, "paired") => Has(wire.toTab, "paired")
      /\ \A f : f.op = "server" /\ In(wire'.toTab, f) => In(wire.toTab, f)
  <2>1. PICK e : e = frame("error")
    OBVIOUS
  <2>2. e \in Frames /\ e.op = "error" /\ wire \in Wires
    BY <2>1, FramesOf DEF Ops, Inv, LinkTypes
  <2>3. CASE toTab(e)
    BY <2>2, <2>3, ToTabOf
  <2>4. CASE wire' = wire
    BY <2>4
  <2>. QED BY <2>1, <2>3, <2>4 DEF approve
<1>4. SamePairing
  BY <1>1, <1>2, <1>3 DEF SamePairing, transportVars
<1>5. Calm' => Calm /\ SameEvents /\ SameNonces
  BY <1>1, <1>2, <1>3 DEF Calm, Closed, SameEvents, SameNonces, transportVars
<1>. QED BY <1>1, <1>4, <1>5, AsksSame, PairsKeep DEF PairInv, transportVars

(* The tab is told once the session is paired.                               *)
LEMMA PairedPairs == ASSUME Inv, PairInv, paired PROVE PairInv'
<1>1. UNCHANGED <<transportVars, tab, handlers, notices, doubled, waiters, greeting>>
  BY DEF paired, deskOnly
<1>2. /\ session.phase = "saving" /\ session'.phase = "paired"
      /\ session'.nonce = session.nonce /\ session'.closing = session.closing
      /\ session'.proving = session.proving
  BY DEF paired, Inv, LinkTypes, Sessions
<1>3. wire'.gen = wire.gen /\ wire'.toDesk = wire.toDesk
      /\ \A f : f.op = "server" /\ In(wire'.toTab, f) => In(wire.toTab, f)
  <2>1. PICK e : e = frame("paired")
    OBVIOUS
  <2>2. e \in Frames /\ e.op = "paired" /\ wire \in Wires
    BY <2>1, FramesOf DEF Ops, Inv, LinkTypes
  <2>. QED BY <2>1, <2>2, ToTabOf DEF paired
<1>4. ToldStays'
  BY <1>2 DEF ToldStays, Stays
<1>5. Calm' => Calm
  BY <1>1, <1>2 DEF Calm, Closed
<1>6. Calm => SameEvents /\ SameNonces
  BY <1>1, <1>2, <1>3 DEF SameEvents, SameNonces, transportVars, PairInv, OneNonce
<1>. QED BY <1>1, <1>4, <1>5, <1>6, AsksSame, EventsKeep, NoncesKeep DEF PairInv, transportVars

(* The one proof under way is for the nonce of the session.                  *)
LEMMA ResumePairs ==
  ASSUME Inv, PairInv, wire.toDesk # <<>>, Head(wire.toDesk).op = "resume",
         onResume(Head(wire.toDesk).nonce), ~Closed,
         UNCHANGED <<transportVars, tab, handlers, notices, doubled, waiters, greeting>>
  PROVE  PairInv'
<1>1. PICK n : n = Head(wire.toDesk).nonce
  OBVIOUS
<1>2. PICK rest : rest = Tail(wire.toDesk)
  OBVIOUS
<1>3. /\ wire \in Wires /\ rest \in Seq(Frames) /\ wire.toTab \in Seq(Frames) /\ n \in Nonces
      /\ In(wire.toDesk, Head(wire.toDesk))
      /\ \A f : In(rest, f) => In(wire.toDesk, f)
  BY <1>1, <1>2, ConsumedOf DEF Inv, LinkTypes, Frames, Wires
<1>4. CASE session.reconnecting
  <2>1. PICK ns : ns = session.proving \cup {n}
    OBVIOUS
  <2>2. session' = [session EXCEPT !.proving = ns] /\ wire' = [wire EXCEPT !.toDesk = rest]
    BY <1>1, <1>2, <1>4, <2>1 DEF onResume
  <2>3. /\ session'.phase = session.phase /\ session'.nonce = session.nonce
        /\ session'.closing = session.closing /\ session'.proving = ns
    BY <2>2 DEF Inv, LinkTypes, Sessions
  <2>4. wire'.gen = wire.gen /\ wire'.toTab = wire.toTab /\ wire'.toDesk = rest
    BY <1>3, <2>2 DEF Wires
  <2>5. Calm => greeting = {} /\ n = session.nonce
    BY <1>1, <1>3 DEF PairInv, OneNonce
  <2>6. Calm => ns = {session.nonce}
    BY <2>1, <2>5 DEF PairInv, OneNonce
  <2>7. SamePairing
    BY <2>3, <2>4 DEF SamePairing, transportVars
  <2>8. Calm' => Calm /\ SameEvents
    BY <2>3, <2>4 DEF Calm, Closed, SameEvents, transportVars
  <2>9. Calm' => OneNonce'
    BY <1>3, <2>3, <2>4, <2>5, <2>6, <2>8 DEF PairInv, OneNonce
  <2>. QED BY <2>7, <2>8, <2>9, AsksSame, ToldKeeps, EventsKeep DEF PairInv, transportVars
<1>5. CASE ~session.reconnecting
  <2>1. PICK f : f = frame("error")
    OBVIOUS
  <2>2. f \in Frames /\ f.op = "error"
    BY <2>1, FramesOf DEF Ops
  <2>3. PICK s : s = Append(wire.toTab, f)
    OBVIOUS
  <2>4. /\ s \in Seq(Frames) /\ \A op : Has(s, op) => Has(wire.toTab, op) \/ f.op = op
        /\ \A g : In(s, g) => In(wire.toTab, g) \/ g = f
    BY <1>3, <2>2, <2>3, HasAppend
  <2>5. session' = session /\ wire' = [wire EXCEPT !.toTab = s, !.toDesk = rest]
    BY <1>2, <1>5, <2>1, <2>3 DEF onResume
  <2>6. wire'.gen = wire.gen /\ wire'.toTab = s /\ wire'.toDesk = rest
    BY <1>3, <2>4, <2>5 DEF Wires
  <2>. QED BY <1>3, <2>2, <2>4, <2>5, <2>6, DeskPairs
<1>. QED BY <1>4, <1>5

(* So it is not refused.                                                     *)
LEMMA ProvesPairs == ASSUME Inv, PairInv, proves PROVE PairInv'
<1>1. PICK n \in session.proving :
        /\ IF proven(n)
             THEN session' = [session EXCEPT !.proving = session.proving \ {n}, !.authed = TRUE,
                                !.reconnecting = FALSE, !.proved = @ \cup {n[1]}]
             ELSE session' = [session EXCEPT !.proving = session.proving \ {n}, !.closing = TRUE]
        /\ IF wire.gen = n[1]
             THEN toTab(IF proven(n) THEN proof("resumed", n) ELSE frame("error"))
             ELSE wire' = wire
  BY DEF proves
<1>2. UNCHANGED <<transportVars, tab, handlers, notices, doubled, waiters, greeting>> /\ ~Closed
  BY DEF proves, deskOnly
<1>3. session \in Sessions /\ wire \in Wires /\ n \in Nonces
  BY DEF Inv, LinkTypes, Sessions
<1>4. PICK rest : rest = session.proving \ {n}
  OBVIOUS
<1>5. Calm => proven(n) /\ rest = {}
  BY <1>4 DEF PairInv, OneNonce, proven
<1>6. /\ session'.phase = session.phase /\ session'.nonce = session.nonce /\ session'.proving = rest
      /\ proven(n) => session'.closing = session.closing
  BY <1>1, <1>3, <1>4 DEF Sessions
<1>7. PICK f : f = IF proven(n) THEN proof("resumed", n) ELSE frame("error")
  OBVIOUS
<1>8. f \in Frames /\ f.op \in {"resumed", "error"}
  BY <1>3, <1>7, FramesOf DEF Ops
<1>9. /\ wire'.gen = wire.gen /\ wire'.toDesk = wire.toDesk
      /\ Has(wire'.toTab, "paired") => Has(wire.toTab, "paired")
      /\ \A g : g.op = "server" /\ In(wire'.toTab, g) => In(wire.toTab, g)
  <2>1. CASE toTab(f)
    BY <1>3, <1>8, <2>1, ToTabOf
  <2>2. CASE wire' = wire
    BY <2>2
  <2>. QED BY <1>1, <1>7, <2>1, <2>2
<1>10. SamePairing
  BY <1>2, <1>6, <1>9 DEF SamePairing, transportVars
<1>11. Calm' => Calm /\ SameEvents
  BY <1>2, <1>6, <1>9 DEF Calm, Closed, SameEvents, transportVars
<1>12. Calm => SameNonces
  BY <1>2, <1>5, <1>6, <1>9 DEF SameNonces, PairInv, OneNonce
<1>. QED BY <1>2, <1>10, <1>11, <1>12, AsksSame, PairsKeep DEF PairInv, transportVars

LEMMA ControlPairs == ASSUME Inv, PairInv, onControl PROVE PairInv'
<1>1. /\ wire.toDesk # <<>> /\ wire \in Wires /\ session \in Sessions /\ ~Closed
      /\ UNCHANGED <<transportVars, tab, handlers, notices, doubled, waiters, greeting>>
  BY DEF onControl, deskOnly, Inv, LinkTypes
<1>2. PICK f : f = Head(wire.toDesk)
  OBVIOUS
<1>3. consumed => /\ wire'.gen = wire.gen /\ wire'.toTab = wire.toTab
                  /\ \A g : In(wire'.toDesk, g) => In(wire.toDesk, g)
  BY <1>1, ConsumedOf
<1>4. \/ session' = session /\ consumed
      \/ f.op = "hello" /\ session' = [session EXCEPT !.hello = TRUE] /\ consumed
      \/ f.op = "resume" /\ onResume(f.nonce)
      \/ f.op = "ready" /\ onReady /\ consumed
      \/ f.op = "catalog" /\ onCatalog /\ consumed
  BY <1>2 DEF onControl
<1>5. CASE f.op = "resume" /\ onResume(f.nonce)
  BY <1>1, <1>2, <1>5, ResumePairs
<1>6. CASE /\ consumed
           /\ \/ session' = session
              \/ session' = [session EXCEPT !.hello = TRUE]
              \/ onReady \/ onCatalog
  <2>1. /\ session'.phase = session.phase /\ session'.nonce = session.nonce
        /\ session'.closing = session.closing /\ session'.proving = session.proving
    BY <1>1, <1>6 DEF onReady, onCatalog, Sessions
  <2>. QED BY <1>1, <1>3, <1>6, <2>1, DeskPairs
<1>. QED BY <1>4, <1>5, <1>6

(* A session that crashed is not one that was closed.                        *)
LEMMA AttachPairs == ASSUME Inv, PairInv, attachProfileLink PROVE PairInv'
<1>1. UNCHANGED <<transportVars, tab, handlers, notices, doubled, waiters, greeting>>
  BY DEF attachProfileLink, deskOnly
<1>2. CASE session.link = NoGen
  <2>1. session' = [disposed EXCEPT !.phase = "crashed"]
    BY <1>2 DEF attachProfileLink
  <2>2. session'.phase = "crashed"
    BY <2>1 DEF disposed, Inv, LinkTypes, Sessions
  <2>. QED BY <1>1, <2>2, AsksSame DEF PairInv, ToldStays, Stays, Calm, Closed, transportVars
<1>3. CASE session.link # NoGen
  <2>1. wire' = wire
    BY <1>3 DEF attachProfileLink
  <2>2. PICK y : y = IF session.pending THEN session.link ELSE session.synced
    OBVIOUS
  <2>3. session' = [session EXCEPT !.attaching = FALSE, !.profileLink = session.link,
                                   !.synced = y, !.pending = FALSE]
    BY <1>3, <2>2 DEF attachProfileLink
  <2>4. /\ session'.phase = session.phase /\ session'.nonce = session.nonce
        /\ session'.closing = session.closing /\ session'.proving = session.proving
    BY <2>3 DEF Inv, LinkTypes, Sessions
  <2>. QED BY <1>1, <2>1, <2>4, DeskPairs
<1>. QED BY <1>2, <1>3

(* The one close event leaves a session that was paired, which waits again.  *)
LEMMA LinkClosedPairs == ASSUME Inv, PairInv, onLinkClosed PROVE PairInv'
<1>1. PICK g \in Gens :
        /\ notices[g] > 0
        /\ notices' = [notices EXCEPT ![g] = @ - 1]
        /\ IF Closed
             THEN UNCHANGED <<session, waiters, wire>>
             ELSE IF waitsForTab
               THEN session' = forgotten /\ waiters' = waiters + 1 /\ wire' = wire
               ELSE session' = disposed /\ waiters' = 0 /\ wire' = wire
  BY DEF onLinkClosed
<1>2. /\ UNCHANGED <<transportVars, greeting, tab, handlers, doubled>> /\ wire' = wire
      /\ session \in Sessions
  BY DEF onLinkClosed, Inv, LinkTypes
<1>3. ASSUME OneEvent
      PROVE  /\ notices[g] = 1 /\ NoNotice' /\ waiters = 0 /\ wire.gen = NoGen
             /\ notices' \in [Gens -> {0, 1}] /\ watch.offer = NoGen /\ session.phase # "offering"
  <2>1. notices \in [Gens -> {0, 1}] /\ waiters \in {0, 1}
    BY <1>3 DEF OneEvent, EventTypes
  <2>2. notices[g] = 1
    BY <1>1, <2>1
  <2>3. /\ \A h \in Gens : h # g => notices[h] = 0
        /\ waiters = 0 /\ wire.gen = NoGen /\ session.phase # "offering"
    BY <1>3, <2>1, <2>2 DEF OneEvent, NoNotice
  <2>4. watch.offer = NoGen
    BY <1>3, <2>3 DEF OneEvent
  <2>5. PICK k : k = notices[g] - 1
    OBVIOUS
  <2>6. k = 0 /\ notices' = [notices EXCEPT ![g] = k]
    BY <1>1, <2>2, <2>5
  <2>7. notices' \in [Gens -> {0, 1}] /\ \A h \in Gens : notices'[h] = 0
    BY <2>1, <2>3, <2>6
  <2>. QED BY <2>2, <2>3, <2>4, <2>7 DEF NoNotice
<1>4. CASE Closed
  <2>1. UNCHANGED <<session, waiters, wire>>
    BY <1>1, <1>4
  <2>. QED BY <1>2, <1>4, <2>1, AsksSame
       DEF PairInv, ToldStays, Told, Stays, Calm, Closed, transportVars
<1>5. CASE ~Closed /\ session.phase = "paired"
  <2>1. session' = forgotten /\ waiters' = waiters + 1
    BY <1>1, <1>5 DEF waitsForTab
  <2>2. /\ session'.phase = session.phase /\ session'.nonce = session.nonce
        /\ session'.closing = session.closing /\ session'.proving = session.proving
    <3>1. PICK d : d = IF session.profileLink = NoGen THEN session.deaf
                         ELSE session.deaf \cup {session.profileLink}
      OBVIOUS
    <3>2. PICK r : r = (session.reconnecting \/ session.phase = "paired")
      OBVIOUS
    <3>3. session' = [session EXCEPT !.link = NoGen, !.authed = FALSE, !.pending = FALSE,
                                     !.reconnecting = r, !.deaf = d, !.profileLink = NoGen]
      BY <2>1, <3>1, <3>2 DEF forgotten
    <3>. QED BY <1>2, <3>3 DEF Sessions
  <2>3. ToldStays'
    BY <1>5, <2>2 DEF ToldStays, Stays
  <2>4. Calm' => Calm
    BY <1>2, <1>5 DEF Calm
  <2>5. Calm => OneEvent'
    <3>1. SUFFICES ASSUME Calm PROVE OneEvent'
      OBVIOUS
    <3>2. OneEvent
      BY <3>1 DEF PairInv
    <3>. QED BY <1>2, <1>3, <1>5, <2>1, <2>2, <3>2
         DEF OneEvent, EventTypes, NoNotice, transportVars, NoGen, Pairing
  <2>6. Calm => SameNonces
    BY <1>2, <1>5, <2>2 DEF SameNonces, PairInv, OneNonce
  <2>. QED BY <1>2, <2>3, <2>4, <2>5, <2>6, NoncesKeep, AsksSame DEF PairInv, transportVars
<1>6. CASE ~Closed /\ session.phase # "paired"
  <2>1. session' = disposed
    BY <1>1, <1>6 DEF waitsForTab
  <2>2. session'.phase = "closed"
    BY <1>2, <2>1 DEF disposed, Sessions
  <2>3. session.phase \notin {"paired", "crashed"}
    BY <1>6 DEF Closed
  <2>4. SamePairing
    BY <1>2, <2>3 DEF SamePairing, transportVars
  <2>5. ~Calm'
    BY <2>2 DEF Calm, Closed
  <2>. QED BY <1>2, <2>4, <2>5, AsksSame, PairsKeep DEF PairInv, transportVars
<1>. QED BY <1>4, <1>5, <1>6

LEMMA DisposePairs == ASSUME Inv, PairInv, dispose PROVE PairInv'
<1>1. UNCHANGED <<transportVars, tab, doubled>> /\ wire' = down /\ session' = disposed /\ ~Closed
  BY DEF dispose, deskOnly
<1>2. session'.phase = "closed"
  BY <1>1 DEF disposed, Inv, LinkTypes, Sessions
<1>3. ~Calm'
  BY <1>2 DEF Calm, Closed
<1>4. Told' => Told
  BY <1>1, NoneHas DEF Told, down
<1>5. session.closing \/ gone
  BY DEF dispose
<1>6. session.closing => doubled \/ session.phase \notin {"paired", "crashed"}
  BY <1>1 DEF PairInv, OneNonce, Calm
<1>7. ToldStays'
  BY <1>1, <1>4, <1>5, <1>6 DEF PairInv, ToldStays, Stays, transportVars
<1>. QED BY <1>1, <1>3, <1>7, AsksSame DEF PairInv, transportVars

(* The watcher answers requests only for the session that waits.             *)
LEMMA WatchReconnectPairs == ASSUME Inv, PairInv, watchReconnect PROVE PairInv'
<1>1. /\ UNCHANGED <<session, waiters, greeting, wire, tab, handlers, notices, doubled, gone>>
      /\ waiters > 0 /\ watch.offer = NoGen /\ watchNext
  BY DEF watchReconnect, watchNext, deskOnly
<1>2. PICK i \in DOMAIN feed : i = watch.cursor + 1
  BY <1>1 DEF watchNext
<1>3. watch \in Watch /\ feed \in Seq(Signal) /\ feed[i] \in Signal
  <2>1. watch \in Watch /\ feed \in Seq(Signal)
    BY DEF Inv, TransportInv, TransportTypeOK
  <2>. QED BY <1>2, <2>1, ElementOfSeq, LenProperties
<1>4. /\ AsksLater'
      /\ watch'.offer = NoGen \/ (watch'.offer \in Gens /\ watch'.offer # Pairing)
  <2>1. CASE fresh(i)
    <3>1. PICK g \in Gens : g = feed[i].gen
      BY <1>3 DEF Signal
    <3>2. g # Pairing
      BY <1>2, <2>1, <3>1 DEF fresh, PairInv, AsksLater
    <3>3. feed' = relaySignal("desktop", "offer", g)
      BY <1>1, <1>2, <2>1, <3>1 DEF watchNext
    <3>4. PICK h : h = watch.handled \cup {g}
      OBVIOUS
    <3>5. watch' = [watch EXCEPT !.cursor = i, !.offer = g, !.handled = h, !.answered = FALSE]
      BY <1>1, <1>2, <2>1, <3>1, <3>4 DEF watchNext, lookedAt
    <3>6. watch'.offer = g
      BY <1>3, <3>5 DEF Watch
    <3>. QED BY <3>2, <3>3, <3>6, AsksGrow DEF Inv, PairInv
  <2>2. CASE ~fresh(i)
    <3>1. feed' = feed /\ watch' = [watch EXCEPT !.cursor = lookedAt(i)]
      BY <1>1, <1>2, <2>2 DEF watchNext
    <3>2. watch'.offer = NoGen
      BY <1>1, <1>3, <3>1 DEF Watch
    <3>. QED BY <3>1, <3>2, AsksSame DEF PairInv
  <2>. QED BY <2>1, <2>2
<1>5. SamePairing
  BY <1>1 DEF SamePairing
<1>6. Calm' => Calm
  BY <1>1 DEF Calm, Closed
<1>7. Calm => SameNonces
  BY <1>1 DEF SameNonces, PairInv, OneNonce
<1>8. Calm => OneEvent'
  BY <1>1, <1>4, GensFacts DEF PairInv, OneEvent, EventTypes, NoNotice
<1>. QED BY <1>4, <1>5, <1>6, <1>7, <1>8, ToldKeeps, NoncesKeep DEF PairInv

LEMMA PollOfferPairs == ASSUME Inv, PairInv, pollOffer PROVE PairInv'
<1>1. UNCHANGED <<session, waiters, greeting, wire, tab, handlers, notices, doubled, gone, feed>>
  BY DEF pollOffer, pollAnswer, deskOnly
<1>2. watch'.offer = watch.offer \/ watch'.offer = NoGen
  BY DEF pollOffer, pollAnswer, noOffer, Inv, TransportInv, TransportTypeOK, Watch
<1>3. SamePairing
  BY <1>1 DEF SamePairing
<1>4. Calm' => Calm /\ SameEvents /\ SameNonces
  BY <1>1, <1>2 DEF Calm, Closed, SameEvents, SameNonces, PairInv, OneNonce
<1>. QED BY <1>1, <1>3, <1>4, AsksSame, PairsKeep DEF PairInv

(* Faults.                                                                   *)
LEMMA FaultyPairs == ASSUME Inv, PairInv, Faulty PROVE PairInv'
<1>1. CASE drop
  BY <1>1, LostPairs DEF drop
<1>2. CASE reload
  <2>1. tab'.saved = tab.saved /\ tab'.phase \in {"idle", "failed"}
    BY <1>2 DEF reload, Inv, LinkTypes, Tabs
  <2>. QED BY <1>2, <2>1, LostPairs DEF reload
<1>3. CASE slow
  BY <1>3, TimeoutPairs DEF slow
<1>4. CASE offerFails
  <2>1. /\ UNCHANGED <<gone, waiters, greeting, tab, wire, handlers, notices, doubled>>
        /\ ~Closed /\ watch' = noOffer /\ watch.offer # NoGen
    BY <1>4 DEF offerFails
  <2>2. watch'.offer = NoGen
    BY <2>1 DEF noOffer, Inv, TransportInv, TransportTypeOK, Watch
  <2>3. CASE watch.offer = Pairing
    <3>1. session' = disposed /\ feed' = relaySignal("desktop", "bye", Pairing)
      BY <1>4, <2>3 DEF offerFails
    <3>2. session'.phase = "closed"
      BY <3>1 DEF disposed, Inv, LinkTypes, Sessions
    <3>3. doubled \/ session.phase = "offering"
      BY <2>1, <2>3 DEF PairInv, OneEvent, Calm
    <3>4. ToldStays'
      BY <2>1, <3>3 DEF PairInv, ToldStays, Told, Stays
    <3>5. AsksLater'
      BY <3>1, GensFacts, AsksGrow DEF Inv, PairInv
    <3>. QED BY <3>2, <3>4, <3>5 DEF PairInv, Calm, Closed
  <2>4. CASE watch.offer # Pairing
    <3>1. session' = session /\ feed' = feed
      BY <1>4, <2>4 DEF offerFails
    <3>2. SamePairing
      BY <2>1, <3>1 DEF SamePairing
    <3>3. Calm' => Calm /\ SameEvents /\ SameNonces
      BY <2>1, <2>2, <3>1 DEF Calm, Closed, SameEvents, SameNonces, PairInv, OneNonce
    <3>. QED BY <3>1, <3>2, <3>3, AsksSame, PairsKeep DEF PairInv
  <2>. QED BY <2>3, <2>4
<1>5. CASE expire
  BY <1>5, TabPairs, AsksSame DEF expire, purge, PairInv
<1>. QED BY <1>1, <1>2, <1>3, <1>4, <1>5 DEF Faulty

LEMMA NextPairs == Inv /\ PairInv /\ [Next]_vars => PairInv'
<1>. SUFFICES ASSUME Inv, PairInv, [Next]_vars PROVE PairInv'
  OBVIOUS
<1>1. CASE Desktop
  BY <1>1, ServerPairs, AwaitApprovalPairs, ApprovePairs, PairedPairs, ControlPairs, ProvesPairs, AttachPairs,
     LinkClosedPairs, DisposePairs, WatchReconnectPairs, PollOfferPairs DEF Desktop
<1>2. CASE TabSteps
  <2>1. givesUp => PairInv'
    BY TimeoutPairs DEF givesUp, tabOnly
  <2>. QED BY <1>2, <2>1, ConnectPairs, AnswerPairs, SignalFailsPairs, NegotiatePairs, ConfirmPairs,
           IgnorePairs, OnClosedPairs DEF TabSteps
<1>3. CASE open \/ join \/ approve(FALSE) \/ rejectPhrase \/ Faulty
  BY <1>3, OpenPairs, JoinPairs, ApprovePairs, RejectPairs, FaultyPairs
<1>4. CASE UNCHANGED vars
  BY <1>4, TabPairs, AsksSame DEF vars, transportVars, PairInv
<1>. QED BY <1>1, <1>2, <1>3, <1>4 DEF Next, Steps

(* What happens to the connections does not end a pairing: while the channel  *)
(* is alive the session of a tab that stored the link is not closed, unless a *)
(* connection gave it two close events (PeerSession.onLinkClosed, closeSoon). *)
THEOREM PairingKept == Spec => []KeepsThePairing
<1>1. PairInv => KeepsThePairing
  BY DEF PairInv, ToldStays, Told, Stays, KeepsThePairing
<1>. QED BY <1>1, InitInv, NextInv, InitPairs, NextPairs, PTL DEF Spec

-----------------------------------------------------------------------------
(* The way through the mailbox.  Its model is the instance Local, whose      *)
(* session, end and wire are sessions, ends and wires here.                  *)

(* Keys that peers.json holds, or held; any, once writes have crossed.      *)
Known == IF crossed THEN Local!Key ELSE retired \cup {Local!NoKey, peers}

KnownFrame(K) == [op : {"hello", "server", "paired", "resume", "resumed", "ready", "error"}, key : K]
Ends(K) == [Local!Channel -> [phase : {"none", "signaling", "negotiating", "compare", "live", "over"}, key : K]]
WiresLocal(K) == [Local!Channel -> [up : BOOLEAN, toTab : Seq(KnownFrame(K)), toDesk : Seq(Local!Frame)]]

TabKnows(K) == ends \in Ends(K) /\ wires \in WiresLocal(K) /\ stored \in K

(* A session whose pairing was not approved yet, if it is one.               *)
Early == {"none", "waiting", "hello", "approval"}

WritesOK ==
  /\ \A c \in Local!Channel : writes[c] = "done" => c \in Known
  /\ ~crossed /\ peers # Local!NoKey => writes[peers] = "done"
  /\ \A c \in Local!Channel : sessions[c].phase \in Early => writes[c] = "none"

(* A channel and its session are made together, and a session begins idle.   *)
Unmade == \A c \in Local!Channel : mailbox[c].state = "unmade" => sessions[c].phase = "none"
Idle == \A c \in Local!Channel : sessions[c].phase = "none" => sessions[c].runtime = "none"

SessionsOK == Unmade /\ Idle /\ Local!OneWriter

LocalInv == Local!TypeOK /\ TabKnows(Known) /\ WritesOK /\ SessionsOK

-----------------------------------------------------------------------------
(* Types                                                                    *)

LEMMA ChannelFacts ==
  /\ Local!Channel \subseteq Local!Key /\ Local!NoKey \in Local!Key /\ Local!NoKey \notin Local!Channel /\ Local!Revocation \notin Local!Channel
  /\ Local!NoChannel \in Local!Key /\ Local!Channel \subseteq Local!Writer /\ Local!Revocation \in Local!Writer
  BY DEF Local!Channel, Local!Key, Local!NoKey, Local!NoChannel, Local!Revocation, Local!Writer

LEMMA KnownIsKey == Local!TypeOK => Known \subseteq Local!Key /\ Local!NoKey \in Known
  BY ChannelFacts DEF Local!TypeOK, Known

(* What is known is what a tab may hold, so the type follows.                *)
LEMMA SeqMono == ASSUME NEW A, NEW B, A \subseteq B PROVE Seq(A) \subseteq Seq(B)
<1>. SUFFICES ASSUME NEW s \in Seq(A) PROVE s \in Seq(B)
  OBVIOUS
<1>1. Len(s) \in Nat /\ s \in [1 .. Len(s) -> A]
  BY LenProperties
<1>2. s \in [1 .. Len(s) -> B]
  BY <1>1
<1>. QED BY <1>1, <1>2, SeqDef

LEMMA KnowsMono == ASSUME NEW K, NEW L, K \subseteq L
                   PROVE  Ends(K) \subseteq Ends(L) /\ WiresLocal(K) \subseteq WiresLocal(L)
<1>1. Ends(K) \subseteq Ends(L)
  BY DEF Ends
<1>2. Seq(KnownFrame(K)) \subseteq Seq(KnownFrame(L))
  BY SeqMono DEF KnownFrame
<1>3. WiresLocal(K) \subseteq WiresLocal(L)
  BY <1>2 DEF WiresLocal
<1>. QED BY <1>1, <1>3

LEMMA KeyTypes == Ends(Local!Key) = [Local!Channel -> Local!End] /\ WiresLocal(Local!Key) = [Local!Channel -> Local!Wire]
  BY DEF Ends, WiresLocal, KnownFrame, Local!End, Local!Wire, Local!Frame

(* All that a step has to show when peers.json stays as it is.               *)
LEMMA StepKeeps ==
  ASSUME LocalInv, UNCHANGED <<peers, tmp, retired, crossed>>,
         mailbox' \in [Local!Channel -> Local!MailboxChannel], sessions' \in [Local!Channel -> Local!Session],
         ends' \in Ends(Known), wires' \in WiresLocal(Known), stored' \in Known, live' \in Local!Key,
         writes' \in [Local!Writer -> Local!Write], events' \in 0 .. MaxEvents,
         WritesOK', SessionsOK'
  PROVE  LocalInv'
<1>1. Known' = Known
  BY DEF Known
<1>2. TabKnows(Known)'
  BY <1>1 DEF TabKnows, Ends, WiresLocal
<1>3. ends' \in [Local!Channel -> Local!End] /\ wires' \in [Local!Channel -> Local!Wire] /\ stored' \in Local!Key
  BY KnownIsKey, KnowsMono, KeyTypes DEF LocalInv
<1>4. Local!TypeOK'
  BY <1>3 DEF LocalInv, Local!TypeOK, Local!MailboxTypeOK
<1>. QED BY <1>2, <1>4 DEF LocalInv

LEMMA Held ==
  ASSUME LocalInv
  PROVE  /\ mailbox \in [Local!Channel -> Local!MailboxChannel] /\ sessions \in [Local!Channel -> Local!Session]
         /\ ends \in Ends(Known) /\ wires \in WiresLocal(Known) /\ stored \in Known
         /\ live \in Local!Key /\ writes \in [Local!Writer -> Local!Write] /\ events \in 0 .. MaxEvents
         /\ WritesOK /\ Unmade /\ Idle /\ Local!OneWriter /\ Local!NoKey \in Known
         /\ tmp \in Local!Key \cup {Local!NoFile} /\ crossed \in BOOLEAN /\ peers \in Local!Key
  BY ChannelFacts DEF LocalInv, Local!TypeOK, Local!MailboxTypeOK, TabKnows, SessionsOK, Known

-----------------------------------------------------------------------------
(* The operators the actions are built from                                 *)

(* Records with fields of any sets, for records whose sets are long.         *)
LEMMA BoxUpdate ==
  ASSUME NEW A, NEW B, NEW G, NEW r \in [state : A, code : B, signals : G], NEW b \in B, NEW g \in G
  PROVE  /\ [r EXCEPT !.code = b, !.signals = g] \in [state : A, code : B, signals : G]
         /\ [r EXCEPT !.code = b, !.signals = g].state = r.state
  OBVIOUS

LEMMA PhaseUpdate ==
  ASSUME NEW A, NEW B, NEW G, NEW H, NEW r \in [mode : A, phase : B, runtime : G, closing : H], NEW b \in B
  PROVE  [r EXCEPT !.phase = b] \in [mode : A, phase : B, runtime : G, closing : H]
  OBVIOUS

LEMMA RuntimeUpdate ==
  ASSUME NEW A, NEW B, NEW G, NEW H, NEW r \in [mode : A, phase : B, runtime : G, closing : H], NEW g \in G
  PROVE  /\ [r EXCEPT !.runtime = g] \in [mode : A, phase : B, runtime : G, closing : H]
         /\ [r EXCEPT !.runtime = g].phase = r.phase
  OBVIOUS

LEMMA ClosingUpdate ==
  ASSUME NEW A, NEW B, NEW G, NEW H, NEW r \in [mode : A, phase : B, runtime : G, closing : H], NEW h \in H
  PROVE  [r EXCEPT !.closing = h] \in [mode : A, phase : B, runtime : G, closing : H]
  OBVIOUS

Modes == {"none", "pairing", "reconnect"}
Phases == {"none", "waiting", "hello", "approval", "saving", "greeting", "resuming", "paired", "closed"}
Runtimes == {"none", "attaching", "starting", "started"}

LEMMA SessionSet == Local!Session = [mode : Modes, phase : Phases, runtime : Runtimes, closing : BOOLEAN]
  BY DEF Local!Session, Modes, Phases, Runtimes

LEMMA SessionOK ==
  ASSUME NEW r \in Local!Session
  PROVE  /\ \A p \in Phases : [r EXCEPT !.phase = p] \in Local!Session
         /\ \A g \in Runtimes : [r EXCEPT !.runtime = g] \in Local!Session /\ [r EXCEPT !.runtime = g].phase = r.phase
         /\ \A h \in BOOLEAN : [r EXCEPT !.closing = h] \in Local!Session
         /\ r.mode \in Modes /\ r.phase \in Phases /\ r.runtime \in Runtimes
<1>1. ASSUME NEW p \in Phases PROVE [r EXCEPT !.phase = p] \in Local!Session
  BY SessionSet, PhaseUpdate
<1>2. ASSUME NEW g \in Runtimes PROVE [r EXCEPT !.runtime = g] \in Local!Session /\ [r EXCEPT !.runtime = g].phase = r.phase
  BY SessionSet, RuntimeUpdate
<1>3. ASSUME NEW h \in BOOLEAN PROVE [r EXCEPT !.closing = h] \in Local!Session
  BY SessionSet, ClosingUpdate
<1>4. r.mode \in Modes /\ r.phase \in Phases /\ r.runtime \in Runtimes
  BY SessionSet
<1>. QED BY <1>1, <1>2, <1>3, <1>4

LEMMA NewSessionOK ==
  ASSUME NEW mode \in Modes, NEW phase \in Phases
  PROVE  /\ Local!newSession(mode, phase) \in Local!Session /\ Local!newSession(mode, phase).phase = phase
         /\ Local!newSession(mode, phase).runtime = "none"
<1>1. "none" \in Runtimes
  BY DEF Runtimes
<1>. QED BY <1>1, SessionSet DEF Local!newSession

LEMMA DisposedOK ==
  ASSUME NEW s \in [Local!Channel -> Local!Session], NEW cs
  PROVE  /\ Local!disposed(s, cs) \in [Local!Channel -> Local!Session]
         /\ \A d \in Local!Channel :
              \/ Local!disposed(s, cs)[d] = s[d] /\ (d \in cs => s[d].phase = "none")
              \/ Local!disposed(s, cs)[d].phase = "closed" /\ s[d].phase # "none"
<1>1. ASSUME NEW d \in Local!Channel, d \in cs, s[d].phase # "none"
      PROVE  Local!disposed(s, cs)[d] \in Local!Session /\ Local!disposed(s, cs)[d].phase = "closed"
  <2>1. PICK g \in Runtimes : g = IF s[d].runtime = "started" THEN "none" ELSE s[d].runtime
    BY SessionOK DEF Runtimes
  <2>2. Local!disposed(s, cs)[d] = [Local!newSession(s[d].mode, "closed") EXCEPT !.runtime = g]
    BY <1>1, <2>1 DEF Local!disposed
  <2>3. s[d].mode \in Modes /\ "closed" \in Phases
    BY SessionOK DEF Phases
  <2>4. PICK r \in Local!Session : r = Local!newSession(s[d].mode, "closed") /\ r.phase = "closed"
    BY <2>3, NewSessionOK
  <2>. QED BY <2>2, <2>4, SessionOK
<1>2. ASSUME NEW d \in Local!Channel, ~(d \in cs /\ s[d].phase # "none")
      PROVE  Local!disposed(s, cs)[d] = s[d]
  BY <1>2 DEF Local!disposed
<1>3. \A d \in Local!Channel : Local!disposed(s, cs)[d] \in Local!Session
  BY <1>1, <1>2
<1>4. Local!disposed(s, cs) \in [Local!Channel -> Local!Session]
  BY <1>3 DEF Local!disposed
<1>5. ASSUME NEW d \in Local!Channel
      PROVE  \/ Local!disposed(s, cs)[d] = s[d] /\ (d \in cs => s[d].phase = "none")
             \/ Local!disposed(s, cs)[d].phase = "closed" /\ s[d].phase # "none"
  <2>1. CASE d \in cs /\ s[d].phase # "none"
    BY <1>1, <2>1
  <2>2. CASE ~(d \in cs /\ s[d].phase # "none")
    BY <1>2, <2>2
  <2>. QED BY <2>1, <2>2
<1>. QED BY <1>4, <1>5

LEMMA ClosedOK ==
  ASSUME NEW box \in [Local!Channel -> Local!MailboxChannel], NEW cs
  PROVE  /\ Local!closed(box, cs) \in [Local!Channel -> Local!MailboxChannel]
         /\ \A d \in Local!Channel : Local!closed(box, cs)[d].state = "unmade" <=> box[d].state = "unmade"
  BY DEF Local!closed, Local!gone, Local!MailboxChannel

LEMMA SpokenOK ==
  ASSUME LocalInv, NEW c \in Local!Channel
  PROVE  /\ Local!spend(c) \in [Local!Channel -> Local!MailboxChannel]
         /\ Local!append(c, "error") \in [Local!Channel -> Local!MailboxChannel]
         /\ \A d \in Local!Channel : Local!spend(c)[d].state = mailbox[d].state
         /\ \A d \in Local!Channel : Local!append(c, "error")[d].state = mailbox[d].state
<1>1. mailbox \in [Local!Channel -> Local!MailboxChannel] /\ mailbox[c] \in Local!MailboxChannel
  BY Held
<1>2. PICK g \in SUBSET {"offer", "error"} : g = mailbox[c].signals \cup {"offer"}
  BY <1>1 DEF Local!MailboxChannel
<1>3. PICK h \in SUBSET {"offer", "error"} : h = IF Local!reachable(c) THEN mailbox[c].signals \cup {"error"} ELSE mailbox[c].signals
  BY <1>1 DEF Local!MailboxChannel
<1>4. Local!spend(c) = [mailbox EXCEPT ![c] = [mailbox[c] EXCEPT !.code = FALSE, !.signals = g]]
  BY <1>1, <1>2 DEF Local!spend
<1>5. Local!append(c, "error") = [mailbox EXCEPT ![c] = [mailbox[c] EXCEPT !.signals = h]]
  BY <1>1, <1>3 DEF Local!append
<1>6. /\ [mailbox[c] EXCEPT !.code = FALSE, !.signals = g] \in Local!MailboxChannel
      /\ [mailbox[c] EXCEPT !.code = FALSE, !.signals = g].state = mailbox[c].state
  BY <1>1, BoxUpdate DEF Local!MailboxChannel
<1>7. /\ [mailbox[c] EXCEPT !.signals = h] \in Local!MailboxChannel
      /\ [mailbox[c] EXCEPT !.signals = h].state = mailbox[c].state
  BY <1>1 DEF Local!MailboxChannel
<1>. QED BY <1>1, <1>4, <1>5, <1>6, <1>7

LEMMA FrameOK ==
  ASSUME NEW K, Local!NoKey \in K
  PROVE  /\ \A op \in {"hello", "server", "paired", "resume", "resumed", "ready", "error"} :
                Local!frame(op) \in KnownFrame(K)
         /\ \A k \in K : [op |-> "paired", key |-> k] \in KnownFrame(K)
<1>1. \A op \in {"hello", "server", "paired", "resume", "resumed", "ready", "error"} :
        \A k \in K : [op |-> op, key |-> k] \in KnownFrame(K)
  BY DEF KnownFrame
<1>. QED BY <1>1 DEF Local!frame

LEMMA CutOK ==
  ASSUME NEW K, NEW w \in WiresLocal(K), NEW cs
  PROVE  Local!cut(w, cs) \in WiresLocal(K)
<1>1. Local!down \in [up : BOOLEAN, toTab : Seq(KnownFrame(K)), toDesk : Seq(Local!Frame)]
  BY EmptySeq DEF Local!down
<1>. QED BY <1>1 DEF Local!cut, WiresLocal

(* A wire is what it carries to either side.                                *)
LEMMA WireOK ==
  ASSUME NEW K, NEW w \in WiresLocal(K), NEW c \in Local!Channel
  PROVE  /\ w[c].up \in BOOLEAN /\ w[c].toTab \in Seq(KnownFrame(K)) /\ w[c].toDesk \in Seq(Local!Frame)
         /\ \A t \in Seq(KnownFrame(K)) : [w EXCEPT ![c].toTab = t] \in WiresLocal(K)
         /\ \A t \in Seq(Local!Frame) : [w EXCEPT ![c].toDesk = t] \in WiresLocal(K)
         /\ w[c].toTab # <<>> => /\ Head(w[c].toTab) \in KnownFrame(K)
                                /\ Tail(w[c].toTab) \in Seq(KnownFrame(K))
                                /\ [w EXCEPT ![c].toTab = Tail(@)] \in WiresLocal(K)
         /\ w[c].toDesk # <<>> => /\ Head(w[c].toDesk) \in Local!Frame
                                 /\ Tail(w[c].toDesk) \in Seq(Local!Frame)
         /\ \A f \in Local!Frame : Append(w[c].toDesk, f) \in Seq(Local!Frame)
<1>1. /\ w[c].up \in BOOLEAN /\ w[c].toTab \in Seq(KnownFrame(K)) /\ w[c].toDesk \in Seq(Local!Frame)
      /\ \A t \in Seq(KnownFrame(K)) : [w EXCEPT ![c].toTab = t] \in WiresLocal(K)
      /\ \A t \in Seq(Local!Frame) : [w EXCEPT ![c].toDesk = t] \in WiresLocal(K)
  BY DEF WiresLocal
<1>2. w[c].toTab # <<>> => Head(w[c].toTab) \in KnownFrame(K) /\ Tail(w[c].toTab) \in Seq(KnownFrame(K))
  BY <1>1, HeadTailProperties
<1>3. w[c].toDesk # <<>> => Head(w[c].toDesk) \in Local!Frame /\ Tail(w[c].toDesk) \in Seq(Local!Frame)
  BY <1>1, HeadTailProperties
<1>4. \A f \in Local!Frame : Append(w[c].toDesk, f) \in Seq(Local!Frame)
  BY <1>1, AppendProperties
<1>5. w[c].toTab # <<>> => [w EXCEPT ![c].toTab = Tail(@)] \in WiresLocal(K)
  BY <1>1, <1>2
<1>. QED BY <1>1, <1>2, <1>3, <1>4, <1>5

(* What a session sends: nothing, or one frame.                             *)
LEMMA SendsOK ==
  ASSUME NEW K, NEW w \in WiresLocal(K), NEW c \in Local!Channel, NEW fs \in Seq(KnownFrame(K))
  PROVE  /\ [w EXCEPT ![c].toTab = @ \o fs] \in WiresLocal(K)
         /\ w[c].toDesk # <<>> => [w EXCEPT ![c].toDesk = Tail(@), ![c].toTab = @ \o fs] \in WiresLocal(K)
<1>1. w[c].toTab \o fs \in Seq(KnownFrame(K))
  BY WireOK, ConcatProperties
<1>2. [w EXCEPT ![c].toTab = @ \o fs] \in WiresLocal(K)
  BY <1>1, WireOK
<1>3. ASSUME w[c].toDesk # <<>>
      PROVE  [w EXCEPT ![c].toDesk = Tail(@), ![c].toTab = @ \o fs] \in WiresLocal(K)
  <2>1. [w EXCEPT ![c].toDesk = Tail(@)] \in WiresLocal(K)
    BY <1>3, WireOK
  <2>. QED BY <1>1, <2>1 DEF WiresLocal
<1>. QED BY <1>2, <1>3

-----------------------------------------------------------------------------
(* What becomes of sessions: they stay, close, or go on without a new writer *)
(* or an earlier phase.                                                      *)

Moves(d) ==
  \/ sessions'[d] = sessions[d]
  \/ /\ sessions[d].phase # "none" /\ sessions'[d].phase # "none"
     /\ \/ sessions'[d].phase = "closed"
        \/ /\ sessions'[d].runtime = "started" => sessions[d].runtime = "started" /\ sessions[d].phase # "closed"
           /\ sessions'[d].phase \in Early => sessions[d].phase \in Early

BoxStays ==
  /\ mailbox' \in [Local!Channel -> Local!MailboxChannel]
  /\ \A d \in Local!Channel : mailbox'[d].state = "unmade" => mailbox[d].state = "unmade"

LEMMA MovesKeep ==
  ASSUME LocalInv, BoxStays, \A d \in Local!Channel : Moves(d)
  PROVE  /\ Unmade' /\ Idle'
         /\ \A d \in Local!Channel : sessions'[d].phase \in Early => sessions[d].phase \in Early
         /\ \A d \in Local!Channel : sessions'[d].runtime = "started" /\ sessions'[d].phase # "closed" => live = d
<1>1. ASSUME NEW d \in Local!Channel
      PROVE  /\ sessions[d].phase = "none" => sessions'[d] = sessions[d]
             /\ sessions'[d].phase = "none" => sessions'[d] = sessions[d]
             /\ sessions'[d].phase \in Early => sessions[d].phase \in Early
             /\ sessions'[d].runtime = "started" /\ sessions'[d].phase # "closed" =>
                  sessions[d].runtime = "started" /\ sessions[d].phase # "closed"
  <2>1. Moves(d)
    OBVIOUS
  <2>2. "closed" \notin Early
    BY DEF Early
  <2>. QED BY <2>1, <2>2 DEF Moves
<1>2. Unmade'
  BY <1>1, Held DEF Unmade, BoxStays
<1>3. Idle'
  BY <1>1, Held DEF Idle
<1>4. \A d \in Local!Channel : sessions'[d].runtime = "started" /\ sessions'[d].phase # "closed" => live = d
  BY <1>1, Held DEF Local!OneWriter, Local!Closed
<1>. QED BY <1>1, <1>2, <1>3, <1>4

(* The calls that change peers.json go on; none ends.                       *)
WritesGoOn ==
  /\ writes' \in [Local!Writer -> Local!Write]
  /\ \A d \in Local!Channel : writes'[d] = "done" <=> writes[d] = "done"
  /\ \A d \in Local!Channel : sessions'[d].phase \in Early => writes'[d] = writes[d]

LEMMA WritesKeep ==
  ASSUME LocalInv, UNCHANGED <<peers, retired, crossed>>, WritesGoOn,
         \A d \in Local!Channel : sessions'[d].phase \in Early => sessions[d].phase \in Early
  PROVE  WritesOK'
<1>1. Known' = Known
  BY DEF Known
<1>2. peers # Local!NoKey => peers \in Local!Channel
  BY DEF LocalInv, Local!TypeOK, Local!Key, Local!NoChannel, Local!NoKey
<1>. QED BY <1>1, <1>2, Held DEF WritesOK, WritesGoOn

LEMMA SameWrites == ASSUME LocalInv, writes' = writes PROVE WritesGoOn
  BY Held DEF WritesGoOn

(* A step of the tab, and a fault of its connection.                        *)
LEMMA TabKeeps ==
  ASSUME LocalInv, UNCHANGED <<sessions, live, peers, tmp, writes, retired, crossed>>, events' \in 0 .. MaxEvents, BoxStays,
         ends' \in Ends(Known), wires' \in WiresLocal(Known), stored' \in Known
  PROVE  LocalInv'
<1>1. \A d \in Local!Channel : Moves(d)
  BY DEF Moves
<1>2. Unmade' /\ Idle' /\ Local!OneWriter'
  BY <1>1, MovesKeep DEF Local!OneWriter, Local!Closed
<1>3. WritesOK'
  BY SameWrites, WritesKeep
<1>4. mailbox' \in [Local!Channel -> Local!MailboxChannel] /\ sessions' \in [Local!Channel -> Local!Session]
      /\ live' \in Local!Key /\ writes' \in [Local!Writer -> Local!Write]
  BY Held DEF BoxStays
<1>. QED BY <1>2, <1>3, <1>4, StepKeeps DEF SessionsOK

(* A step of one session that lives on.                                     *)
LEMMA SessionKeeps ==
  ASSUME LocalInv, NEW c \in Local!Channel, NEW r \in Local!Session, sessions' = [sessions EXCEPT ![c] = r],
         sessions[c].phase # "none", r.phase # "none",
         r.phase \in Early => sessions[c].phase \in Early,
         r.runtime = "started" => sessions[c].runtime = "started" /\ sessions[c].phase # "closed",
         UNCHANGED <<live, peers, stored, tmp, retired, crossed>>, events' \in 0 .. MaxEvents, BoxStays, WritesGoOn,
         ends' \in Ends(Known), wires' \in WiresLocal(Known)
  PROVE  LocalInv'
<1>1. sessions \in [Local!Channel -> Local!Session]
  BY Held
<1>2. sessions' \in [Local!Channel -> Local!Session] /\ \A d \in Local!Channel : sessions'[d] = IF d = c THEN r ELSE sessions[d]
  BY <1>1
<1>3. \A d \in Local!Channel : Moves(d)
  BY <1>2 DEF Moves
<1>4. Unmade' /\ Idle' /\ Local!OneWriter' /\ WritesOK'
  BY <1>3, MovesKeep, WritesKeep DEF Local!OneWriter, Local!Closed
<1>5. mailbox' \in [Local!Channel -> Local!MailboxChannel] /\ live' \in Local!Key /\ writes' \in [Local!Writer -> Local!Write] /\ stored' \in Known
  BY Held DEF BoxStays, WritesGoOn
<1>. QED BY <1>2, <1>4, <1>5, StepKeeps DEF SessionsOK

(* Sessions are disposed of: the live one is among them, or stays live.     *)
LEMMA EndsKeeps ==
  ASSUME LocalInv, NEW cs, Local!ends(cs), UNCHANGED <<ends, peers, stored, tmp, retired, crossed>>, events' \in 0 .. MaxEvents,
         writes' \in [Local!Writer -> Local!Write], \A d \in Local!Channel : writes'[d] = writes[d]
  PROVE  LocalInv'
<1>1. /\ sessions' = Local!disposed(sessions, cs) /\ sessions \in [Local!Channel -> Local!Session]
      /\ mailbox' = Local!closed(mailbox, cs) /\ mailbox \in [Local!Channel -> Local!MailboxChannel]
      /\ wires' = Local!cut(wires, cs) /\ live' = Local!unregister(live, cs)
  BY Held DEF Local!ends
<1>2. sessions' \in [Local!Channel -> Local!Session] /\ \A d \in Local!Channel : Moves(d)
  BY <1>1, DisposedOK DEF Moves
<1>3. BoxStays
  BY <1>1, ClosedOK DEF BoxStays
<1>4. /\ Unmade' /\ Idle'
      /\ \A d \in Local!Channel : sessions'[d].phase \in Early => sessions[d].phase \in Early
      /\ \A d \in Local!Channel : sessions'[d].runtime = "started" /\ sessions'[d].phase # "closed" => live = d
  BY <1>2, <1>3, MovesKeep
<1>5. Local!OneWriter'
  <2>1. ASSUME NEW d \in Local!Channel, sessions'[d].runtime = "started", sessions'[d].phase # "closed"
        PROVE  live' = d
    <3>1. live = d
      BY <1>4, <2>1
    <3>2. sessions'[d].phase # "none"
      BY <1>4, <2>1 DEF Idle
    <3>3. d \notin cs
      BY <1>1, <2>1, <3>2, DisposedOK
    <3>. QED BY <1>1, <3>1, <3>3 DEF Local!unregister
  <2>. QED BY <2>1 DEF Local!OneWriter, Local!Closed
<1>6. WritesOK'
  BY <1>4, WritesKeep DEF WritesGoOn
<1>7. wires' \in WiresLocal(Known) /\ live' \in Local!Key /\ ends' \in Ends(Known) /\ stored' \in Known
  BY <1>1, Held, CutOK, ChannelFacts DEF Local!unregister
<1>. QED BY <1>2, <1>3, <1>4, <1>5, <1>6, <1>7, StepKeeps DEF SessionsOK, BoxStays

-----------------------------------------------------------------------------
(* The tab                                                                  *)

LEMMA EndOK ==
  ASSUME LocalInv, NEW c \in Local!Channel
  PROVE  /\ \A p \in {"signaling", "negotiating", "live"} : [ends EXCEPT ![c].phase = p] \in Ends(Known)
         /\ \A p \in {"signaling", "compare"}, k \in Known : [ends EXCEPT ![c] = [phase |-> p, key |-> k]] \in Ends(Known)
         /\ Local!over(c) \in Ends(Known) /\ ends[c].key \in Known
  BY Held DEF Ends, Local!over

LEMMA BoxesStay == ASSUME LocalInv, mailbox' = mailbox PROVE BoxStays
  BY Held DEF BoxStays

LEMMA JoinKeepsLocal == ASSUME LocalInv, NEW c \in Local!Channel, Local!join(c) PROVE LocalInv'
<1>1. BoxStays
  BY SpokenOK DEF BoxStays, Local!join
<1>. QED BY <1>1, TabKeeps, EndOK, Held DEF Local!join, Local!tabOnly

LEMMA SignalFailsKeepsLocal == ASSUME LocalInv, NEW c \in Local!Channel, Local!signalFails(c) PROVE LocalInv'
  BY TabKeeps, EndOK, BoxesStay, Held DEF Local!signalFails, Local!tabOnly

LEMMA ReadyOK ==
  ASSUME LocalInv, NEW c \in Local!Channel, NEW w \in WiresLocal(Known), Local!ready(c, w)
  PROVE  stored' \in Known /\ ends' \in Ends(Known) /\ wires' \in WiresLocal(Known)
<1>1. Local!frame("ready") \in Local!Frame
  BY FrameOK, ChannelFacts, KeyTypes DEF Local!Frame, KnownFrame
<1>2. wires' \in WiresLocal(Known)
  <2>1. [w EXCEPT ![c].toDesk = Append(@, Local!frame("ready"))] \in WiresLocal(Known)
    BY <1>1, WireOK
  <2>2. [w EXCEPT ![c].toDesk = w[c].toDesk] \in WiresLocal(Known)
    BY WireOK
  <2>. QED BY <2>1, <2>2 DEF Local!ready
<1>. QED BY <1>2, EndOK DEF Local!ready

LEMMA NegotiateKeepsLocal == ASSUME LocalInv, NEW c \in Local!Channel, Local!negotiate(c) PROVE LocalInv'
<1>1. PICK f : f = Head(wires[c].toTab)
  OBVIOUS
<1>2. PICK rest : rest = [wires EXCEPT ![c].toTab = Tail(@)]
  OBVIOUS
<1>3. /\ f \in KnownFrame(Known) /\ f.key \in Known /\ rest \in WiresLocal(Known) /\ wires \in WiresLocal(Known)
      /\ ends \in Ends(Known) /\ stored \in Known
  <2>1. f \in KnownFrame(Known) /\ rest \in WiresLocal(Known) /\ wires \in WiresLocal(Known)
    BY <1>1, <1>2, Held, WireOK DEF Local!negotiate
  <2>. QED BY <2>1, Held DEF KnownFrame
<1>4. \/ /\ wires' = [rest EXCEPT ![c].toDesk = Append(@, [op |-> "resume", key |-> ends[c].key])]
         /\ UNCHANGED <<ends, stored>>
      \/ /\ ends' = [ends EXCEPT ![c] = [phase |-> "compare", key |-> f.key]]
         /\ wires' = rest /\ UNCHANGED stored
      \/ Local!ready(c, rest)
      \/ /\ ends' = Local!over(c) /\ UNCHANGED stored
         /\ wires' = Local!cut(wires, {c})
  BY <1>1, <1>2 DEF Local!negotiate
<1>5. ends' \in Ends(Known) /\ wires' \in WiresLocal(Known) /\ stored' \in Known
  <2>1. CASE /\ wires' = [rest EXCEPT ![c].toDesk = Append(@, [op |-> "resume", key |-> ends[c].key])]
             /\ UNCHANGED <<ends, stored>>
    <3>1. [op |-> "resume", key |-> ends[c].key] \in Local!Frame
      <4>1. ends[c].key \in Local!Key
        BY EndOK, KnownIsKey DEF LocalInv
      <4>. QED BY <4>1 DEF Local!Frame
    <3>. QED BY <1>3, <2>1, <3>1, WireOK
  <2>2. CASE /\ ends' = [ends EXCEPT ![c] = [phase |-> "compare", key |-> f.key]]
             /\ wires' = rest /\ UNCHANGED stored
    BY <1>3, <2>2, EndOK
  <2>3. CASE Local!ready(c, rest)
    BY <1>3, <2>3, ReadyOK
  <2>4. CASE ends' = Local!over(c) /\ UNCHANGED stored /\ wires' = Local!cut(wires, {c})
    BY <1>3, <2>4, EndOK, CutOK
  <2>. QED BY <1>4, <2>1, <2>2, <2>3, <2>4
<1>. QED BY <1>5, TabKeeps, BoxesStay, Held DEF Local!negotiate, Local!tabOnly

LEMMA ConfirmKeepsLocal == ASSUME LocalInv, NEW c \in Local!Channel, Local!confirmPhrase(c) PROVE LocalInv'
<1>1. stored' \in Known /\ ends' \in Ends(Known) /\ wires' \in WiresLocal(Known)
  BY ReadyOK, Held DEF Local!confirmPhrase
<1>. QED BY <1>1, TabKeeps, BoxesStay, Held DEF Local!confirmPhrase, Local!tabOnly

LEMMA RejectKeepsLocal == ASSUME LocalInv, NEW c \in Local!Channel, Local!rejectPhrase(c) PROVE LocalInv'
  BY TabKeeps, EndOK, CutOK, BoxesStay, Held DEF Local!rejectPhrase, Local!tabOnly

LEMMA LoadsKeeps == ASSUME LocalInv, Local!loads, UNCHANGED <<retired, crossed>>, events' \in 0 .. MaxEvents PROVE LocalInv'
<1>1. ends' \in Ends(Known)
  <2>1. \A c \in Local!Channel : Local!over(c)[c] = [phase |-> "over", key |-> Local!NoKey]
    BY Held DEF Local!over, Ends
  <2>. QED BY <2>1, Held DEF Local!loads, Ends
<1>. QED BY <1>1, TabKeeps, CutOK, BoxesStay, Held DEF Local!loads

LEMMA FailsKeeps ==
  ASSUME LocalInv, NEW c \in Local!Channel, Local!fails(c), UNCHANGED <<retired, crossed>>, events' \in 0 .. MaxEvents PROVE LocalInv'
  BY TabKeeps, EndOK, CutOK, BoxesStay, Held DEF Local!fails

LEMMA DropKeeps ==
  ASSUME LocalInv, NEW c \in Local!Channel, Local!drop(c), UNCHANGED <<retired, crossed>>, events' \in 0 .. MaxEvents PROVE LocalInv'
  BY TabKeeps, CutOK, BoxesStay, Held DEF Local!drop

LEMMA PruneKeeps ==
  ASSUME LocalInv, NEW c \in Local!Channel, Local!prune(c), UNCHANGED <<retired, crossed>>, events' \in 0 .. MaxEvents PROVE LocalInv'
<1>1. BoxStays
  BY ClosedOK, Held DEF Local!prune, BoxStays
<1>. QED BY <1>1, TabKeeps, Held DEF Local!prune

-----------------------------------------------------------------------------
(* The desktop's session                                                    *)

LEMMA TimesOutKeeps ==
  ASSUME LocalInv, NEW c \in Local!Channel, Local!timesOut(c), UNCHANGED <<ends, wires, live, writes, peers, stored, tmp, retired, crossed>>,
         events' \in 0 .. MaxEvents
  PROVE  LocalInv'
<1>1. BoxStays
  BY SpokenOK DEF BoxStays, Local!timesOut
<1>2. PICK r \in Local!Session : r = [sessions[c] EXCEPT !.closing = TRUE]
  BY Held, SessionOK
<1>3. r.phase = sessions[c].phase /\ r.runtime = sessions[c].runtime /\ sessions[c].phase = "waiting"
  BY <1>2, Held, SessionSet DEF Local!timesOut, Local!Waiting
<1>4. sessions' = [sessions EXCEPT ![c] = r]
  BY <1>2 DEF Local!timesOut, Local!endsSoon
<1>. QED BY <1>1, <1>3, <1>4, SessionKeeps, SameWrites, Held

(* A session in another phase.                                              *)
LEMMA PhaseOK ==
  ASSUME LocalInv, NEW c \in Local!Channel, NEW p \in Phases
  PROVE  /\ [sessions[c] EXCEPT !.phase = p] \in Local!Session
         /\ [sessions[c] EXCEPT !.phase = p].phase = p
         /\ [sessions[c] EXCEPT !.phase = p].runtime = sessions[c].runtime
<1>1. PICK r \in Local!Session : r = [sessions[c] EXCEPT !.phase = p]
  BY Held, SessionOK
<1>2. r.phase = p /\ r.runtime = sessions[c].runtime
  BY <1>1, Held, SessionSet
<1>. QED BY <1>1, <1>2

LEMMA OpenKeepsLocal == ASSUME LocalInv, NEW c \in Local!Channel, Local!open(c) PROVE LocalInv'
<1>1. PICK p \in Phases : p = IF sessions[c].mode = "pairing" THEN "hello" ELSE "greeting"
  BY DEF Phases
<1>2. PICK r \in Local!Session : /\ sessions' = [sessions EXCEPT ![c] = r]
                           /\ r.phase = p /\ r.runtime = sessions[c].runtime
  <2>1. sessions' = [sessions EXCEPT ![c] = [sessions[c] EXCEPT !.phase = p]]
    BY <1>1 DEF Local!open
  <2>2. PICK r \in Local!Session : /\ r = [sessions[c] EXCEPT !.phase = p]
                             /\ r.phase = p /\ r.runtime = sessions[c].runtime
    BY PhaseOK
  <2>. QED BY <2>1, <2>2
<1>3. sessions[c].phase = "waiting" /\ p # "none"
  BY <1>1 DEF Local!open, Local!Waiting
<1>4. wires' \in WiresLocal(Known)
  <2>1. Local!frame("hello") \in Local!Frame
    BY FrameOK, ChannelFacts, KeyTypes DEF Local!Frame, KnownFrame
  <2>2. PICK q \in Seq(Local!Frame) : q = IF sessions[c].mode = "pairing" THEN <<Local!frame("hello")>> ELSE <<>>
    <3>1. <<Local!frame("hello")>> \in Seq(Local!Frame) /\ <<>> \in Seq(Local!Frame)
      BY <2>1
    <3>. QED BY <3>1
  <2>3. wires' = [wires EXCEPT ![c] = [up |-> TRUE, toTab |-> <<>>, toDesk |-> q]]
    BY <2>2 DEF Local!open
  <2>4. <<>> \in Seq(KnownFrame(Known))
    OBVIOUS
  <2>. QED BY <2>2, <2>3, <2>4, Held DEF WiresLocal
<1>5. ends' \in Ends(Known)
  BY EndOK DEF Local!open
<1>. QED BY <1>2, <1>3, <1>4, <1>5, SessionKeeps, SameWrites, BoxesStay, Held DEF Local!open, Local!others, Early

(* What a session says is one frame or none, and only known keys go along.  *)
LEMMA SaysKeeps ==
  ASSUME LocalInv, NEW c \in Local!Channel, NEW r \in Local!Session, NEW fs \in Seq(KnownFrame(Known)), Local!says(c, r, fs),
         sessions[c].phase \notin {"none", "closed"}, r.phase # "none", r.runtime = sessions[c].runtime,
         r.phase \in Early => sessions[c].phase \in Early,
         UNCHANGED <<stored, peers, tmp, events, retired, crossed>>, WritesGoOn
  PROVE  LocalInv'
<1>1. wires' \in WiresLocal(Known)
  <2>1. [wires EXCEPT ![c].toTab = @ \o fs] \in WiresLocal(Known)
    BY Held, SendsOK
  <2>2. [wires EXCEPT ![c].toTab = wires[c].toTab] \in WiresLocal(Known)
    BY Held, WireOK
  <2>. QED BY <2>1, <2>2 DEF Local!says
<1>. QED BY <1>1, SessionKeeps, BoxesStay, Held DEF Local!says

LEMMA SendServerKeeps == ASSUME LocalInv, NEW c \in Local!Channel, Local!sendServer(c) PROVE LocalInv'
<1>1. CASE Local!says(c, [sessions[c] EXCEPT !.phase = "resuming"], <<Local!frame("server")>>)
  <2>1. "resuming" \in Phases /\ "resuming" \notin Early /\ sessions[c].phase = "greeting"
    BY DEF Phases, Early, Local!sendServer
  <2>2. PICK r \in Local!Session : r = [sessions[c] EXCEPT !.phase = "resuming"] /\ r.phase = "resuming" /\ r.runtime = sessions[c].runtime
    BY <2>1, PhaseOK
  <2>3. <<Local!frame("server")>> \in Seq(KnownFrame(Known))
    <3>1. Local!frame("server") \in KnownFrame(Known)
      BY FrameOK, Held
    <3>. QED BY <3>1
  <2>. QED BY <1>1, <2>1, <2>2, <2>3, SaysKeeps, SameWrites DEF Local!sendServer, Local!others
<1>2. CASE Local!ends({c}) /\ UNCHANGED ends
  BY <1>2, EndsKeeps, Held DEF Local!sendServer, Local!others
<1>. QED BY <1>1, <1>2 DEF Local!sendServer

LEMMA ApproveKeepsLocal == ASSUME LocalInv, NEW c \in Local!Channel, Local!approve(c) PROVE LocalInv'
<1>1. "saving" \in Phases /\ "saving" \notin Early /\ sessions[c].phase = "approval"
  BY DEF Phases, Early, Local!approve, Local!Asked
<1>2. PICK r \in Local!Session : r = [sessions[c] EXCEPT !.phase = "saving"] /\ r.phase = "saving" /\ r.runtime = sessions[c].runtime
  BY <1>1, PhaseOK
<1>3. <<>> \in Seq(KnownFrame(Known))
  OBVIOUS
<1>4. writes' = [writes EXCEPT ![c] = "begun"] /\ writes[c] = "none" /\ c \in Local!Writer
  BY <1>1, Held, ChannelFacts DEF Local!approve, Local!begins, WritesOK, Early
<1>5. WritesGoOn
  <2>1. sessions' = [sessions EXCEPT ![c] = r]
    BY <1>2 DEF Local!approve, Local!says
  <2>2. sessions'[c].phase = "saving"
    BY <1>2, <2>1, Held
  <2>. QED BY <1>1, <1>4, <2>2, Held DEF WritesGoOn, Local!Write
<1>. QED BY <1>1, <1>2, <1>3, <1>5, SaysKeeps DEF Local!approve, Local!others

LEMMA DenyKeeps == ASSUME LocalInv, NEW c \in Local!Channel, Local!deny(c) PROVE LocalInv'
<1>1. PICK r \in Local!Session : r = Local!endsSoon(c)
  BY Held, SessionOK DEF Local!endsSoon
<1>2. r.phase = sessions[c].phase /\ r.runtime = sessions[c].runtime /\ sessions[c].phase = "approval"
  BY <1>1, Held, SessionSet DEF Local!deny, Local!Asked, Local!endsSoon
<1>3. <<Local!frame("error")>> \in Seq(KnownFrame(Known))
  <2>1. Local!frame("error") \in KnownFrame(Known)
    BY FrameOK, Held
  <2>. QED BY <2>1
<1>. QED BY <1>1, <1>2, <1>3, SaysKeeps, SameWrites DEF Local!deny, Local!others

LEMMA PairedKeepsLocal == ASSUME LocalInv, NEW c \in Local!Channel, Local!paired(c) PROVE LocalInv'
<1>1. "paired" \in Phases /\ "paired" \notin Early /\ sessions[c].phase = "saving"
  BY DEF Phases, Early, Local!paired
<1>2. PICK r \in Local!Session : r = [sessions[c] EXCEPT !.phase = "paired"] /\ r.phase = "paired" /\ r.runtime = sessions[c].runtime
  BY <1>1, PhaseOK
<1>3. c \in Known
  BY Held DEF Local!paired, Local!isSaved, WritesOK
<1>4. <<[op |-> "paired", key |-> c]>> \in Seq(KnownFrame(Known))
  <2>1. [op |-> "paired", key |-> c] \in KnownFrame(Known)
    BY <1>3, FrameOK, Held
  <2>. QED BY <2>1
<1>. QED BY <1>1, <1>2, <1>4, SaysKeeps, SameWrites DEF Local!paired, Local!others

LEMMA ReplyOK ==
  ASSUME LocalInv, NEW c \in Local!Channel, wires[c].toDesk # <<>>
  PROVE  /\ Local!reply(c, <<>>) \in WiresLocal(Known)
         /\ Local!reply(c, <<Local!frame("resumed")>>) \in WiresLocal(Known)
         /\ Local!reply(c, <<Local!frame("error")>>) \in WiresLocal(Known)
<1>1. Local!frame("resumed") \in KnownFrame(Known) /\ Local!frame("error") \in KnownFrame(Known)
  BY FrameOK, Held
<1>2. /\ <<>> \in Seq(KnownFrame(Known))
      /\ <<Local!frame("resumed")>> \in Seq(KnownFrame(Known))
      /\ <<Local!frame("error")>> \in Seq(KnownFrame(Known))
  BY <1>1
<1>3. \A fs \in Seq(KnownFrame(Known)) : Local!reply(c, fs) \in WiresLocal(Known)
  BY Held, SendsOK DEF Local!reply
<1>. QED BY <1>2, <1>3

LEMMA OnControlKeeps == ASSUME LocalInv, NEW c \in Local!Channel, Local!onControl(c) PROVE LocalInv'
<1>1. sessions[c].phase \notin {"none", "closed"} /\ wires[c].toDesk # <<>>
  BY DEF Local!onControl, Local!Open
<1>2. wires' \in WiresLocal(Known)
  BY <1>1, ReplyOK DEF Local!onControl, Local!onResume
<1>3. /\ UNCHANGED <<live, peers, stored, tmp, retired, crossed, events>> /\ ends' \in Ends(Known)
      /\ events \in 0 .. MaxEvents /\ BoxStays /\ WritesGoOn
  BY SameWrites, BoxesStay, Held DEF Local!onControl, Local!others
<1>4. ASSUME NEW r \in Local!Session, sessions' = [sessions EXCEPT ![c] = r], r.phase # "none",
             r.phase \in Early => sessions[c].phase \in Early,
             r.runtime = "started" => sessions[c].runtime = "started"
      PROVE  LocalInv'
  BY <1>1, <1>2, <1>3, <1>4, SessionKeeps
<1>5. CASE sessions' = sessions
  BY <1>1, <1>4, <1>5, Held
<1>6. CASE sessions' = [sessions EXCEPT ![c].phase = IF @ = "hello" THEN "approval" ELSE @]
  <2>1. PICK p \in Phases : p = IF sessions[c].phase = "hello" THEN "approval" ELSE sessions[c].phase
    BY Held, SessionOK DEF Phases
  <2>2. p # "none" /\ (p \in Early => sessions[c].phase \in Early)
    BY <1>1, <2>1 DEF Early
  <2>3. PICK r \in Local!Session : /\ r = [sessions[c] EXCEPT !.phase = p]
                             /\ r.phase = p /\ r.runtime = sessions[c].runtime
    BY PhaseOK
  <2>4. sessions' = [sessions EXCEPT ![c] = r]
    BY <1>6, <2>1, <2>3
  <2>. QED BY <1>4, <2>2, <2>3, <2>4
<1>7. CASE sessions' = [sessions EXCEPT ![c].phase = "paired"]
  <2>1. "paired" \in Phases /\ "paired" \notin Early
    BY DEF Phases, Early
  <2>2. PICK r \in Local!Session : /\ r = [sessions[c] EXCEPT !.phase = "paired"]
                             /\ r.phase = "paired" /\ r.runtime = sessions[c].runtime
    BY <2>1, PhaseOK
  <2>. QED BY <1>4, <1>7, <2>1, <2>2
<1>8. CASE sessions' = [sessions EXCEPT ![c] = Local!endsSoon(c)]
  <2>1. PICK r \in Local!Session : r = Local!endsSoon(c)
    BY Held, SessionOK DEF Local!endsSoon
  <2>2. r.phase = sessions[c].phase /\ r.runtime = sessions[c].runtime
    BY <2>1, Held, SessionSet DEF Local!endsSoon
  <2>. QED BY <1>1, <1>4, <1>8, <2>1, <2>2
<1>9. CASE sessions' = [sessions EXCEPT ![c].runtime = IF @ = "none" THEN "attaching" ELSE @]
  <2>1. PICK g \in Runtimes : g = IF sessions[c].runtime = "none" THEN "attaching" ELSE sessions[c].runtime
    BY Held, SessionOK DEF Runtimes
  <2>2. PICK r \in Local!Session : r = [sessions[c] EXCEPT !.runtime = g] /\ r.phase = sessions[c].phase
    BY Held, SessionOK
  <2>3. r.runtime = g
    BY <2>2, Held, SessionSet
  <2>4. sessions' = [sessions EXCEPT ![c] = r]
    BY <1>9, <2>1, <2>2
  <2>5. g = "started" => sessions[c].runtime = "started"
    BY <2>1
  <2>. QED BY <1>1, <1>4, <2>2, <2>3, <2>4, <2>5
<1>. QED BY <1>5, <1>6, <1>7, <1>8, <1>9 DEF Local!onControl, Local!onResume

-----------------------------------------------------------------------------
(* Sessions that come and go                                                *)

LEMMA ProcessEndsKeeps ==
  ASSUME LocalInv, Local!processEnds, UNCHANGED <<ends, peers, stored, tmp, retired, crossed>>, events' \in 0 .. MaxEvents
  PROVE  LocalInv'
<1>1. /\ sessions \in [Local!Channel -> Local!Session] /\ mailbox \in [Local!Channel -> Local!MailboxChannel]
      /\ Local!disposed(sessions, Local!Channel) \in [Local!Channel -> Local!Session] /\ "none" \in Runtimes
  BY Held, DisposedOK DEF Runtimes
<1>2. ASSUME NEW d \in Local!Channel
      PROVE  /\ sessions'[d] \in Local!Session /\ sessions'[d].phase = Local!disposed(sessions, Local!Channel)[d].phase
             /\ sessions'[d].runtime = "none"
  <2>1. sessions'[d] = [Local!disposed(sessions, Local!Channel)[d] EXCEPT !.runtime = "none"]
    BY DEF Local!processEnds
  <2>2. PICK r \in Local!Session : r = Local!disposed(sessions, Local!Channel)[d]
    BY <1>1
  <2>. QED BY <1>1, <2>1, <2>2, SessionOK, SessionSet
<1>3. sessions' \in [Local!Channel -> Local!Session]
  BY <1>2 DEF Local!processEnds
<1>4. \A d \in Local!Channel : sessions'[d].phase = "closed" \/ (sessions'[d].phase = "none" /\ sessions[d].phase = "none")
  BY <1>1, <1>2, DisposedOK
<1>5. BoxStays
  BY <1>1, ClosedOK DEF Local!processEnds, BoxStays
<1>6. Unmade'
  <2>1. ASSUME NEW d \in Local!Channel, mailbox'[d].state = "unmade" PROVE sessions'[d].phase = "none"
    <3>1. sessions[d].phase = "none"
      BY <1>5, <2>1, Held DEF BoxStays, Unmade
    <3>2. Local!disposed(sessions, Local!Channel)[d].phase = "none"
      BY <1>1, <3>1, DisposedOK
    <3>. QED BY <1>2, <3>2
  <2>. QED BY <2>1 DEF Unmade
<1>7. Idle' /\ Local!OneWriter'
  BY <1>2 DEF Idle, Local!OneWriter
<1>8. /\ \A w \in Local!Writer : writes'[w] = IF writes[w] \in {"begun", "written"} THEN "lost" ELSE writes[w]
      /\ writes' \in [Local!Writer -> Local!Write] /\ Local!Channel \subseteq Local!Writer
  BY Held, ChannelFacts DEF Local!processEnds, Local!Write
<1>9. WritesOK'
  <2>1. \A d \in Local!Channel : sessions'[d].phase \in Early => sessions[d].phase \in Early
    BY <1>4 DEF Early
  <2>2. \A d \in Local!Channel : sessions[d].phase \in Early => writes[d] = "none"
    BY Held DEF WritesOK
  <2>3. WritesGoOn
    BY <1>8, <2>1, <2>2 DEF WritesGoOn
  <2>. QED BY <2>1, <2>3, WritesKeep
<1>10. wires' \in WiresLocal(Known) /\ live' \in Local!Key /\ ends' \in Ends(Known) /\ stored' \in Known
  BY Held, CutOK, ChannelFacts DEF Local!processEnds
<1>. QED BY <1>3, <1>5, <1>6, <1>7, <1>8, <1>9, <1>10, StepKeeps DEF SessionsOK, BoxStays

(* What a session awaits.                                                   *)
LEMMA RuntimeOK ==
  ASSUME LocalInv, NEW c \in Local!Channel, NEW g \in Runtimes
  PROVE  /\ [sessions[c] EXCEPT !.runtime = g] \in Local!Session
         /\ [sessions[c] EXCEPT !.runtime = g].phase = sessions[c].phase
         /\ [sessions[c] EXCEPT !.runtime = g].runtime = g
<1>1. PICK r \in Local!Session : r = [sessions[c] EXCEPT !.runtime = g] /\ r.phase = sessions[c].phase
  BY Held, SessionOK
<1>2. r.runtime = g
  BY <1>1, Held, SessionSet
<1>. QED BY <1>1, <1>2

LEMMA AttachKeepsLocal == ASSUME LocalInv, NEW c \in Local!Channel, Local!attachProfileLink(c) PROVE LocalInv'
<1>1. CASE Local!processEnds
  BY <1>1, ProcessEndsKeeps, Held DEF Local!attachProfileLink, Local!others
<1>2. CASE /\ Local!Linked(c) /\ sessions' = [sessions EXCEPT ![c].runtime = "starting"]
           /\ UNCHANGED <<mailbox, wires, live, writes>>
  <2>1. "starting" \in Runtimes /\ sessions[c].phase # "none"
    BY <1>2 DEF Runtimes, Local!Linked, Local!Open
  <2>2. PICK r \in Local!Session : r = [sessions[c] EXCEPT !.runtime = "starting"] /\ r.phase = sessions[c].phase
                             /\ r.runtime = "starting"
    BY <2>1, RuntimeOK
  <2>. QED BY <1>2, <2>1, <2>2, SessionKeeps, SameWrites, BoxesStay, Held DEF Local!attachProfileLink, Local!others
<1>. QED BY <1>1, <1>2 DEF Local!attachProfileLink

(* The session that gets ready is live, and the one that was is closed.     *)
LEMMA StartRuntimeKeeps == ASSUME LocalInv, NEW c \in Local!Channel, Local!startRuntime(c) PROVE LocalInv'
<1>1. "started" \in Runtimes /\ sessions[c].runtime = "starting" /\ sessions[c].phase # "none"
  BY Held DEF Runtimes, Local!startRuntime, Idle
<1>2. PICK r \in Local!Session : /\ r = [sessions[c] EXCEPT !.runtime = "started"]
                           /\ r.phase = sessions[c].phase /\ r.runtime = "started"
  BY <1>1, RuntimeOK
<1>3. PICK s \in [Local!Channel -> Local!Session] : s = [sessions EXCEPT ![c] = r]
  BY Held
<1>4. /\ sessions' = Local!disposed(s, Local!replacedBy(c)) /\ live' = c
      /\ wires' = Local!cut(wires, Local!replacedBy(c)) /\ mailbox' = Local!closed(mailbox, Local!replacedBy(c))
      /\ UNCHANGED <<ends, writes, peers, stored, tmp, retired, crossed, events>>
  BY <1>2, <1>3 DEF Local!startRuntime, Local!makeLive
<1>5. /\ \A d \in Local!Channel : s[d] = IF d = c THEN r ELSE sessions[d]
      /\ \A d \in Local!Channel : s[d].phase = sessions[d].phase
  BY <1>2, <1>3
<1>6. /\ sessions' \in [Local!Channel -> Local!Session]
      /\ \A d \in Local!Channel :
           \/ sessions'[d] = s[d] /\ (d \in Local!replacedBy(c) => s[d].phase = "none")
           \/ sessions'[d].phase = "closed" /\ s[d].phase # "none"
  BY <1>3, <1>4, DisposedOK
<1>7. BoxStays
  BY <1>4, Held, ClosedOK DEF BoxStays
<1>8. Unmade'
  <2>1. ASSUME NEW d \in Local!Channel, mailbox'[d].state = "unmade" PROVE sessions'[d].phase = "none"
    <3>1. sessions[d].phase = "none"
      BY <1>7, <2>1, Held DEF BoxStays, Unmade
    <3>. QED BY <1>5, <1>6, <3>1
  <2>. QED BY <2>1 DEF Unmade
<1>9. Idle'
  <2>1. ASSUME NEW d \in Local!Channel, sessions'[d].phase = "none" PROVE sessions'[d].runtime = "none"
    <3>1. sessions'[d] = s[d] /\ sessions[d].phase = "none" /\ d # c
      BY <1>1, <1>5, <1>6, <2>1
    <3>. QED BY <1>5, <3>1, Held DEF Idle
  <2>. QED BY <2>1 DEF Idle
<1>10. Local!OneWriter'
  <2>1. ASSUME NEW d \in Local!Channel, sessions'[d].runtime = "started", sessions'[d].phase # "closed", d # c
        PROVE  FALSE
    <3>1. sessions'[d] = sessions[d] /\ (d \in Local!replacedBy(c) => sessions[d].phase = "none")
      BY <1>5, <1>6, <2>1
    <3>2. live = d
      BY <2>1, <3>1, Held DEF Local!OneWriter, Local!Closed
    <3>3. d \in Local!replacedBy(c)
      BY <2>1, <3>2, ChannelFacts DEF Local!replacedBy, Local!NoChannel, Local!NoKey
    <3>. QED BY <2>1, <3>1, <3>3, Held DEF Idle
  <2>. QED BY <1>4, <2>1 DEF Local!OneWriter, Local!Closed
<1>11. WritesOK'
  <2>1. \A d \in Local!Channel : sessions'[d].phase \in Early => sessions[d].phase \in Early
    BY <1>5, <1>6 DEF Early
  <2>. QED BY <1>4, <2>1, SameWrites, WritesKeep
<1>12. /\ wires' \in WiresLocal(Known) /\ live' \in Local!Key /\ ends' \in Ends(Known) /\ stored' \in Known
       /\ writes' \in [Local!Writer -> Local!Write] /\ events' \in 0 .. MaxEvents
  BY <1>4, Held, CutOK, ChannelFacts
<1>. QED BY <1>4, <1>6, <1>7, <1>8, <1>9, <1>10, <1>11, <1>12, StepKeeps DEF SessionsOK, BoxStays

LEMMA OnLinkClosedKeeps == ASSUME LocalInv, NEW c \in Local!Channel, Local!onLinkClosed(c) PROVE LocalInv'
  BY EndsKeeps, Held DEF Local!onLinkClosed, Local!others

LEMMA RevokeKeeps == ASSUME LocalInv, Local!revoke, events' \in 0 .. MaxEvents PROVE LocalInv'
<1>1. writes' = [writes EXCEPT ![Local!Revocation] = "begun"] /\ Local!Revocation \notin Local!Channel /\ Local!Channel \subseteq Local!Writer
  BY ChannelFacts DEF Local!revoke, Local!begins
<1>2. writes' \in [Local!Writer -> Local!Write] /\ \A d \in Local!Channel : writes'[d] = writes[d]
  BY <1>1, Held DEF Local!Write
<1>. QED BY <1>2, EndsKeeps DEF Local!revoke

(* A new channel with its session.                                          *)
LEMMA FreshKeeps ==
  ASSUME LocalInv, NEW c \in Local!Channel, mailbox[c].state = "unmade",
         sessions' \in [Local!Channel -> Local!Session], sessions'[c].phase # "none",
         sessions'[c].phase = "closed" \/ sessions'[c].runtime # "started",
         \A d \in Local!Channel \ {c} : Moves(d), Local!OneWriter',
         mailbox' \in [Local!Channel -> Local!MailboxChannel], mailbox'[c].state # "unmade",
         \A d \in Local!Channel \ {c} : mailbox'[d].state = "unmade" => mailbox[d].state = "unmade",
         UNCHANGED <<peers, stored, tmp, writes, retired, crossed>>, live' \in Local!Key, events' \in 0 .. MaxEvents,
         ends' \in Ends(Known), wires' \in WiresLocal(Known)
  PROVE  LocalInv'
<1>1. sessions[c].phase = "none" /\ "none" \in Early /\ "closed" \notin Early
  BY Held DEF Unmade, Early
<1>2. ASSUME NEW d \in Local!Channel, d # c
      PROVE  /\ sessions[d].phase = "none" => sessions'[d] = sessions[d]
             /\ sessions'[d].phase = "none" => sessions'[d] = sessions[d]
             /\ sessions'[d].phase \in Early => sessions[d].phase \in Early
  BY <1>1, <1>2 DEF Moves
<1>3. Unmade' /\ Idle'
  BY <1>2, Held DEF Unmade, Idle
<1>4. \A d \in Local!Channel : sessions'[d].phase \in Early => sessions[d].phase \in Early
  BY <1>1, <1>2
<1>5. WritesOK'
  BY <1>4, SameWrites, WritesKeep
<1>6. stored' \in Known /\ writes' \in [Local!Writer -> Local!Write]
  BY Held
<1>. QED BY <1>3, <1>5, <1>6, StepKeeps DEF SessionsOK

LEMMA NewBoxOK ==
  ASSUME LocalInv, NEW c \in Local!Channel, NEW code \in BOOLEAN, NEW g \in SUBSET {"offer", "error"}
  PROVE  /\ [mailbox EXCEPT ![c] = [state |-> "open", code |-> code, signals |-> g]] \in [Local!Channel -> Local!MailboxChannel]
         /\ \A d \in Local!Channel : [mailbox EXCEPT ![c] = [state |-> "open", code |-> code, signals |-> g]][d].state
               = IF d = c THEN "open" ELSE mailbox[d].state
<1>1. [state |-> "open", code |-> code, signals |-> g] \in Local!MailboxChannel
  BY DEF Local!MailboxChannel
<1>. QED BY <1>1, Held

LEMMA CreatePairingKeeps ==
  ASSUME LocalInv, NEW c \in Local!Channel, Local!createPairing(c), events' \in 0 .. MaxEvents PROVE LocalInv'
<1>1. PICK n \in Local!Session : n = Local!newSession("pairing", "waiting") /\ n.phase = "waiting" /\ n.runtime = "none"
  BY NewSessionOK DEF Modes, Phases
<1>2. sessions' = [sessions EXCEPT ![c] = n] /\ sessions \in [Local!Channel -> Local!Session]
  BY <1>1, Held DEF Local!createPairing
<1>3. sessions' \in [Local!Channel -> Local!Session] /\ \A d \in Local!Channel : sessions'[d] = IF d = c THEN n ELSE sessions[d]
  BY <1>2
<1>4. {} \in SUBSET {"offer", "error"}
  OBVIOUS
<1>5. /\ mailbox' \in [Local!Channel -> Local!MailboxChannel]
      /\ \A d \in Local!Channel : mailbox'[d].state = IF d = c THEN "open" ELSE mailbox[d].state
      /\ mailbox[c].state = "unmade"
  BY <1>4, NewBoxOK DEF Local!createPairing, Local!createChannel, Local!fresh
<1>6. Local!OneWriter'
  BY <1>1, <1>3, Held DEF Local!OneWriter, Local!Closed, Local!createPairing
<1>7. \A d \in Local!Channel \ {c} : Moves(d)
  BY <1>3 DEF Moves
<1>. QED BY <1>1, <1>3, <1>5, <1>6, <1>7, FreshKeeps, Held DEF Local!createPairing

LEMMA ConnectKeepsLocal == ASSUME LocalInv, NEW c \in Local!Channel, Local!connectServerPeer(c) PROVE LocalInv'
<1>1. PICK n \in Local!Session : n = Local!newSession("reconnect", "waiting") /\ n.phase = "waiting" /\ n.runtime = "none"
  BY NewSessionOK DEF Modes, Phases
<1>2. PICK olds : olds = {live} \ {Local!NoChannel}
  OBVIOUS
<1>3. PICK s \in [Local!Channel -> Local!Session] : s = [sessions EXCEPT ![c] = n]
  BY Held
<1>4. {"offer"} \in SUBSET {"offer", "error"}
  OBVIOUS
<1>5. PICK box \in [Local!Channel -> Local!MailboxChannel] :
        /\ box = [mailbox EXCEPT ![c] = [state |-> "open", code |-> FALSE, signals |-> {"offer"}]]
        /\ \A d \in Local!Channel : box[d].state = IF d = c THEN "open" ELSE mailbox[d].state
  <2>1. PICK g \in SUBSET {"offer", "error"} : g = {"offer"}
    BY <1>4
  <2>2. PICK box : box = [mailbox EXCEPT ![c] = [state |-> "open", code |-> FALSE, signals |-> g]]
    OBVIOUS
  <2>3. FALSE \in BOOLEAN
    OBVIOUS
  <2>4. /\ box \in [Local!Channel -> Local!MailboxChannel]
        /\ \A d \in Local!Channel : box[d].state = IF d = c THEN "open" ELSE mailbox[d].state
    BY <2>2, <2>3, NewBoxOK
  <2>. QED BY <2>1, <2>2, <2>4
<1>6. /\ mailbox[c].state = "unmade" /\ mailbox' = Local!closed(box, olds) /\ sessions' = Local!disposed(s, olds)
      /\ wires' = Local!cut(wires, olds) /\ live' = Local!unregister(live, olds)
      /\ ends' = [ends EXCEPT ![c] = [phase |-> "signaling", key |-> stored]]
      /\ UNCHANGED <<peers, writes, stored, tmp, events, retired, crossed>>
  BY <1>1, <1>2, <1>3, <1>5 DEF Local!connectServerPeer, Local!createReconnect, Local!fresh
<1>7. \A d \in Local!Channel : s[d] = IF d = c THEN n ELSE sessions[d]
  BY <1>3, Held
<1>8. /\ sessions' \in [Local!Channel -> Local!Session]
      /\ \A d \in Local!Channel :
           \/ sessions'[d] = s[d] /\ (d \in olds => s[d].phase = "none")
           \/ sessions'[d].phase = "closed" /\ s[d].phase # "none"
  BY <1>6, DisposedOK
<1>9. /\ mailbox' \in [Local!Channel -> Local!MailboxChannel]
      /\ \A d \in Local!Channel : mailbox'[d].state = "unmade" <=> box[d].state = "unmade"
  BY <1>6, ClosedOK
<1>10. \A d \in Local!Channel \ {c} : Moves(d)
  BY <1>7, <1>8 DEF Moves
<1>11. sessions'[c].phase # "none" /\ (sessions'[c].phase = "closed" \/ sessions'[c].runtime # "started")
  BY <1>1, <1>7, <1>8
<1>12. Local!OneWriter'
  <2>1. ASSUME NEW d \in Local!Channel, sessions'[d].runtime = "started", sessions'[d].phase # "closed"
        PROVE  live' = d
    <3>1. d # c /\ sessions'[d] = sessions[d] /\ (d \in olds => sessions[d].phase = "none")
      BY <1>7, <1>8, <1>11, <2>1
    <3>2. live = d
      BY <2>1, <3>1, Held DEF Local!OneWriter, Local!Closed
    <3>3. d \notin olds
      BY <2>1, <3>1, Held DEF Idle
    <3>. QED BY <1>6, <3>2, <3>3 DEF Local!unregister
  <2>. QED BY <2>1 DEF Local!OneWriter, Local!Closed
<1>13. wires' \in WiresLocal(Known) /\ live' \in Local!Key /\ ends' \in Ends(Known) /\ events' \in 0 .. MaxEvents
  BY <1>6, Held, CutOK, EndOK, ChannelFacts DEF Local!unregister
<1>. QED BY <1>5, <1>6, <1>8, <1>9, <1>10, <1>11, <1>12, <1>13, FreshKeeps

-----------------------------------------------------------------------------
(* peers.json is written: what it held before is retired. A write that meets *)
(* another one in the tmp file ends what is known.                            *)

LEMMA RecordOK == \A w \in Local!Writer : Local!record(w) \in Local!Key /\ Local!record(w) # Local!NoFile
  BY ChannelFacts DEF Local!record, Local!Writer, Local!NoFile, Local!Key, Local!Channel, Local!NoChannel, Local!NoKey

LEMMA WriteTmpKeeps == ASSUME LocalInv, Local!writeTmp PROVE LocalInv'
<1>1. PICK w \in Local!Writer :
        writes[w] = "begun" /\ tmp' = Local!record(w) /\ writes' = [writes EXCEPT ![w] = "written"]
  BY DEF Local!writeTmp
<1>2. UNCHANGED <<mailbox, sessions, ends, wires, live, peers, stored, events, retired, crossed>>
  BY DEF Local!writeTmp
<1>3. writes' \in [Local!Writer -> Local!Write] /\ tmp' \in Local!Key \cup {Local!NoFile}
  BY <1>1, RecordOK, Held DEF Local!Write
<1>4. \A d \in Local!Channel : sessions'[d].phase \in Early => sessions[d].phase \in Early
  BY <1>2
<1>5. WritesGoOn
  <2>1. ASSUME NEW d \in Local!Channel, sessions'[d].phase \in Early PROVE writes'[d] = writes[d]
    <3>1. writes[d] = "none" /\ d \in Local!Writer
      BY <1>2, <2>1, Held, ChannelFacts DEF WritesOK
    <3>2. d # w
      BY <1>1, <3>1
    <3>. QED BY <1>1, <3>1, <3>2, Held
  <2>2. ASSUME NEW d \in Local!Channel PROVE writes'[d] = "done" <=> writes[d] = "done"
    <3>1. d \in Local!Writer /\ "begun" # "done" /\ "written" # "done"
      BY ChannelFacts
    <3>2. writes'[d] = IF d = w THEN "written" ELSE writes[d]
      BY <1>1, <3>1, Held
    <3>. QED BY <1>1, <3>1, <3>2
  <2>. QED BY <1>3, <2>1, <2>2 DEF WritesGoOn
<1>6. WritesOK'
  BY <1>2, <1>4, <1>5, WritesKeep
<1>7. TabKnows(Known)'
  BY <1>2 DEF LocalInv, TabKnows, Known, Ends, WiresLocal
<1>8. Local!TypeOK'
  BY <1>2, <1>3 DEF LocalInv, Local!TypeOK, Local!MailboxTypeOK
<1>9. SessionsOK'
  BY <1>2 DEF LocalInv, SessionsOK, Unmade, Idle, Local!OneWriter, Local!Closed
<1>. QED BY <1>6, <1>7, <1>8, <1>9 DEF LocalInv

(* A tmp file is moved: if it is the record of another call, anything may be   *)
(* known from now on.                                                         *)
LEMMA RenamedKeeps ==
  ASSUME LocalInv, NEW w \in Local!Writer, writes[w] = "written",
         crossed' = (crossed \/ tmp # Local!record(w)), Local!renamed(w), UNCHANGED <<stored, events>>
  PROVE  LocalInv'
<1>1. /\ tmp # Local!NoFile /\ peers' = tmp /\ tmp' = Local!NoFile
      /\ writes' = [writes EXCEPT ![w] = "done"]
      /\ retired' = retired \cup {c \in Local!Channel \ {w} : writes[c] = "done"}
      /\ UNCHANGED <<mailbox, sessions, ends, wires, live>>
  BY DEF Local!renamed
<1>2. /\ peers' \in Local!Key /\ retired' \subseteq Local!Channel /\ writes' \in [Local!Writer -> Local!Write]
      /\ tmp' \in Local!Key \cup {Local!NoFile} /\ crossed' \in BOOLEAN
  <2>1. retired' \subseteq Local!Channel
    BY <1>1 DEF LocalInv, Local!TypeOK
  <2>. QED BY <1>1, <2>1, Held DEF Local!Write
<1>3. ASSUME ~crossed' PROVE ~crossed /\ peers' = Local!record(w)
  BY <1>1, <1>3, Held
<1>4. Known \subseteq Known'
  <2>1. CASE crossed'
    BY <2>1, KnownIsKey DEF LocalInv, Known
  <2>2. CASE ~crossed'
    <3>1. ASSUME peers # Local!NoKey PROVE peers \in retired'
      <4>1. peers \in Local!Channel /\ writes[peers] = "done"
        BY <1>3, <2>2, <3>1, Held DEF WritesOK, Local!Key, Local!NoKey, Local!NoChannel
      <4>. QED BY <1>1, <4>1
    <3>. QED BY <1>1, <1>3, <2>2, <3>1 DEF Known
  <2>. QED BY <2>1, <2>2
<1>5. TabKnows(Known)'
  <2>1. ends \in Ends(Known') /\ wires \in WiresLocal(Known') /\ stored \in Known'
    BY <1>4, KnowsMono, Held
  <2>. QED BY <1>1, <2>1 DEF TabKnows, Ends, WiresLocal
<1>6. WritesOK'
  <2>1. ASSUME NEW c \in Local!Channel, writes'[c] = "done" PROVE c \in Known'
    <3>1. CASE crossed'
      BY <3>1, ChannelFacts DEF Known
    <3>2. CASE ~crossed' /\ c = w
      BY <1>3, <3>2, ChannelFacts DEF Known, Local!record
    <3>3. CASE c # w
      <4>1. writes[c] = "done"
        BY <1>1, <2>1, <3>3, ChannelFacts, Held
      <4>. QED BY <1>4, <4>1, Held DEF WritesOK
    <3>. QED BY <3>1, <3>2, <3>3
  <2>2. ~crossed' /\ peers' # Local!NoKey => writes'[peers'] = "done"
    BY <1>1, <1>3, Held DEF Local!record
  <2>3. ASSUME NEW c \in Local!Channel, sessions'[c].phase \in Early PROVE writes'[c] = "none"
    BY <1>1, <2>3, Held, ChannelFacts DEF WritesOK
  <2>. QED BY <2>1, <2>2, <2>3 DEF WritesOK
<1>7. Local!TypeOK'
  <2>1. Local!TypeOK /\ Local!MailboxTypeOK'
    BY <1>1 DEF LocalInv, Local!TypeOK, Local!MailboxTypeOK
  <2>. QED BY <1>1, <1>2, <2>1 DEF Local!TypeOK
<1>8. SessionsOK'
  BY <1>1 DEF LocalInv, SessionsOK, Unmade, Idle, Local!OneWriter, Local!Closed
<1>. QED BY <1>5, <1>6, <1>7, <1>8 DEF LocalInv

LEMMA NotRenamedKeeps ==
  ASSUME LocalInv, NEW w \in Local!Writer, writes[w] = "written",
         crossed' = (crossed \/ tmp # Local!record(w)), Local!notRenamed(w), UNCHANGED <<stored, events>>
  PROVE  LocalInv'
<1>1. /\ tmp = Local!NoFile /\ writes' = [writes EXCEPT ![w] = "lost"]
      /\ UNCHANGED <<peers, tmp, retired>>
  BY DEF Local!notRenamed
<1>2. crossed' = TRUE /\ Known' = Local!Key
  BY <1>1, RecordOK, Held DEF Known
<1>3. writes' \in [Local!Writer -> Local!Write]
  BY <1>1, Held DEF Local!Write
<1>4. ends \in Ends(Local!Key) /\ wires \in WiresLocal(Local!Key) /\ stored \in Local!Key
  BY KnownIsKey, KnowsMono, Held DEF LocalInv
<1>5. /\ UNCHANGED <<mailbox, ends, live>> /\ wires' \in WiresLocal(Local!Key)
      /\ sessions' \in [Local!Channel -> Local!Session] /\ \A d \in Local!Channel : Moves(d)
  <2>1. CASE UNCHANGED <<mailbox, sessions, ends, wires, live>>
    BY <1>4, <2>1, Held DEF Moves
  <2>2. CASE /\ w \in Local!Channel /\ sessions[w].phase = "saving"
             /\ Local!says(w, Local!endsSoon(w), <<Local!frame("error")>>)
    <3>1. PICK r \in Local!Session : r = Local!endsSoon(w)
      BY <2>2, Held, SessionOK DEF Local!endsSoon
    <3>2. r.phase = sessions[w].phase /\ r.runtime = sessions[w].runtime
      BY <2>2, <3>1, Held, SessionSet DEF Local!endsSoon
    <3>3. sessions' = [sessions EXCEPT ![w] = r] /\ UNCHANGED <<mailbox, ends, live>>
      BY <2>2, <3>1 DEF Local!says
    <3>4. /\ sessions' \in [Local!Channel -> Local!Session]
          /\ \A d \in Local!Channel : sessions'[d] = IF d = w THEN r ELSE sessions[d]
      BY <2>2, <3>3, Held
    <3>5. \A d \in Local!Channel : Moves(d)
      BY <2>2, <3>2, <3>4 DEF Moves, Early
    <3>6. wires' \in WiresLocal(Local!Key)
      <4>1. Local!frame("error") \in KnownFrame(Local!Key)
        BY FrameOK, ChannelFacts
      <4>2. PICK fs \in Seq(KnownFrame(Local!Key)) : fs = <<Local!frame("error")>>
        <5>1. <<Local!frame("error")>> \in Seq(KnownFrame(Local!Key))
          BY <4>1
        <5>. QED BY <5>1
      <4>3. [wires EXCEPT ![w].toTab = @ \o fs] \in WiresLocal(Local!Key)
        BY <1>4, <2>2, SendsOK
      <4>4. [wires EXCEPT ![w].toTab = wires[w].toTab] \in WiresLocal(Local!Key)
        BY <1>4, <2>2, WireOK
      <4>. QED BY <2>2, <4>2, <4>3, <4>4 DEF Local!says
    <3>. QED BY <3>3, <3>4, <3>5, <3>6
  <2>. QED BY <2>1, <2>2 DEF Local!notRenamed
<1>6. BoxStays
  BY <1>5, BoxesStay
<1>7. /\ Unmade' /\ Idle' /\ Local!OneWriter'
      /\ \A d \in Local!Channel : sessions'[d].phase \in Early => sessions[d].phase \in Early
  BY <1>5, <1>6, MovesKeep DEF Local!OneWriter, Local!Closed
<1>8. WritesOK'
  <2>1. \A c \in Local!Channel : c \in Known'
    BY <1>2, ChannelFacts
  <2>2. ASSUME NEW c \in Local!Channel, sessions'[c].phase \in Early PROVE writes'[c] = "none"
    <3>1. writes[c] = "none"
      BY <1>7, <2>2, Held DEF WritesOK
    <3>2. c # w /\ c \in Local!Writer
      BY <3>1, ChannelFacts
    <3>. QED BY <1>1, <3>1, <3>2, Held
  <2>. QED BY <1>2, <2>1, <2>2 DEF WritesOK
<1>9. TabKnows(Known)'
  BY <1>2, <1>4, <1>5 DEF TabKnows, Ends, WiresLocal
<1>10. Local!TypeOK'
  <2>1. ends' \in [Local!Channel -> Local!End] /\ wires' \in [Local!Channel -> Local!Wire] /\ stored' \in Local!Key
    BY <1>4, <1>5, KeyTypes
  <2>. QED BY <1>1, <1>2, <1>3, <1>5, <2>1 DEF LocalInv, Local!TypeOK, Local!MailboxTypeOK
<1>. QED BY <1>7, <1>8, <1>9, <1>10 DEF LocalInv, SessionsOK

LEMMA RenameKeeps == ASSUME LocalInv, Local!rename PROVE LocalInv'
<1>1. PICK w \in Local!Writer :
        /\ writes[w] = "written" /\ crossed' = (crossed \/ tmp # Local!record(w))
        /\ Local!renamed(w) \/ Local!notRenamed(w)
  BY DEF Local!rename
<1>2. UNCHANGED <<stored, events>>
  BY DEF Local!rename
<1>. QED BY <1>1, <1>2, RenamedKeeps, NotRenamedKeeps

-----------------------------------------------------------------------------
(* The whole                                                                *)

LEMMA EventOK == ASSUME MaxEvents \in Nat, LocalInv, Local!event PROVE events' \in 0 .. MaxEvents
  BY Held DEF Local!event

LEMMA LocalInitOK == ASSUME MaxEvents \in Nat, Local!Init PROVE LocalInv
<1>1. PICK n \in Local!Session : n = Local!newSession("none", "none") /\ n.phase = "none" /\ n.runtime = "none"
  BY NewSessionOK DEF Modes, Phases
<1>2. sessions = [c \in Local!Channel |-> n]
  BY <1>1 DEF Local!Init
<1>3. mailbox \in [Local!Channel -> Local!MailboxChannel]
  <2>1. [state |-> "unmade", code |-> FALSE, signals |-> {}] \in Local!MailboxChannel
    BY DEF Local!MailboxChannel
  <2>. QED BY <2>1 DEF Local!Init, Local!MailboxInit
<1>4. Local!NoKey \in Known
  BY ChannelFacts DEF Known
<1>5. TabKnows(Known)
  <2>1. ends \in Ends(Known)
    BY <1>4 DEF Local!Init, Ends
  <2>2. Local!down \in [up : BOOLEAN, toTab : Seq(KnownFrame(Known)), toDesk : Seq(Local!Frame)]
    BY EmptySeq DEF Local!down
  <2>. QED BY <1>4, <2>1, <2>2 DEF Local!Init, TabKnows, WiresLocal
<1>6. Local!TypeOK
  <2>1. retired = {} /\ peers = Local!NoKey /\ live = Local!NoChannel /\ stored = Local!NoKey /\ events = 0
        /\ tmp = Local!NoFile /\ crossed = FALSE
    BY DEF Local!Init
  <2>2. Known \subseteq Local!Key
    BY <2>1, ChannelFacts DEF Known
  <2>3. ends \in [Local!Channel -> Local!End] /\ wires \in [Local!Channel -> Local!Wire]
    BY <1>5, <2>2, KnowsMono, KeyTypes DEF TabKnows
  <2>4. writes \in [Local!Writer -> Local!Write]
    BY DEF Local!Init, Local!Write
  <2>5. sessions \in [Local!Channel -> Local!Session]
    BY <1>1, <1>2
  <2>6. stored \in Local!Key /\ peers \in Local!Key /\ live \in Local!Key
    <3>1. Local!NoKey \in Local!Key /\ Local!NoChannel \in Local!Key
      BY ChannelFacts
    <3>. QED BY <2>1, <3>1
  <2>7. events \in 0 .. MaxEvents
    BY <2>1
  <2>8. retired \subseteq Local!Channel /\ tmp \in Local!Key \cup {Local!NoFile} /\ crossed \in BOOLEAN
    BY <2>1
  <2>. QED BY <1>3, <2>3, <2>4, <2>5, <2>6, <2>7, <2>8 DEF Local!TypeOK, Local!MailboxTypeOK
<1>7. WritesOK /\ SessionsOK
  <2>1. \A c \in Local!Channel : writes[c] = "none" /\ sessions[c] = n
    BY <1>2, ChannelFacts DEF Local!Init
  <2>. QED BY <1>1, <2>1 DEF Local!Init, WritesOK, SessionsOK, Unmade, Idle, Local!OneWriter
<1>. QED BY <1>5, <1>6, <1>7 DEF LocalInv

LEMMA StutterOK == ASSUME LocalInv, UNCHANGED Local!mailboxVars PROVE LocalInv'
  BY TabKeeps, BoxesStay, Held DEF Local!mailboxVars

LEMMA DesktopKeeps == ASSUME LocalInv, NEW c \in Local!Channel, Local!Desktop(c) PROVE LocalInv'
<1>1. CASE Local!offerTimesOut(c)
  BY <1>1, TimesOutKeeps, Held DEF Local!offerTimesOut, Local!others
<1>. QED BY <1>1, SendServerKeeps, PairedKeepsLocal, OnControlKeeps, AttachKeepsLocal, StartRuntimeKeeps, OnLinkClosedKeeps
         DEF Local!Desktop

LEMMA TabStepKeeps == ASSUME LocalInv, NEW c \in Local!Channel, Local!TabStep(c) PROVE LocalInv'
<1>1. CASE Local!givesUp(c)
  BY <1>1, FailsKeeps, Held DEF Local!givesUp
<1>. QED BY <1>1, ConnectKeepsLocal, SignalFailsKeepsLocal, NegotiateKeepsLocal DEF Local!TabStep

LEMMA PeopleKeep == ASSUME MaxEvents \in Nat, LocalInv, NEW c \in Local!Channel, Local!People(c) PROVE LocalInv'
<1>1. CASE Local!createPairing(c)
  BY <1>1, EventOK, CreatePairingKeeps DEF Local!createPairing
<1>. QED BY <1>1, JoinKeepsLocal, ApproveKeepsLocal, DenyKeeps, ConfirmKeepsLocal, RejectKeepsLocal DEF Local!People

LEMMA FaultyKeepsLocal == ASSUME MaxEvents \in Nat, LocalInv, Local!Faulty PROVE LocalInv'
<1>1. events' \in 0 .. MaxEvents /\ retired' = retired /\ crossed' = crossed
  BY EventOK DEF Local!Faulty
<1>2. CASE Local!loads
  BY <1>1, <1>2, LoadsKeeps
<1>3. CASE Local!restart
  BY <1>1, <1>3, ProcessEndsKeeps DEF Local!restart
<1>4. ASSUME NEW c \in Local!Channel, Local!drop(c) \/ Local!slow(c) \/ Local!slowOffer(c) \/ Local!prune(c) PROVE LocalInv'
  <2>1. CASE Local!drop(c)
    BY <1>1, <2>1, DropKeeps
  <2>2. CASE Local!slow(c)
    BY <1>1, <2>2, FailsKeeps DEF Local!slow
  <2>3. CASE Local!slowOffer(c)
    BY <1>1, <2>3, TimesOutKeeps DEF Local!slowOffer
  <2>4. CASE Local!prune(c)
    BY <1>1, <2>4, PruneKeeps
  <2>. QED BY <1>4, <2>1, <2>2, <2>3, <2>4
<1>. QED BY <1>2, <1>3, <1>4 DEF Local!Faulty

LEMMA LocalNextKeeps == ASSUME MaxEvents \in Nat, LocalInv, [Local!MailboxNext]_Local!mailboxVars PROVE LocalInv'
<1>1. ASSUME Local!Steps PROVE LocalInv'
  <2>1. ASSUME Local!reloadAfterPairing PROVE LocalInv'
    BY <2>1, LoadsKeeps, Held DEF Local!reloadAfterPairing
  <2>. QED BY <1>1, <2>1, DesktopKeeps, TabStepKeeps, OpenKeepsLocal, WriteTmpKeeps, RenameKeeps DEF Local!Steps
<1>2. ASSUME Local!revoke PROVE LocalInv'
  BY <1>2, EventOK, RevokeKeeps DEF Local!revoke
<1>. QED BY <1>1, <1>2, StutterOK, PeopleKeep, FaultyKeepsLocal DEF Local!MailboxNext

LEMMA LocalInvariance == ASSUME MaxEvents \in Nat PROVE Local!Spec => []LocalInv
<1>1. Local!Init => LocalInv
  BY LocalInitOK
<1>2. LocalInv /\ [Local!MailboxNext]_Local!mailboxVars => LocalInv'
  BY LocalNextKeeps
<1>. QED BY <1>1, <1>2, PTL DEF Local!Spec

(* Channels, sessions, connections and the file of keys keep their type.    *)
THEOREM MailboxTypes == ASSUME MaxEvents \in Nat PROVE Local!Spec => []Local!TypeOK
<1>1. LocalInv => Local!TypeOK
  BY DEF LocalInv
<1>. QED BY <1>1, LocalInvariance, PTL

(* A profile has one live session at most: whichever session gets ready      *)
(* (startRuntime, makeLive), closes or is replaced, a session that is ready  *)
(* and was not disposed of is the one of liveByProfile.                      *)
THEOREM OneLiveWriter == ASSUME MaxEvents \in Nat PROVE Local!Spec => []OneWriter
<1>1. LocalInv => OneWriter
  BY DEF LocalInv, SessionsOK, OneWriter
<1>. QED BY <1>1, LocalInvariance, PTL

(* The key a tab stores is in peers.json, unless a revocation or a newer     *)
(* pairing took it out: a desktop that sends a key has saved it. It holds     *)
(* for as long as no two writes have met in the one tmp file (store.ts,       *)
(* savePeer, removePeer, writeJson); what a tab holds after that can be any.  *)
THEOREM StoredIsKnown == ASSUME MaxEvents \in Nat PROVE Local!Spec => []PairedIsKnown
<1>1. LocalInv => PairedIsKnown
  BY DEF LocalInv, TabKnows, Known, PairedIsKnown, Local!PairedIsKnown
<1>. QED BY <1>1, LocalInvariance, PTL

=============================================================================
