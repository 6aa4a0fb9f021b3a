----------------------------- MODULE RelayLink ------------------------------
(***************************************************************************)
(* A browser tab and a desktop that are paired over a relay: the desktop's  *)
(* PeerSession (src/bridge/peer.ts) and the tab's side of the handshake      *)
(* (web/src/server-link.ts, web/src/main.ts) over the signaling of            *)
(* RelayTransport.  The tab is let in once by the operator and by the user's *)
(* comparison of a phrase; afterwards it comes back alone and proves its key. *)
(* Files and catalogs move once the session has a ProfileLink on the          *)
(* connection.  A connection is down at once for both ends; the tab sees it   *)
(* when it looks, the desktop gets one or more close events per handler.      *)
(***************************************************************************)
EXTENDS RelayTransport

CONSTANTS
  MaxNotices,    \* close events the desktop gets for one connection, at most
  Doubling,      \* the connections that may give more than one
  MaxFaults      \* bound: faults of connections, of the tab and of the relay

VARIABLES
  session,   \* the desktop's PeerSession
  waiters,   \* its calls of reconnectRelay that await the watcher
  greeting,  \* server frames it is about to send, by generation and call
  tab,       \* the tab
  wire,      \* the data channel: its generation and the frames on it
  handlers,  \* close handlers the session put on each connection
  notices,   \* close events of each connection that the session has still to see
  faults,
  doubled    \* history: a connection gave the session more than one close event

vars == <<transportVars, session, waiters, greeting, tab, wire, handlers, notices, faults, doubled>>

MaxCalls == (MaxFaults + 1) * MaxNotices ^ (MaxFaults + 1)    \* reconnectRelay calls at once
Nonce == Gens \X (1 .. MaxCalls)      \* nonce of a server frame
NoNonce == <<Pairing, 1>>

Frame == [op : {"hello", "server", "paired", "resume", "resumed", "ready", "catalog", "error"}, nonce : Nonce]
frame(op) == [op |-> op, nonce |-> NoNonce]
proof(op, n) == [op |-> op, nonce |-> n]

Maybe == Gens \cup {NoGen}
Session == [phase : {"offering", "greeting", "hello", "approval", "saving", "paired", "closed", "crashed"},
            link : Maybe, nonce : Nonce, hello : BOOLEAN, authed : BOOLEAN, reconnecting : BOOLEAN,
            proving : SUBSET Nonce,   \* proofs whose onControl awaits the stored key
            proved : SUBSET Maybe,    \* history: connections whose tab was let in or proved its key
            attaching : BOOLEAN,      \* attachProfileLink awaits its catalog
            profileLink : Maybe,      \* the connection its ProfileLink is on
            pending : BOOLEAN,        \* pendingProfileControls holds the catalog
            synced : Maybe,           \* the connection whose catalog was taken
            deaf : SUBSET Gens,       \* connections whose handler is a closed ProfileLink
            closing : BOOLEAN]
Tab == [phase : {"code", "requested", "opening", "negotiating", "paired", "live", "idle", "failed", "dead"},
        gen : Gens, nonce : Nonce, confirmed : BOOLEAN, saved : BOOLEAN]
Wire == [gen : Maybe, toTab : Seq(Frame), toDesk : Seq(Frame)]
down == [gen |-> NoGen, toTab |-> <<>>, toDesk |-> <<>>]

TypeOK ==
  /\ TransportTypeOK
  /\ session \in Session /\ tab \in Tab /\ wire \in Wire
  /\ waiters \in 0 .. MaxCalls
  /\ greeting \subseteq Nonce
  /\ handlers \in [Gens -> Nat] /\ notices \in [Gens -> Nat]
  /\ faults \in 0 .. MaxFaults /\ doubled \in BOOLEAN

\* The desktop has made its offer and shown the code.
Init ==
  /\ TransportInit
  /\ session = [phase |-> "offering", link |-> NoGen, nonce |-> NoNonce, hello |-> FALSE,
                authed |-> FALSE, reconnecting |-> FALSE, proving |-> {}, proved |-> {},
                attaching |-> FALSE,
                profileLink |-> NoGen, pending |-> FALSE, synced |-> NoGen, deaf |-> {},
                closing |-> FALSE]
  /\ waiters = 0 /\ greeting = {}
  /\ tab = [phase |-> "code", gen |-> Pairing, nonce |-> NoNonce, confirmed |-> FALSE, saved |-> FALSE]
  /\ wire = down
  /\ handlers = [g \in Gens |-> 0] /\ notices = [g \in Gens |-> 0]
  /\ faults = 0 /\ doubled = FALSE

Closed == session.phase \in {"closed", "crashed"}

\* The connection ends; the session will see n close events at each handler.
lost(n) ==
  /\ wire' = down
  /\ IF wire.gen = NoGen
       THEN UNCHANGED <<notices, doubled>>
       ELSE /\ notices' = [notices EXCEPT ![wire.gen] = n * handlers[wire.gen]]
            /\ doubled' = (doubled \/ n * handlers[wire.gen] > 1)

anyLost == \E n \in 1 .. MaxNotices : (n = 1 \/ wire.gen \in Doubling) /\ lost(n)

toTab(f) == wire' = [wire EXCEPT !.toTab = IF wire.gen = NoGen THEN @ ELSE Append(@, f)]
toDesk(w, fs) == [w EXCEPT !.toDesk = IF w.gen = NoGen THEN @ ELSE @ \o fs]

deskOnly == UNCHANGED <<tab, handlers, notices, faults, doubled>>
tabOnly == UNCHANGED <<session, waiters, greeting, handlers, faults>>

-----------------------------------------------------------------------------
(* The tab's signaling                                                      *)

\* The user enters the code.
join ==
  /\ tab.phase = "code" /\ ~gone
  /\ tab' = [tab EXCEPT !.phase = "requested"]
  /\ UNCHANGED <<transportVars, wire, notices, doubled>> /\ tabOnly

\* connectServerPeer, at boot and every 20 seconds: a purged channel is not tried
\* again.
connectServerPeer ==
  /\ tab.phase = "idle" /\ tab.saved
  /\ \/ /\ tab.gen < MaxGens
        /\ requestReconnect(tab.gen + 1)
        /\ tab' = [tab EXCEPT !.phase = "requested", !.gen = @ + 1]
     \/ /\ gone
        /\ tab' = [tab EXCEPT !.phase = "dead"]
        /\ UNCHANGED transportVars
  /\ UNCHANGED <<wire, notices, doubled>> /\ tabOnly

answer ==
  /\ tab.phase = "requested"
  /\ answerOffer(tab.gen)
  /\ tab' = [tab EXCEPT !.phase = "opening"]
  /\ UNCHANGED <<wire, notices, doubled>> /\ tabOnly

\* What a failed attempt leaves: a pairing must be started again, a
\* reconnection is tried again.
afterFailure == [tab EXCEPT !.phase = IF tab.gen = Pairing THEN "failed" ELSE "idle"]

\* The signal poll finds the channel gone, or the desktop's farewell.
signalFails ==
  /\ tab.phase = "requested"
  /\ \/ gone
     \/ (tab.gen = Pairing /\ Sent("bye", Pairing))
  /\ tab' = [afterFailure EXCEPT !.phase = IF gone /\ @ = "idle" THEN "dead" ELSE @]
  /\ UNCHANGED <<transportVars, wire, notices, doubled>> /\ tabOnly

-----------------------------------------------------------------------------
(* The connection                                                           *)

\* The data channel opens; every reconnectRelay call that waited for it takes
\* it: each puts its own close handler on it and will send a server frame. The
\* desktop's awaits of small local files end before a new connection is made.
open ==
  LET g == watch.offer
      calls == IF g = Pairing THEN 1 ELSE waiters IN
  /\ g # NoGen /\ watch.answered /\ ~Closed
  /\ greeting = {} /\ ~session.attaching /\ session.proving = {}
  /\ tab.phase = "opening" /\ tab.gen = g
  /\ watch' = noOffer
  /\ wire' = [gen |-> g, toTab |-> <<>>, toDesk |-> IF g = Pairing THEN <<frame("hello")>> ELSE <<>>]
  /\ tab' = [tab EXCEPT !.phase = "negotiating", !.nonce = NoNonce]
  /\ session' = [session EXCEPT !.link = g, !.phase = IF g = Pairing THEN "greeting" ELSE @]
  /\ handlers' = [handlers EXCEPT ![g] = calls]
  /\ greeting' = greeting \cup {<<g, k>> : k \in 1 .. calls}
  /\ waiters' = 0
  /\ UNCHANGED <<feed, gone, notices, faults, doubled>>

-----------------------------------------------------------------------------
(* The desktop's session                                                    *)

disposed == [session EXCEPT !.phase = "closed", !.link = NoGen, !.profileLink = NoGen, !.closing = FALSE,
                            !.proving = {}]

\* reconnectRelay, start: a server frame with a nonce of its own; the last nonce
\* is the one a proof is checked against.
sendServer ==
  \E n \in greeting :
    /\ greeting' = greeting \ {n}
    /\ ~Closed
    /\ session' = [session EXCEPT !.nonce = n, !.phase = IF n[1] = Pairing THEN "hello" ELSE @]
    /\ IF wire.gen = n[1] THEN toTab(proof("server", n)) ELSE wire' = wire
    /\ UNCHANGED <<transportVars, waiters>> /\ deskOnly

\* The operator is asked once the tab has said its profile.
awaitApproval ==
  /\ session.phase = "hello" /\ session.hello
  /\ session' = [session EXCEPT !.phase = "approval"]
  /\ UNCHANGED <<transportVars, waiters, greeting, wire>> /\ deskOnly

approve(ok) ==
  /\ session.phase = "approval" /\ ~session.closing
  /\ IF ok
       THEN session' = [session EXCEPT !.phase = "saving"] /\ wire' = wire
       ELSE session' = [session EXCEPT !.closing = TRUE] /\ toTab(frame("error"))
  /\ UNCHANGED <<transportVars, waiters, greeting>> /\ deskOnly

\* The key is saved and sent.
paired ==
  /\ session.phase = "saving"
  /\ session' = [session EXCEPT !.phase = "paired", !.authed = TRUE, !.proved = @ \cup {session.link}]
  /\ toTab(frame("paired"))
  /\ UNCHANGED <<transportVars, waiters, greeting>> /\ deskOnly

\* The frames of onControl: a proof is only taken by a session that waits for its
\* tab, and then awaits the key that is stored for the profile.
onResume(n) ==
  IF session.reconnecting
    THEN /\ session' = [session EXCEPT !.proving = @ \cup {n}]
         /\ wire' = [wire EXCEPT !.toDesk = Tail(@)]
    ELSE /\ session' = session
         /\ wire' = [wire EXCEPT !.toTab = Append(@, frame("error")), !.toDesk = Tail(@)]

\* The proof is checked against the nonce of now, whatever became of the connection
\* it came on: one that is gone gets no reply, but the session counts as proven.
proven(n) == n = session.nonce

proves ==
  \E n \in session.proving :
    /\ ~Closed
    /\ LET rest == session.proving \ {n} IN
       IF proven(n)
         THEN session' = [session EXCEPT !.proving = rest, !.authed = TRUE, !.reconnecting = FALSE,
                                         !.proved = @ \cup {n[1]}]
         ELSE session' = [session EXCEPT !.proving = rest, !.closing = TRUE]
    /\ IF wire.gen = n[1]
         THEN toTab(IF proven(n) THEN proof("resumed", n) ELSE frame("error"))
         ELSE wire' = wire
    /\ UNCHANGED <<transportVars, waiters, greeting>> /\ deskOnly

onReady ==
  session' = [session EXCEPT !.attaching = @ \/ (session.link # NoGen /\ session.profileLink = NoGen)]

\* A catalog that comes before the ProfileLink is kept for it.
\* Mutant: it is dropped.
onCatalog_Dropped ==
  session' = IF session.profileLink = NoGen THEN session
               ELSE [session EXCEPT !.synced = session.profileLink]
onCatalog ==
  session' = IF session.profileLink = NoGen
               THEN [session EXCEPT !.pending = TRUE]
               ELSE [session EXCEPT !.synced = session.profileLink]

consumed == wire' = [wire EXCEPT !.toDesk = Tail(@)]

onControl ==
  /\ wire.toDesk # <<>> /\ ~Closed
  /\ LET f == Head(wire.toDesk) IN
       IF wire.gen \in session.deaf
         THEN session' = session /\ consumed
         ELSE \/ f.op = "hello" /\ session' = [session EXCEPT !.hello = TRUE] /\ consumed
              \/ f.op = "resume" /\ onResume(f.nonce)
              \/ f.op = "ready" /\ onReady /\ consumed
              \/ f.op = "catalog" /\ onCatalog /\ consumed
  /\ UNCHANGED <<transportVars, waiters, greeting>> /\ deskOnly

\* attachProfileLink after its awaits: the link is put on whatever connection the
\* session has now; without one the constructor throws, which nothing catches.
attachProfileLink ==
  /\ session.attaching /\ ~Closed
  /\ IF session.link = NoGen
       THEN /\ session' = [disposed EXCEPT !.phase = "crashed"]
            /\ wire' = down
       ELSE /\ session' = [session EXCEPT !.attaching = FALSE, !.profileLink = session.link,
                             !.synced = IF session.pending THEN session.link ELSE @,
                             !.pending = FALSE]
            /\ wire' = wire
  /\ UNCHANGED <<transportVars, waiters, greeting>> /\ deskOnly

\* What a session forgets with its connection.
\* Mutant: the ProfileLink stays.
forgotten_KeepsLink ==
  [session EXCEPT !.link = NoGen, !.authed = FALSE, !.pending = FALSE,
                  !.reconnecting = @ \/ session.phase = "paired"]
forgotten ==
  [session EXCEPT !.link = NoGen, !.authed = FALSE, !.pending = FALSE,
                  !.reconnecting = @ \/ session.phase = "paired",
                  !.deaf = IF session.profileLink = NoGen THEN @ ELSE @ \cup {session.profileLink},
                  !.profileLink = NoGen]

\* Mutant: a session waits for its tab only if this connection proved the key.
waitsForTab_Authed == session.authed
waitsForTab == session.phase = "paired"

\* onLinkClosed, for one close event of one connection, whichever it is: a paired
\* session waits for the tab, any other ends.
onLinkClosed ==
  \E g \in Gens :
    /\ notices[g] > 0
    /\ notices' = [notices EXCEPT ![g] = @ - 1]
    /\ IF Closed
         THEN UNCHANGED <<session, waiters, wire>>
         ELSE IF waitsForTab
           THEN session' = forgotten /\ waiters' = waiters + 1 /\ wire' = wire
           ELSE session' = disposed /\ waiters' = 0 /\ wire' = wire
    /\ UNCHANGED <<transportVars, greeting, tab, handlers, faults, doubled>>

\* closeSoon, and a channel that is gone under the watcher or an open offer.
dispose ==
  /\ ~Closed
  /\ \/ session.closing
     \/ (gone /\ (waiters > 0 \/ watch.offer # NoGen))
  /\ session' = disposed
  /\ waiters' = 0
  /\ wire' = down
  /\ UNCHANGED <<transportVars, greeting>> /\ deskOnly

\* The watcher runs while a call of reconnectRelay waits for it.
watchReconnect ==
  /\ waiters > 0 /\ ~Closed
  /\ watchNext
  /\ UNCHANGED <<session, waiters, greeting, wire>> /\ deskOnly

pollOffer ==
  /\ ~Closed
  /\ pollAnswer
  /\ UNCHANGED <<session, waiters, greeting, wire>> /\ deskOnly

-----------------------------------------------------------------------------
(* The tab's handshake                                                      *)

readyAndCatalog == <<frame("ready"), frame("catalog")>>

\* negotiate: the frames of the desktop.
negotiate ==
  /\ tab.phase = "negotiating" /\ wire.toTab # <<>>
  /\ LET f == Head(wire.toTab)
         rest == [wire EXCEPT !.toTab = Tail(@)] IN
       \/ /\ f.op = "server" /\ tab.gen = Pairing
          /\ wire' = rest /\ tab' = tab
          /\ UNCHANGED <<notices, doubled>>
       \/ /\ f.op = "server" /\ tab.gen # Pairing
          /\ wire' = toDesk(rest, <<proof("resume", f.nonce)>>)
          /\ tab' = [tab EXCEPT !.nonce = f.nonce]
          /\ UNCHANGED <<notices, doubled>>
       \/ /\ f.op = "paired"
          /\ wire' = rest /\ tab' = [tab EXCEPT !.phase = "paired"]
          /\ UNCHANGED <<notices, doubled>>
       \/ /\ f.op = "resumed" /\ f.nonce = tab.nonce
          /\ wire' = toDesk(rest, readyAndCatalog)
          /\ tab' = [tab EXCEPT !.phase = "live"]
          /\ UNCHANGED <<notices, doubled>>
       \/ /\ \/ f.op = "error"
             \/ f.op = "resumed" /\ f.nonce # tab.nonce
          /\ anyLost
          /\ tab' = afterFailure
  /\ UNCHANGED transportVars /\ tabOnly

\* The user compares the phrase: only then the link is stored and the desktop
\* told that the tab is ready.
confirmPhrase ==
  /\ tab.phase = "paired"
  /\ tab' = [tab EXCEPT !.phase = "live", !.confirmed = TRUE, !.saved = TRUE]
  /\ wire' = toDesk(wire, readyAndCatalog)
  /\ UNCHANGED <<transportVars, notices, doubled>> /\ tabOnly

rejectPhrase ==
  /\ tab.phase = "paired"
  /\ tab' = [tab EXCEPT !.phase = "failed"]
  /\ anyLost
  /\ UNCHANGED transportVars /\ tabOnly

\* finishHandshake: a later frame of the handshake means nothing.
ignore ==
  /\ tab.phase \in {"paired", "live"} /\ wire.toTab # <<>>
  /\ wire' = [wire EXCEPT !.toTab = Tail(@)]
  /\ UNCHANGED <<transportVars, tab, notices, doubled>> /\ tabOnly

\* The tab sees that its connection is down.
onClosed ==
  /\ tab.phase = "live" /\ wire.gen = NoGen
  /\ tab' = [tab EXCEPT !.phase = "idle"]
  /\ UNCHANGED <<transportVars, wire, notices, doubled>> /\ tabOnly

\* The desktop will not answer this attempt any more.
Hopeless ==
  \/ tab.phase \in {"requested", "opening"}
     /\ \/ Closed
        \/ tab.gen \in watch.handled \cup {Pairing} /\ watch.offer # tab.gen
  \/ tab.phase = "negotiating" /\ wire.gen = NoGen
  \/ tab.phase = "opening" /\ gone

timesOut ==
  /\ tab.phase \in {"requested", "opening", "negotiating"}
  /\ tab' = afterFailure
  /\ anyLost

givesUp ==
  /\ Hopeless
  /\ timesOut
  /\ UNCHANGED transportVars /\ tabOnly

-----------------------------------------------------------------------------
(* Faults                                                                   *)

fault == faults < MaxFaults /\ faults' = faults + 1

drop ==
  /\ wire.gen # NoGen
  /\ anyLost
  /\ UNCHANGED <<transportVars, session, waiters, greeting, tab, handlers>>

reload ==
  /\ tab.phase \notin {"code", "failed", "dead"}
  /\ tab' = [tab EXCEPT !.phase = IF tab.saved THEN "idle" ELSE "failed"]
  /\ anyLost
  /\ UNCHANGED <<transportVars, session, waiters, greeting, handlers>>

slow ==
  /\ ~Hopeless
  /\ timesOut
  /\ UNCHANGED <<transportVars, session, waiters, greeting, handlers>>

\* An offer fails: its signal or its connection. The first one takes the session along.
offerFails ==
  /\ watch.offer # NoGen /\ ~Closed
  /\ watch' = noOffer
  /\ IF watch.offer = Pairing
       THEN /\ session' = disposed
            /\ feed' = relaySignal("desktop", "bye", Pairing)
       ELSE UNCHANGED <<session, feed>>
  /\ UNCHANGED <<gone, waiters, greeting, tab, wire, handlers, notices, doubled>>

expire ==
  /\ purge
  /\ UNCHANGED <<session, waiters, greeting, tab, wire, handlers, notices, doubled>>

Faulty == fault /\ (drop \/ reload \/ slow \/ offerFails \/ expire)

-----------------------------------------------------------------------------
Desktop ==
  \/ sendServer \/ awaitApproval \/ approve(TRUE) \/ paired \/ onControl \/ proves
  \/ attachProfileLink \/ onLinkClosed \/ dispose \/ watchReconnect \/ pollOffer

TabSteps ==
  \/ connectServerPeer \/ answer \/ signalFails \/ negotiate \/ confirmPhrase
  \/ ignore \/ onClosed \/ givesUp

\* What goes on by itself: timers, polls, events; and the two people do not stop halfway.
Steps == Desktop \/ TabSteps \/ open

Next == Steps \/ join \/ approve(FALSE) \/ rejectPhrase \/ Faulty

Spec == Init /\ [][Next]_vars

\* Something goes on while anything can; nothing is said of any single step.
FairSpec == Spec /\ WF_vars(Steps)

-----------------------------------------------------------------------------
InStep ==
  /\ tab.phase = "live" /\ wire.gen = tab.gen
  /\ session.profileLink = tab.gen /\ session.synced = tab.gen

\* A connection carries files only for a tab that has been let in: the operator
\* approved, the user confirmed the phrase, and after the first connection the tab
\* proved its key on this very one, not on one that was closed while the proof was
\* being looked up. The tab is web/src/server-link.ts, which sends ready only after
\* the desktop's own proof.
OnlyProvenPeers ==
  session.profileLink # NoGen =>
    session.authed /\ session.profileLink \in session.proved /\ tab.confirmed

\* peer.ts:623: authed says that "the peer proved its client key on this connection".
\* It does not hold: a connection that closes while its proof awaits the stored key
\* leaves authed to the next one, whose own proof is then refused.
AuthedIsProven ==
  session.authed /\ session.link # NoGen => session.link \in session.proved

\* A pairing is not ended by what happens to its connections: while the channel is
\* alive the session of a tab that stored the link stays, unless a connection gave
\* it two close events.
KeepsThePairing ==
  (tab.saved /\ session.phase = "closed") => (gone \/ doubled)

\* README.md:350: a reload or a short network drop resumes without a new code while
\* the channel is alive. It does not hold: a connection that closes while
\* attachProfileLink awaits ends the desktop's process, and two close events of one
\* connection make two server frames, of which the proof for the first is refused.
ResumesWhileAlive ==
  (tab.saved /\ ~gone) => session.phase = "paired"

\* After the last fault tab and desktop are connected again, with the catalog of
\* the tab taken, unless the channel is gone, the pairing was given up, or one of
\* the accidents of ResumesWhileAlive happened.
Reconnects ==
  <>[](\/ InStep \/ gone \/ doubled
       \/ tab.phase \in {"code", "failed", "dead"} \/ session.phase = "crashed"
       \/ (~tab.saved /\ Closed))
=============================================================================
