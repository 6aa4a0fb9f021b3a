--------------------------- MODULE RelayTransport ---------------------------
(***************************************************************************)
(* The signaling of a desktop that is paired over a relay                   *)
(* (src/bridge/relay.ts, RelayTransport, and its counterpart in the tab,     *)
(* BobSwapSignaling).  Both ends append to one channel of the relay and poll *)
(* it.  The pairing is generation 0; every attempt of the tab to come back   *)
(* is a generation of its own, named by the nonce of its request.  The       *)
(* desktop's watcher answers a request with an offer of that generation and  *)
(* polls for the answer; a newer request ends an offer that is still open.   *)
(* ICE candidates and the text of offers and answers are left out.           *)
(***************************************************************************)
EXTENDS Integers, Sequences

CONSTANT MaxGens       \* bound: attempts of the tab to come back

ASSUME GensAssumption == MaxGens \in Nat

VARIABLES
  feed,      \* the messages of the channel, at the relay
  gone,      \* the relay has purged the channel
  watch      \* the desktop's RelayTransport

transportVars == <<feed, gone, watch>>

Gens == 0 .. MaxGens
Pairing == 0
NoGen == -1

Signal == [from : {"desktop", "tab"}, type : {"offer", "answer", "reconnect", "bye"}, gen : Gens]

\* watch.cursor: messages the watcher has read; handled: requests it has taken
\* up; offer: the generation of the offer that is open; answered: its answer came.
Watch == [cursor : Nat, handled : SUBSET Gens, offer : Gens \cup {NoGen}, answered : BOOLEAN]

TransportTypeOK ==
  /\ feed \in Seq(Signal) /\ gone \in BOOLEAN
  /\ watch \in Watch

relaySignal(from, type, g) == Append(feed, [from |-> from, type |-> type, gen |-> g])

Sent(type, g) == \E i \in DOMAIN feed : feed[i].type = type /\ feed[i].gen = g

TransportInit ==
  /\ feed = <<[from |-> "desktop", type |-> "offer", gen |-> Pairing]>>
  /\ gone = FALSE
  /\ watch = [cursor |-> 0, handled |-> {}, offer |-> Pairing, answered |-> FALSE]

-----------------------------------------------------------------------------
(* The desktop                                                              *)

\* A request that the watcher takes up when it looks at message i.
fresh(i) ==
  /\ feed[i].from = "tab" /\ feed[i].type = "reconnect"
  /\ feed[i].gen \notin watch.handled

\* How far the watcher has read once it has looked at message i.
\* Mutant: the poll takes the cursor of the whole feed.
lookedAt_End(i) == Len(feed)
lookedAt(i) == i

\* watchReconnect: the next message of the channel; a request of a generation
\* that was not taken up yet is answered with an offer.
watchNext ==
  LET i == watch.cursor + 1 IN
  /\ watch.offer = NoGen /\ ~gone
  /\ i \in DOMAIN feed
  /\ IF fresh(i)
       THEN /\ watch' = [watch EXCEPT !.cursor = lookedAt(i), !.offer = feed[i].gen,
                                      !.handled = @ \cup {feed[i].gen}, !.answered = FALSE]
            /\ feed' = relaySignal("desktop", "offer", feed[i].gen)
       ELSE /\ watch' = [watch EXCEPT !.cursor = lookedAt(i)]
            /\ feed' = feed
  /\ gone' = gone

\* A newer request than the one the open offer answers.
superseded ==
  /\ watch.offer > Pairing
  /\ \E i \in watch.cursor + 1 .. Len(feed) :
       feed[i].type = "reconnect" /\ feed[i].gen # watch.offer

noOffer == [watch EXCEPT !.offer = NoGen]

\* poll of an open offer: the answer of its generation is applied, a newer
\* request ends it.
pollAnswer ==
  /\ watch.offer # NoGen /\ ~gone
  /\ IF superseded
       THEN watch' = noOffer
       ELSE /\ Sent("answer", watch.offer) /\ ~watch.answered
            /\ watch' = [watch EXCEPT !.answered = TRUE]
  /\ UNCHANGED <<feed, gone>>

-----------------------------------------------------------------------------
(* The tab                                                                  *)

\* A fresh generation: the request to come back.
requestReconnect(g) ==
  /\ ~gone
  /\ feed' = relaySignal("tab", "reconnect", g)
  /\ UNCHANGED <<gone, watch>>

\* awaitPeerSdp: the offer of this generation is there, and the answer is sent.
answerOffer(g) ==
  /\ ~gone
  /\ Sent("offer", g)
  /\ feed' = relaySignal("tab", "answer", g)
  /\ UNCHANGED <<gone, watch>>

\* The relay purges the channel: at its end of life, or renewals did not reach it.
purge ==
  /\ ~gone
  /\ gone' = TRUE
  /\ UNCHANGED <<feed, watch>>

-----------------------------------------------------------------------------
\* The watcher leaves no request behind: one that it has read past was taken up,
\* also when several arrive in one poll while an older offer is open.
NoRequestSkipped ==
  \A i \in DOMAIN feed :
    feed[i].type = "reconnect" /\ i <= watch.cursor => feed[i].gen \in watch.handled
=============================================================================
