----------------------------- MODULE ServerLink -----------------------------
(***************************************************************************)
(* The link of a browser tab and a desktop (web/src/server-link.ts,         *)
(* src/bridge/peer.ts).  The pairing decides, and the stored link keeps it:  *)
(* over a relay the one session of the desktop waits on its channel for the  *)
(* tab to come back, RelayLink; through the desktop's own mailbox the tab    *)
(* gets a new channel and the desktop a new session each time, MailboxLink.  *)
(* The way that was not chosen stays as it was in the beginning.             *)
(***************************************************************************)
EXTENDS RelayLink

CONSTANTS MaxChannels,   \* bound: channels the mailbox makes
          MaxEvents      \* bound: pairings, revocations and faults, through the mailbox

ASSUME MailboxBoundAssumption == MaxChannels \in Nat \ {0} /\ MaxEvents \in Nat

VARIABLES
  relay,     \* is the stored link one over a relay?
  mailbox, sessions, ends, wires, live, peers, tmp, writes, stored, events, retired, crossed

relayVars == vars
localVars == <<mailbox, sessions, ends, wires, live, peers, tmp, writes, stored, events, retired,
               crossed>>
linkVars == <<relay, relayVars, localVars>>

Local == INSTANCE MailboxLink WITH session <- sessions, end <- ends, wire <- wires

LinkInit == relay \in BOOLEAN /\ Init /\ Local!Init

Relays(A) == relay /\ A /\ UNCHANGED <<relay, localVars>>
Locals(A) == ~relay /\ A /\ UNCHANGED <<relay, relayVars>>

LinkNext == Relays(Next) \/ Locals(Local!MailboxNext)

(* The fairness of RelayLink and of MailboxLink, for the way that is used. *)
LinkSpec ==
  /\ LinkInit /\ [][LinkNext]_linkVars
  /\ WF_linkVars(Relays(Steps))
  /\ WF_linkVars(Locals(Local!Steps))

-----------------------------------------------------------------------------
(* Properties: those of RelayLink under their own names, and those of the  *)
(* way through the mailbox.                                                *)

(* Sessions, channels and the stored key keep their shape.                 *)
LocalTypeOK == Local!TypeOK

(* One session at most is the live writer of a profile, see MailboxLink.   *)
OneWriter == Local!OneWriter

(* The key a tab stores is known to the desktop.                           *)
PairedIsKnown == Local!PairedIsKnown

(* It always is (it is not, see there).                                    *)
AlwaysKnown == Local!AlwaysKnown

(* The desktop leaves a working connection alone (it does not, see there). *)
WorkingLinksStay == Local!WorkingLinksStay

(* A tab whose key is good is connected again after the last fault.        *)
ComesBack == Local!ComesBack
=============================================================================
