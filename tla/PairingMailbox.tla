--------------------------- MODULE PairingMailbox ---------------------------
(***************************************************************************)
(* The desktop's own mailbox (src/bridge/mailbox.ts): channels in memory    *)
(* over which a browser and a session of the desktop exchange an offer and  *)
(* an answer.  A channel is joined with a single-use code, or made for a    *)
(* browser that holds a key.  The browser polls and gets 404 once the        *)
(* channel is gone; the session holds the channel itself and is called.      *)
(* The answer is the opening of the data channel; ICE candidates, tokens and *)
(* the length of the feed are left out.                                      *)
(***************************************************************************)
EXTENDS Integers, Sequences

CONSTANT MaxChannels       \* bound: channels the mailbox makes

VARIABLE mailbox

Channel == 1 .. MaxChannels
NoChannel == 0

\* code: the code is not spent. signals: what was appended.
MailboxChannel == [state : {"unmade", "open", "gone"}, code : BOOLEAN,
                   signals : SUBSET {"offer", "error"}]

MailboxTypeOK == mailbox \in [Channel -> MailboxChannel]

MailboxInit == mailbox = [c \in Channel |-> [state |-> "unmade", code |-> FALSE, signals |-> {}]]

\* The next channel to be made.
fresh(c) == mailbox[c].state = "unmade" /\ \A d \in Channel : d < c => mailbox[d].state # "unmade"

\* What get finds: a channel that was neither closed nor pruned.
reachable(c) == mailbox[c].state = "open"

\* createPairing, createReconnect.
createChannel(c, withCode) ==
  mailbox' = [mailbox EXCEPT ![c] = [state |-> "open", code |-> withCode, signals |-> {}]]

\* join, joinByCode, with the offer that the browser sends next: the code is spent.
spend(c) == [mailbox EXCEPT ![c].code = FALSE, ![c].signals = @ \cup {"offer"}]

joinable(c) == reachable(c) /\ mailbox[c].code

\* append works on a channel that is gone, too; only nobody reads it any more.
append(c, signal) == [mailbox EXCEPT ![c].signals = IF reachable(c) THEN @ \cup {signal} ELSE @]

\* close, remove, prune. The session has no more use for what it has read.
gone == [state |-> "gone", code |-> FALSE, signals |-> {}]
closed(box, cs) ==
  [c \in Channel |-> IF c \in cs /\ box[c].state = "open" THEN gone ELSE box[c]]
=============================================================================
