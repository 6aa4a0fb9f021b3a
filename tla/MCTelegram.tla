----------------------------- MODULE MCTelegram -----------------------------
(* Tabs, browsers, messages and days for TLC.  Each tab has a profile of   *)
(* its own; the first two share a browser.                                 *)
EXTENDS TelegramBridge

OwnProfile == [t \in Tab |-> t]
OneBrowser == [t \in Tab |-> IF t < 3 THEN 1 ELSE 2]

Letters(c, ids) == {[conv |-> c, id |-> i] : i \in ids}
TwoChats == Letters("c", {1, 2}) \cup Letters("d", {1})

On(tabs, messages, kinds) == [open |-> tabs, sent |-> messages, trouble |-> kinds]
OneMessage == Letters("c", {1})
Trouble == {"suspend", "reload", "refuse", "quota"}
Days ==
  \* two browsers; two tabs of one; one number in two chats; two messages of a chat
  { On({1, 3}, OneMessage, Trouble),
    On({1, 2}, OneMessage, Trouble), On({1, 2}, OneMessage, {"restart"}),
    On({1}, OneMessage \cup Letters("d", {1}), Trouble),
    On({1}, Letters("c", {1, 2}), Trouble) }
Busy == { On({1}, Letters("c", {1, 2}), {}) }
=============================================================================
