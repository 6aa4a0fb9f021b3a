------------------------------ MODULE TurnOrder ------------------------------
(***************************************************************************)
(* What a user may count on for the messages of a chat: they run in the    *)
(* order they were sent, one at a time, and each ends once.                *)
(***************************************************************************)
EXTENDS Naturals

CONSTANTS
  Turn,      \* the messages, numbered in the order they are sent
  Chat,
  NoChat     \* before a message is sent

VARIABLES chatOf, phase

vars == <<chatOf, phase>>

Phase == {"unsent", "waiting", "running", "ended", "dropped"}

Init ==
  /\ chatOf = [m \in Turn |-> NoChat]
  /\ phase = [m \in Turn |-> "unsent"]

of(c) == {m \in Turn : chatOf[m] = c}

Submit(m, c) ==
  /\ phase[m] = "unsent"
  /\ \A n \in Turn : n > m => phase[n] = "unsent"
  /\ chatOf' = [chatOf EXCEPT ![m] = c]
  /\ phase' = [phase EXCEPT ![m] = "waiting"]

Start(m) ==
  /\ phase[m] = "waiting"
  /\ \A n \in of(chatOf[m]) :
       /\ phase[n] # "running"
       /\ phase[n] = "waiting" => n >= m
  /\ phase' = [phase EXCEPT ![m] = "running"]
  /\ UNCHANGED chatOf

End(m) ==
  /\ phase[m] = "running"
  /\ phase' = [phase EXCEPT ![m] = "ended"]
  /\ UNCHANGED chatOf

(* Cancelled, cleared by a stop, or could not start.                       *)
Drop(S) ==
  /\ \A m \in S : phase[m] = "waiting"
  /\ phase' = [m \in Turn |-> IF m \in S THEN "dropped" ELSE phase[m]]
  /\ UNCHANGED chatOf

Next ==
  \/ \E m \in Turn, c \in Chat : Submit(m, c)
  \/ \E m \in Turn : Start(m) \/ End(m)
  \/ \E S \in SUBSET Turn : Drop(S)

Spec == Init /\ [][Next]_vars
=============================================================================
