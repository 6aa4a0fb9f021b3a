\* Three messages of one chat, two faults and a command.
CONSTANTS
  Turn = {1, 2, 3}
  NoTurn = 0
  Chat = {a}
  NoChat = NoChat
  Kept = 2
  Fault = {"setup", "log", "wedge", "error", "sleep", "die"}
  MaxFaults = 2
  MaxCommands = 1
SPECIFICATION FairSpec
INVARIANTS EndsOnce OneRun StaysVisible StopsItsTurn
PROPERTIES InOrder Ends Moves
CHECK_DEADLOCK FALSE
