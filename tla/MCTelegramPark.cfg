\* One tab acknowledges a message while the next is parked.
CONSTANTS
  Message <- TwoChats
  Tab = {1}
  Profile = {1}
  ProfileOf <- OwnProfile
  AnsweredKeep = 2
  Browser = {1}
  BrowserOf <- OneBrowser
  SeenKeep = 2
  Day <- Busy
  MaxFaults = 0
  MaxChain = 3
SPECIFICATION Spec
INVARIANTS NothingParkedIsLost
CHECK_DEADLOCK FALSE
