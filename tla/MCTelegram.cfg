\* Two tabs take a chat from each other, or one tab answers two messages.
CONSTANTS
  Message <- TwoChats
  Tab = {1, 2, 3}
  Profile = {1, 2, 3}
  ProfileOf <- OwnProfile
  AnsweredKeep = 1
  Browser = {1, 2}
  BrowserOf <- OneBrowser
  SeenKeep = 1
  Day <- Days
  MaxFaults = 1
  MaxChain = 3
SPECIFICATION FairSpec
PROPERTIES RunsOnce LiveOwnerStays EventuallyRun
CHECK_DEADLOCK FALSE
