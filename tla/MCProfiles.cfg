\* An installation with two originals, one further profile, three upsets
\* (crashes and failed writes) and three calls.
CONSTANTS
  File = {f1, f2}
  Default = default
  Profile = {default, a}
  ProfileId = {1, 2, 3, 4, 5, 6, 7, 8, 9}
  MaxUpsets = 3
  MaxCalls = 3
SPECIFICATION StoreSpec
INVARIANTS NothingLost KeepsProfiles
PROPERTY Boots
CHECK_DEADLOCK FALSE
