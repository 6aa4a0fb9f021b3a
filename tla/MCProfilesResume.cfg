\* An installation with two originals, one further profile, two upsets.
CONSTANTS
  File = {f1, f2}
  Default = default
  Profile = {default, a}
  ProfileId = {1, 2, 3, 4, 5, 6, 7}
  MaxUpsets = 1
  MaxCalls = 2
SPECIFICATION StoreSpec
INVARIANT Resumes
CHECK_DEADLOCK FALSE
