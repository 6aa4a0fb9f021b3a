\* Two browsers pair again while the old channel of one of them is still open.
CONSTANTS
  phone = phone
  laptop = laptop
  Device = {phone, laptop}
  Link = {1, 2}
  Calm = FALSE
  Id = {1}
  Name = {"home"}
  Profiles <- Shared
  Fresh <- NoneNew
  MaxChanges = 3
SPECIFICATION Spec
INVARIANT VetoIsFinal
CHECK_DEADLOCK FALSE
