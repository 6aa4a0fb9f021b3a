\* Two browsers pair, create and turn off profiles, part and pair again.
CONSTANTS
  phone = phone
  laptop = laptop
  Device = {phone, laptop}
  Link = {1, 2}
  Calm = TRUE
  Id = {1, 2, 3}
  Name = {"home", "work"}
  Profiles <- LaptopOnly
  Fresh <- OwnAndWork
  MaxChanges = 4
SPECIFICATION Spec
INVARIANTS VetoIsFinal RestAgrees
PROPERTY Settles
CHECK_DEADLOCK FALSE
