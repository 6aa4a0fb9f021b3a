------------------------------ MODULE MCLinks ------------------------------
(* Two browsers for TLC.  The phone gets a profile of the same name as that *)
(* of the laptop, under an id of its own, and another one.                 *)
EXTENDS ProfileLinks, TLC

CONSTANTS phone, laptop

Home(i) == [id |-> i, name |-> "home"]
LaptopOnly == (phone :> {{}}) @@ (laptop :> {{Home(2)}})
Shared == (phone :> {{Home(1)}}) @@ (laptop :> {{Home(1)}})
NoneNew == (phone :> {}) @@ (laptop :> {})
Work == [id |-> 3, name |-> "work"]
OwnAndWork == (phone :> {Home(1), Work}) @@ (laptop :> {Home(2)})
=============================================================================
