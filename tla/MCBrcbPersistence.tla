-------------------------- MODULE MCBrcbPersistence --------------------------
(* A small instance of BrcbPersistence for TLC: two slots of different     *)
(* sizes, so that a report may not fit the slot it is restored to.         *)
EXTENDS BrcbPersistence, TLC

EventOnly == {{"data_change"}}
UnequalSlots == (0 :> 2) @@ (1 :> 1)
EventSizes == ("event" :> {1, 2}) @@ ("integrity" :> {1}) @@ ("general_interrogation" :> {1})
=============================================================================
