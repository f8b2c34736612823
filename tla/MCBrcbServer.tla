----------------------------- MODULE MCBrcbServer -----------------------------
(* Small instances of BrcbServer for TLC.  Reports of size 2 fit only the  *)
(* first slot, and only the association of B can frame them: events may be *)
(* so large in the one instance, interrogations are in the other.          *)
EXTENDS BrcbServer, TLC

CONSTANTS a1, b1, A, B

TwoOwners == (a1 :> A) @@ (b1 :> B)
Limits == (a1 :> 1) @@ (b1 :> 2)
UnequalSlots == (0 :> 2) @@ (1 :> 1)
OneSlot == (0 :> 2)
Sizes == ("event" :> {1}) @@ ("integrity" :> {1}) @@ ("general_interrogation" :> {2})
EventSizes == ("event" :> {1, 2}) @@ ("integrity" :> {}) @@ ("general_interrogation" :> {})
EventOnly == {{"data_change"}}
AllTriggers == {{"data_change", "general_interrogation", "integrity"}}
=============================================================================
