---------------------------- MODULE MCBrcbRuntime ----------------------------
(* A small instance of BrcbRuntime for TLC: a ring of two slots whose      *)
(* counters wrap, under a scheduler with all three causes of a report, of  *)
(* which the periodic one only fits the first slot.                        *)
EXTENDS BrcbRuntime, TLC

ScheduleTriggers ==
  {{}, {"data_change", "general_interrogation", "integrity"}}
UnequalSlots == (0 :> 2) @@ (1 :> 1)
Sizes == ("event" :> {1}) @@ ("integrity" :> {2}) @@ ("general_interrogation" :> {1})
DataSymmetry == Permutations(Members) \cup Permutations(OptionalSettings)
=============================================================================
