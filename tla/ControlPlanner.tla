--------------------------- MODULE ControlPlanner ---------------------------
(***************************************************************************)
(* The client's guarded control planner (guarded_control.cpp): which       *)
(* control action the session may send next.  A sequence stands for the    *)
(* fields a selection is fingerprinted by, the control value and the       *)
(* control number; origin, checks and time stamps are the same for all     *)
(* calls here.  The session serves one association and always passes the   *)
(* time 0, so owner and expiry of the planner's selection play no role:    *)
(* the session keeps the selection timeout itself.                         *)
(*                                                                         *)
(* A decision is split into what it needs, as in OperatePlanned, and the   *)
(* planner state it leaves, as in OperateLeaves.  ok is the answer of the  *)
(* authorization callback.                                                 *)
(***************************************************************************)
EXTENDS Integers

CONSTANTS None

VARIABLES
  model,    \* the object's ctlModel, found by discovery
  planner   \* [selected, waiting, sequence]

Models == {"direct_normal", "sbo_normal", "direct_enhanced", "sbo_enhanced"}

RequiresSelect == model \in {"sbo_normal", "sbo_enhanced"}
IsEnhanced == model \in {"direct_enhanced", "sbo_enhanced"}

\* clear_active, and on_association_closed for the planner's own association
ClearedPlanner == [selected |-> FALSE, waiting |-> FALSE, sequence |-> None]

\* select and select_with_value
SelectPlanned(ok) == ~planner.waiting /\ ~planner.selected /\ ok
SelectLeaves(sequence) == [selected |-> TRUE, waiting |-> FALSE, sequence |-> sequence]

\* Mutant: the operated sequence is not compared with the selected one.
BugSequenceMatches(sequence) == TRUE
SequenceMatches(sequence) == planner.sequence = sequence

OperatePlanned(sequence, ok) ==
  /\ ~planner.waiting
  /\ RequiresSelect => planner.selected /\ SequenceMatches(sequence)
  /\ ok

\* A refused Operate gives the selection up when it was held.
OperateLeaves(sequence, ok) ==
  IF OperatePlanned(sequence, ok)
  THEN IF IsEnhanced
       THEN [selected |-> FALSE, waiting |-> TRUE, sequence |-> sequence]
       ELSE ClearedPlanner
  ELSE IF RequiresSelect /\ planner.selected /\ ~planner.waiting
       THEN ClearedPlanner
       ELSE planner

CancelPlanned(ok) == RequiresSelect /\ planner.selected /\ ok
=============================================================================
