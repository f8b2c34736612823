---------------------------- MODULE MCControlLink ----------------------------
(* Small instance of ControlLink for TLC.                                  *)
EXTENDS ControlLink, TLC

ValueSymmetry == Permutations(Values)
=============================================================================
