--------------------------- MODULE MCSboSelection ---------------------------
(* Small instances of SboSelection for TLC.                                *)
EXTENDS SboSelection, TLC

AssociationSymmetry == Permutations(Associations)
=============================================================================
