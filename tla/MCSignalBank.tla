---------------------------- MODULE MCSignalBank ----------------------------
(* A small instance of SignalBank for TLC: the publisher task and a         *)
(* diagnostic task as readers, the four banks of the source.                *)
EXTENDS SignalBank, TLC

ReaderSymmetry == Permutations(Readers) \cup Permutations(Fields)
=============================================================================
