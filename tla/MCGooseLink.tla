---- MODULE MCGooseLink ----
(* A small publisher, network and monitor.  stNum starts just before its   *)
(* wrap, sqNum wraps after four frames.  A unit of time is the period of   *)
(* the publishing timer, which may serve a deadline one unit late.         *)
EXTENDS GooseLink
=============================================================================
