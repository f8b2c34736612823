------------------------------ MODULE ReportLog ------------------------------
(***************************************************************************)
(* What a buffered report control block promises, without the ring: a log  *)
(* of at most Capacity reports, numbered one after the other, read through *)
(* a cursor.  Reports behind the cursor were delivered and stay for        *)
(* replay.  When the log is full the oldest report makes room; if it had   *)
(* not been delivered, the loss is recorded in gap and marked on the       *)
(* report that caused it.                                                  *)
(***************************************************************************)
EXTENDS Naturals, Sequences

CONSTANTS Capacity, Report, Succ(_)   \* Succ(n): the report number after n
VARIABLES log, cursor, gap

logVars == <<log, cursor, gap>>

Init == log = <<>> /\ cursor = 0 /\ gap = FALSE

\* A report continues the numbering of the log it is added to.
Continues(r) == log # <<>> => r.entry = Succ(log[Len(log)].entry)

Add(r) ==
  /\ Len(log) < Capacity
  /\ Continues(r) /\ ~r.overflow
  /\ log' = Append(log, r)
  /\ UNCHANGED <<cursor, gap>>

Displace(r) ==
  /\ Len(log) = Capacity
  /\ Continues(r)
  /\ r.overflow = (cursor = 0)
  /\ log' = Append(Tail(log), r)
  /\ cursor' = IF cursor = 0 THEN 0 ELSE cursor - 1
  /\ gap' = (gap \/ cursor = 0)

\* Delivery moves the cursor forward, replay and resume move it anywhere.
Move(k) ==
  /\ cursor' = k
  /\ UNCHANGED <<log, gap>>

Purge == log' = <<>> /\ cursor' = 0 /\ gap' = FALSE

Next ==
  \/ \E r \in Report : Add(r) \/ Displace(r)
  \/ \E k \in 0..Len(log) : Move(k)
  \/ Purge

LogSpec == Init /\ [][Next]_logVars

=============================================================================
