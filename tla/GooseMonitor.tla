---------------------------- MODULE GooseMonitor ----------------------------
(***************************************************************************)
(* One slot of the GOOSE monitor (GooseMonitorController.cpp) and the      *)
(* GooseSubscriberSupervisor in it: every frame of the stream that arrives *)
(* is classified against the one before, becomes the new baseline, and     *)
(* sets the deadline by which the next one must come.                      *)
(*                                                                         *)
(* The deadline is kept as the milliseconds left.  The monitor configures  *)
(* no expected identity and one stream keeps its ConfRev, so neither check *)
(* can fail here.  Of the counters only the two of expiries are kept,      *)
(* modulo CountMod.                                                        *)
(***************************************************************************)
EXTENDS Integers

CONSTANTS StMax, SqMax, CountMod, None

VARIABLES
  capturing,
  slot,              \* None, or the slot and its supervisor
  expiration_count,  \* statistics_.expiration_count of the supervisor
  timeout_count      \* timeoutCount_ of the controller

MonitorInit ==
  /\ capturing = TRUE
  /\ slot = None
  /\ expiration_count = 0 /\ timeout_count = 0

Count(counter, happens) == IF happens THEN (counter + 1) % CountMod ELSE counter

-----------------------------------------------------------------------------
(* GooseSubscriberSupervisor.                                              *)

\* Mutant: any larger number is the next state.
BugClassify(st, sq) ==
  IF slot = None THEN "first"
  ELSE IF st # slot.state_number
    THEN IF st > slot.state_number THEN "state_change" ELSE "state_regression"
  ELSE IF sq = slot.sequence_number THEN "duplicate" ELSE "retransmission"

Classify(st, sq) ==
  LET previous == slot.state_number
      delta == (sq - slot.sequence_number) % (SqMax + 1)
  IN  CASE slot = None -> "first"
        [] slot # None /\ st # previous ->
             IF st = (IF previous = StMax THEN 1 ELSE previous + 1) THEN "state_change"
             ELSE IF IF previous = StMax THEN st > 1 ELSE st > previous
               THEN "state_jump"
             ELSE "state_regression"
        [] slot # None /\ st = previous ->
             CASE delta = 0 -> "duplicate"
               [] delta = 1 -> "retransmission"
               [] delta > 1 /\ delta < (SqMax + 1) \div 2 -> "sequence_gap"
               [] OTHER -> "sequence_regression"

\* expires_at_ has been reached.
Expired == slot # None /\ slot.expires # None /\ slot.expires <= 0

\* What observe() finds wrong with a frame, and the monitor then marks.  A new
\* state has to begin at sqNum 0, and within one state the values stay.
Anomalous(f) ==
  LET status == Classify(f.state_number, f.sequence_number) IN
  \/ status \in {"duplicate", "sequence_gap", "sequence_regression",
                 "state_jump", "state_regression"}
  \/ status = "state_change" /\ f.sequence_number # 0
  \/ slot # None /\ f.state_number = slot.state_number /\ f.values # slot.values
  \/ Expired

-----------------------------------------------------------------------------
(* GooseMonitorController.                                                 *)

\* A frame that comes too late, and before the timer has noticed, is a timeout
\* too.  Mutant: also after the timer has counted it.
BugNewTimeout == Expired
NewTimeout == Expired /\ ~slot.timedOut

\* ingestFrameInternal(), observe() included.
Ingest(f) ==
  /\ capturing
  /\ expiration_count' = Count(expiration_count, Expired /\ ~slot.expiry_reported)
  /\ timeout_count' = Count(timeout_count, NewTimeout)
  /\ slot' =
       [state_number |-> f.state_number, sequence_number |-> f.sequence_number,
        values |-> f.values,
        expires |-> IF f.time_to_live = 0 THEN None ELSE f.time_to_live,
        expiry_reported |-> FALSE, timedOut |-> FALSE,
        anomaly |-> Anomalous(f),
        session |-> f.session, epoch |-> f.epoch]
  /\ UNCHANGED capturing

\* checkTimeoutsAt(), run by the capture timer.
\* Mutant: a stream that shows an anomaly already is passed over.
BugCheckTimeouts ==
  /\ capturing /\ Expired /\ ~slot.expiry_reported /\ ~slot.anomaly
  /\ slot' = [slot EXCEPT !.expiry_reported = TRUE, !.timedOut = TRUE, !.anomaly = TRUE]
  /\ expiration_count' = Count(expiration_count, TRUE)
  /\ timeout_count' = Count(timeout_count, TRUE)
  /\ UNCHANGED capturing

CheckTimeouts ==
  /\ capturing /\ Expired /\ ~slot.expiry_reported
  /\ slot' = [slot EXCEPT !.expiry_reported = TRUE, !.timedOut = TRUE, !.anomaly = TRUE]
  /\ expiration_count' = Count(expiration_count, TRUE)
  /\ timeout_count' = Count(timeout_count, TRUE)
  /\ UNCHANGED capturing

\* clear() drops the slot and, with it, its supervisor.
Clear ==
  /\ slot # None
  /\ slot' = None
  /\ expiration_count' = 0 /\ timeout_count' = 0
  /\ UNCHANGED capturing

\* stopCapture() keeps the slots, and with them the supervisors.
StopCapture ==
  /\ capturing /\ capturing' = FALSE
  /\ UNCHANGED <<slot, expiration_count, timeout_count>>

StartCapture ==
  /\ ~capturing /\ capturing' = TRUE
  /\ UNCHANGED <<slot, expiration_count, timeout_count>>

MonitorTicks ==
  /\ slot' = IF slot # None /\ slot.expires # None /\ slot.expires > 0
               THEN [slot EXCEPT !.expires = @ - 1] ELSE slot
  /\ UNCHANGED <<capturing, expiration_count, timeout_count>>

-----------------------------------------------------------------------------
(* Properties.                                                             *)

\* Every expiry is counted exactly once by the controller, whether the timer
\* or the next frame finds it first: its counter and the supervisor's, each
\* with a flag of its own, agree.
ExpiryCountedOnce == timeout_count = expiration_count

=============================================================================
