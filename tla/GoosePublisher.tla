--------------------------- MODULE GoosePublisher ---------------------------
(***************************************************************************)
(* GOOSE publication in the IED simulator: the commissioning model         *)
(* (IedGoosePublication.cpp) keeps one GoosePublisherRuntime per active    *)
(* stream.  Value notifications are collapsed to one dirty flag; a timer   *)
(* turns it into state changes and retransmits what is due.  Any error     *)
(* stops every stream.                                                     *)
(*                                                                         *)
(* Everything runs on the Qt event loop, so one slot call is one action.   *)
(* A deadline is kept as the milliseconds left until it.  The points of    *)
(* the data sets are one value, which all streams carry.  Only the frames  *)
(* of one stream are followed: the monitor keeps every stream in a slot of *)
(* its own.  session and epoch number a frame's runtime and its state;     *)
(* they are not on the wire and only the properties read them.             *)
(***************************************************************************)
EXTENDS Integers, FiniteSets

CONSTANTS
  Streams, Watched,    \* configured GSEControls, and the one that is followed
  Values, Initial,     \* what the data sets may hold, and do at first
  Unrepresentable,     \* the one of them that has no MMS encoding
  MinTime, MaxTime,    \* the SCL retransmission times
  DefaultMinTime, DefaultMaxTime, \* used for a time of 0
  IntMax,              \* numeric_limits<int>::max()
  StMax, SqMax,        \* largest stNum and sqNum
  InitialState,        \* initial_state_number of a session
  Capacity,            \* kGoosePublisherCapacity
  PollJitter,          \* how late the timer may serve a deadline
  ChangesMax, StartsMax, \* bounds on value changes and on starts
  None

VARIABLES
  runtime,    \* stream -> its publisher runtime, None without a slot
  source,     \* the values in the point store
  dirty,      \* gooseValuesDirty_
  changes, starts, \* the bounded counts
  wire        \* frames of the watched stream on the network

publisherVars == <<runtime, source, dirty, changes, starts>>

UIntMax == 2 * IntMax + 1
AtMost(a, b) == IF a <= b THEN a ELSE b
AtLeast(a, b) == IF a >= b THEN a ELSE b

ASSUME PublisherAssumption ==
  /\ Watched \in Streams /\ Unrepresentable \in Values
  /\ Initial \in Values \ {Unrepresentable}
  /\ IntMax \in Nat \ {0}
  /\ MinTime \in 0..UIntMax /\ MaxTime \in 0..UIntMax
  /\ DefaultMinTime \in 1..IntMax /\ DefaultMaxTime \in 1..IntMax
  /\ StMax \in Nat \ {0} /\ SqMax \in Nat /\ InitialState \in 0..StMax
  /\ Capacity \in Nat /\ PollJitter \in Nat
  /\ ChangesMax \in Nat /\ StartsMax \in Nat

-----------------------------------------------------------------------------
(* RetransmissionSchedule.                                                 *)

MinDelay == IF MinTime = 0 THEN DefaultMinTime ELSE AtMost(MinTime, IntMax)
MaxDelay ==
  AtLeast(MinDelay, IF MaxTime = 0 THEN DefaultMaxTime ELSE AtMost(MaxTime, IntMax))

\* The delay after delay d.
NextDelay(d) == IF d >= MaxDelay \div 2 THEN MaxDelay ELSE AtMost(MaxDelay, 2 * d)

-----------------------------------------------------------------------------
(* GoosePublisherSession and GoosePublisherRuntime.                        *)

NextState(st) == IF st = StMax THEN 1 ELSE st + 1
NextSequence(sq) == IF sq = SqMax THEN 0 ELSE sq + 1

TimeToLive(delay) ==
  AtLeast(1, IF delay > UIntMax \div 2 THEN UIntMax ELSE 2 * delay)

\* Mutants: the frame lives as long as the delay, or a millisecond longer.
BugPrepared(rt) ==
  [rt EXCEPT !.next_delay = NextDelay(@),
             !.time_to_live = AtLeast(1, rt.next_delay),
             !.next_due = AtLeast(1, rt.next_delay)]
BugPreparedTight(rt) ==
  [rt EXCEPT !.next_delay = NextDelay(@),
             !.time_to_live = AtLeast(1, rt.next_delay) + 1,
             !.next_due = AtLeast(1, rt.next_delay)]

\* prepare_next_delay() and schedule_next().
Prepared(rt) ==
  LET delay == AtLeast(1, rt.next_delay) IN
  [rt EXCEPT !.next_delay = NextDelay(@),
             !.time_to_live = TimeToLive(delay),
             !.next_due = delay]

\* emit_publication(): the frame, and the session after it.
Frame(rt) ==
  [state_number |-> rt.state_number, sequence_number |-> rt.sequence_number,
   values |-> rt.values, time_to_live |-> rt.time_to_live,
   session |-> rt.session, epoch |-> rt.epoch]
Emitted(rt) == [rt EXCEPT !.sequence_number = NextSequence(@)]

\* The runtime of a new slot, about to emit its first frame.
Started(s) ==
  Prepared([next_delay |-> MinDelay, time_to_live |-> 0, next_due |-> 0,
            state_number |-> AtLeast(1, InitialState), sequence_number |-> 0,
            values |-> source, session |-> starts, epoch |-> 0])

\* state_change(), about to emit the first frame of the new state.
StateChanged(s) ==
  Prepared([runtime[s] EXCEPT !.next_delay = MinDelay,
                              !.state_number = NextState(@),
                              !.sequence_number = 0,
                              !.values = source,
                              !.epoch = @ + 1])

-----------------------------------------------------------------------------
(* The commissioning model.                                                *)

Active == {s \in Streams : runtime[s] # None}

PublisherInit ==
  /\ runtime = [s \in Streams |-> None]
  /\ source = Initial
  /\ dirty = FALSE
  /\ changes = 0 /\ starts = 0
  /\ wire = {}

\* The frames handed to the raw transport; those of the watched stream are
\* followed.
Transmit(ready, sent) ==
  wire' = wire \cup
    {[frame |-> Frame(ready[s]), age |-> 0, held |-> FALSE] : s \in sent \cap {Watched}}

\* failGoosePublication() and stopAllGoosePublication().
StopEverything ==
  /\ runtime' = [s \in Streams |-> None]
  /\ dirty' = FALSE

\* A write to the point store; markGooseValuesDirty().
ValueChange(v) ==
  /\ changes < ChangesMax /\ v # source
  /\ changes' = changes + 1
  /\ source' = v
  /\ dirty' = (dirty \/ Active # {})
  /\ UNCHANGED <<runtime, starts, wire>>

\* startSelectedGoosePublication().  Starting one stream more than there are
\* slots, or a transmit error, stops the others too; values that cannot be
\* encoded only refuse the start.
StartRefused(s) ==
  /\ runtime[s] = None /\ Cardinality(Active) >= Capacity
  /\ StopEverything
  /\ UNCHANGED <<source, changes, starts, wire>>

Start(s) ==
  /\ runtime[s] = None /\ Cardinality(Active) < Capacity
  /\ source # Unrepresentable
  /\ starts < StartsMax
  /\ starts' = starts + 1
  /\ LET ready == [runtime EXCEPT ![s] = Started(s)] IN
       \/ /\ runtime' = [runtime EXCEPT ![s] = Emitted(ready[s])]
          /\ dirty' = FALSE
          /\ Transmit(ready, {s})
       \/ StopEverything /\ UNCHANGED wire
  /\ UNCHANGED <<source, changes>>

StopSelected(s) ==
  /\ runtime[s] # None
  /\ runtime' = [runtime EXCEPT ![s] = None]
  /\ dirty' = (dirty /\ Active # {s})
  /\ UNCHANGED <<source, changes, starts, wire>>

\* pruneGoosePublishers(): the simulated IED was stopped or deselected.
Prune ==
  /\ Active # {}
  /\ StopEverything
  /\ UNCHANGED <<source, changes, starts, wire>>

Changed == IF dirty THEN {s \in Active : source # runtime[s].values} ELSE {}
Due == {s \in Active \ Changed : runtime[s].next_due <= 0}
Encodable == dirty => source # Unrepresentable

\* What the timer has to send, ready to be emitted.
Ready == [s \in Streams |-> IF s \in Changed THEN StateChanged(s)
                            ELSE IF s \in Due THEN Prepared(runtime[s])
                            ELSE runtime[s]]

\* Mutant: what is due is prepared again, but only new states are sent.
BugAdvance ==
  /\ Active # {} /\ Encodable
  /\ runtime' = [s \in Streams |-> IF s \in Changed \cup Due THEN Emitted(Ready[s])
                                   ELSE runtime[s]]
  /\ dirty' = FALSE
  /\ Transmit(Ready, Changed)
  /\ UNCHANGED <<source, changes, starts>>

\* advanceGoosePublication().
Advance ==
  /\ Active # {} /\ Encodable
  /\ runtime' = [s \in Streams |-> IF s \in Changed \cup Due THEN Emitted(Ready[s])
                                   ELSE runtime[s]]
  /\ dirty' = FALSE
  /\ Transmit(Ready, Changed \cup Due)
  /\ UNCHANGED <<source, changes, starts>>

\* The same call when the values have no encoding or the transport refuses a
\* frame: the slots served before that one have sent theirs, the changed ones
\* before the due ones.
AdvanceFails ==
  /\ Active # {}
  /\ \/ ~Encodable /\ UNCHANGED wire
     \/ /\ Encodable
        /\ \E sent \in SUBSET (Changed \cup Due) :
             /\ sent # Changed \cup Due
             /\ sent \cap Due # {} => Changed \subseteq sent
             /\ Transmit(Ready, sent)
  /\ StopEverything
  /\ UNCHANGED <<source, changes, starts>>

Publishing ==
  \/ \E v \in Values : ValueChange(v)
  \/ \E s \in Streams : StartRefused(s) \/ Start(s) \/ StopSelected(s)
  \/ Prune \/ Advance \/ AdvanceFails

\* A millisecond may pass as long as no deadline is PollJitter overdue.
PublisherTicks ==
  /\ \A s \in Active : runtime[s].next_due > -PollJitter
  /\ runtime' = [s \in Streams |-> IF s \in Active
                                     THEN [runtime[s] EXCEPT !.next_due = @ - 1]
                                     ELSE None]
  /\ UNCHANGED <<source, dirty, changes, starts>>

-----------------------------------------------------------------------------
(* Properties.                                                             *)

\* "each emitted frame advertises a validity window ahead of its scheduled
\* retransmission": while a stream is published, its next frame is due before
\* the last one ceases to be valid, and the advertised time fits its 32 bits.
ValidityAhead ==
  \A s \in Active : /\ runtime[s].next_due < runtime[s].time_to_live
                    /\ runtime[s].time_to_live \in 1..UIntMax

\* "value notifications are collapsed to a dirty flag": with no notification
\* pending, every stream has published what its data set holds.
NotificationsCollapsed ==
  dirty \/ \A s \in Active : runtime[s].values = source

=============================================================================
