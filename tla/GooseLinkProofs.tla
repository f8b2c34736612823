--------------------------- MODULE GooseLinkProofs --------------------------
(***************************************************************************)
(* The time a GOOSE frame is advertised to live covers its retransmission, *)
(* for every configured MinTime and MaxTime, every width of int, any       *)
(* number of streams and whatever the network does.                        *)
(*                                                                         *)
(* The argument: the delays of the schedule stay between 1 and IntMax (the *)
(* doubling never leaves int), so twice a delay fits the unsigned time to  *)
(* live and exceeds the delay; a deadline starts at the delay and only     *)
(* comes closer.                                                           *)
(*                                                                         *)
(* The monitor counts every expiry once, because the flag of the slot and  *)
(* the flag of its supervisor are set and reset together.                  *)
(*                                                                         *)
(* Without faults of the network a frame, or its successor, reaches the    *)
(* monitor before the deadline the last one set (Quiet), so no timeout is  *)
(* reported.  The number of a state tells how many changes it is away from *)
(* any other as long as stNum does not go once round (Numbered): a monitor *)
(* that skipped one sees a gap.                                            *)
(***************************************************************************)
EXTENDS GooseLink, TLAPS

\* A runtime, but for the two members prepare_next_delay() is about to set.
Unprepared ==
  [next_delay : 1..IntMax, time_to_live : Int, next_due : Int,
   state_number : 1..StMax, sequence_number : 0..SqMax, values : Values,
   session : Nat, epoch : Nat]

\* A runtime whose next frame is due before its last one ceases to be valid.
OnTime(rt) ==
  rt \in Unprepared /\ rt.time_to_live \in 1..UIntMax /\ rt.next_due < rt.time_to_live

ScheduleInv ==
  /\ DOMAIN runtime = Streams
  /\ runtime = [s \in Streams |-> runtime[s]]
  /\ \A s \in Streams : runtime[s] = None \/ OnTime(runtime[s])
  /\ source \in Values /\ starts \in Nat

-----------------------------------------------------------------------------
\* The schedule starts, and stays, within int (normalize_min_time(),
\* normalize_max_time(), next_delay_milliseconds()).
LEMMA DelaysInRange ==
  /\ MinDelay \in 1..IntMax
  /\ \A d \in 1..IntMax : NextDelay(d) \in 1..IntMax
<1> USE PublisherAssumption
<1>1. MinDelay \in 1..IntMax
  BY DEF MinDelay, AtMost, UIntMax
<1>2. MaxDelay \in 1..IntMax
  BY <1>1 DEF MaxDelay, AtMost, AtLeast, UIntMax
<1>3. \A d \in 1..IntMax : NextDelay(d) \in 1..IntMax
  BY <1>2 DEF NextDelay, AtMost
<1> QED
  BY <1>1, <1>3

\* prepare_next_delay() doubles the delay without leaving the unsigned range.
LEMMA LivesLonger ==
  ASSUME NEW d \in 1..IntMax
  PROVE  TimeToLive(d) \in 1..UIntMax /\ d < TimeToLive(d)
BY PublisherAssumption DEF TimeToLive, AtLeast, UIntMax

\* A prepared runtime is on time.
LEMMA PreparedOnTime ==
  ASSUME NEW rt \in Unprepared
  PROVE  OnTime(Prepared(rt))
<1>1. rt.next_delay \in 1..IntMax /\ AtLeast(1, rt.next_delay) = rt.next_delay
  BY PublisherAssumption DEF Unprepared, AtLeast
<1>2. PICK d \in 1..IntMax : d = rt.next_delay
  BY <1>1
<1>3. Prepared(rt) = [rt EXCEPT !.next_delay = NextDelay(d),
                                !.time_to_live = TimeToLive(d), !.next_due = d]
  BY <1>1, <1>2 DEF Prepared
<1>4. /\ NextDelay(d) \in 1..IntMax /\ d \in Int
      /\ TimeToLive(d) \in 1..UIntMax /\ TimeToLive(d) \in Int /\ d < TimeToLive(d)
  BY DelaysInRange, LivesLonger, PublisherAssumption DEF UIntMax
<1> HIDE DEF UIntMax
<1>5. Prepared(rt) \in Unprepared
  BY <1>3, <1>4 DEF Unprepared
<1>6. Prepared(rt).time_to_live = TimeToLive(d) /\ Prepared(rt).next_due = d
  BY <1>3 DEF Unprepared
<1> QED
  BY <1>4, <1>5, <1>6 DEF OnTime

\* Emitting a frame only moves sqNum.
LEMMA EmittedOnTime ==
  ASSUME NEW rt, OnTime(rt)
  PROVE  OnTime(Emitted(rt))
<1>1. NextSequence(rt.sequence_number) \in 0..SqMax
  BY PublisherAssumption DEF OnTime, Unprepared, NextSequence
<1>2. Emitted(rt) \in Unprepared
  BY <1>1 DEF OnTime, Unprepared, Emitted
<1>3. Emitted(rt).time_to_live = rt.time_to_live /\ Emitted(rt).next_due = rt.next_due
  BY DEF OnTime, Unprepared, Emitted
<1> QED
  BY <1>2, <1>3 DEF OnTime

\* start() and state_change() prepare a runtime that is on time.
LEMMA StartedOnTime ==
  ASSUME ScheduleInv, NEW s \in Streams
  PROVE  /\ OnTime(Started(s))
         /\ runtime[s] # None => OnTime(StateChanged(s)) /\ OnTime(Prepared(runtime[s]))
<1>1. OnTime(Started(s))
  <2>1. AtLeast(1, InitialState) \in 1..StMax
    BY PublisherAssumption DEF AtLeast
  <2>2. [next_delay |-> MinDelay, time_to_live |-> 0, next_due |-> 0,
         state_number |-> AtLeast(1, InitialState), sequence_number |-> 0,
         values |-> source, session |-> starts, epoch |-> 0] \in Unprepared
    BY <2>1, DelaysInRange, PublisherAssumption DEF Unprepared, ScheduleInv
  <2> QED
    BY <2>2, PreparedOnTime DEF Started
<1>2. ASSUME runtime[s] # None
      PROVE  OnTime(StateChanged(s)) /\ OnTime(Prepared(runtime[s]))
  <2>1. PICK rt \in Unprepared : rt = runtime[s]
    BY <1>2 DEF ScheduleInv, OnTime
  <2>2. NextState(rt.state_number) \in 1..StMax /\ rt.epoch + 1 \in Nat
    BY PublisherAssumption DEF Unprepared, NextState
  <2>3. [rt EXCEPT !.next_delay = MinDelay, !.state_number = NextState(@),
                   !.sequence_number = 0, !.values = source, !.epoch = @ + 1] \in Unprepared
    <3>1. MinDelay \in 1..IntMax /\ 0 \in 0..SqMax /\ source \in Values
      BY DelaysInRange, PublisherAssumption DEF ScheduleInv
    <3> QED
      BY <2>2, <3>1 DEF Unprepared
  <2>4. OnTime(StateChanged(s))
    BY <2>1, <2>3, PreparedOnTime DEF StateChanged
  <2> QED
    BY <2>1, <2>4, PreparedOnTime
<1> QED
  BY <1>1, <1>2

-----------------------------------------------------------------------------
(* The steps.                                                              *)

\* Whatever the commissioning model does keeps every stream on time.
LEMMA PublishingKeepsSchedule ==
  ASSUME ScheduleInv, Publishing
  PROVE  ScheduleInv'
<1>1. ASSUME NEW v \in Values, ValueChange(v) PROVE ScheduleInv'
  BY <1>1 DEF ValueChange, ScheduleInv
<1>2. ASSUME StopEverything, UNCHANGED <<source, starts>> PROVE ScheduleInv'
  BY <1>2 DEF StopEverything, ScheduleInv
<1>3. ASSUME NEW s \in Streams, StartRefused(s) PROVE ScheduleInv'
  BY <1>2, <1>3 DEF StartRefused
<1>4. ASSUME NEW s \in Streams, Start(s) PROVE ScheduleInv'
  <2>1. starts' \in Nat /\ source' \in Values
    BY <1>4 DEF Start, ScheduleInv
  <2>2. CASE runtime' = [runtime EXCEPT ![s] = Emitted(Started(s))]
    <3>1. OnTime(Emitted(Started(s)))
      BY StartedOnTime, EmittedOnTime
    <3> QED
      BY <2>1, <2>2, <3>1 DEF ScheduleInv
  <2>3. CASE StopEverything
    BY <2>1, <2>3 DEF StopEverything, ScheduleInv
  <2>4. [runtime EXCEPT ![s] = Started(s)][s] = Started(s)
    BY DEF ScheduleInv
  <2> QED
    BY <1>4, <2>2, <2>3, <2>4 DEF Start
<1>5. ASSUME NEW s \in Streams, StopSelected(s) PROVE ScheduleInv'
  BY <1>5 DEF StopSelected, ScheduleInv
<1>6. CASE Prune
  BY <1>2, <1>6 DEF Prune
<1>7. CASE Advance
  <2>1. \A s \in Changed \cup Due : s \in Streams /\ runtime[s] # None
    BY DEF Changed, Due, Active
  <2>2. \A s \in Changed \cup Due : OnTime(Ready[s])
    BY <2>1, StartedOnTime DEF Ready
  <2>3. \A s \in Changed \cup Due : OnTime(Emitted(Ready[s]))
    BY <2>2, EmittedOnTime
  <2>4. /\ runtime' = [s \in Streams |-> IF s \in Changed \cup Due THEN Emitted(Ready[s])
                                         ELSE runtime[s]]
        /\ source' = source /\ starts' = starts
    BY <1>7 DEF Advance
  <2> QED
    BY <2>3, <2>4 DEF ScheduleInv
<1>8. CASE AdvanceFails
  BY <1>2, <1>8 DEF AdvanceFails
<1> QED
  BY <1>1, <1>3, <1>4, <1>5, <1>6, <1>7, <1>8 DEF Publishing

\* A millisecond only brings the deadlines closer.
LEMMA TickKeepsSchedule ==
  ASSUME ScheduleInv, PublisherTicks
  PROVE  ScheduleInv'
<1>1. \A rt : OnTime(rt) => OnTime([rt EXCEPT !.next_due = @ - 1])
  <2> SUFFICES ASSUME NEW rt, OnTime(rt) PROVE OnTime([rt EXCEPT !.next_due = @ - 1])
    OBVIOUS
  <2>1. rt \in Unprepared /\ rt.next_due - 1 \in Int
    BY DEF OnTime, Unprepared
  <2>2. [rt EXCEPT !.next_due = @ - 1] \in Unprepared
    BY <2>1 DEF Unprepared
  <2>3. /\ [rt EXCEPT !.next_due = @ - 1].next_due = rt.next_due - 1
        /\ [rt EXCEPT !.next_due = @ - 1].time_to_live = rt.time_to_live
    BY <2>1 DEF Unprepared
  <2>4. rt.next_due \in Int /\ rt.time_to_live \in Int
    BY <2>1 DEF Unprepared
  <2> QED
    BY <2>2, <2>3, <2>4 DEF OnTime
<1>2. \A s \in Streams : runtime'[s] = None \/ OnTime(runtime'[s])
  BY <1>1 DEF PublisherTicks, ScheduleInv, Active
<1> QED
  BY <1>2 DEF PublisherTicks, ScheduleInv

\* The timeAllowedToLive of every frame is ahead of its retransmission
\* (ValidityAhead), in every behaviour of publisher, network and monitor and
\* for every retransmission time the SCL file may ask for.
THEOREM ValidityAlwaysAhead == LinkSpec => []ValidityAhead
<1>1. LinkInit => ScheduleInv
  BY PublisherAssumption DEF LinkInit, PublisherInit, ScheduleInv
<1>2. ScheduleInv /\ [LinkNext]_linkVars => ScheduleInv'
  <2> SUFFICES ASSUME ScheduleInv, [LinkNext]_linkVars PROVE ScheduleInv'
    OBVIOUS
  <2>1. CASE UNCHANGED publisherVars
    BY <2>1 DEF publisherVars, ScheduleInv
  <2>2. CASE PublisherStep
    BY <2>2, PublishingKeepsSchedule DEF PublisherStep
  <2>3. CASE Tick
    BY <2>3, TickKeepsSchedule DEF Tick
  <2>4. CASE UNCHANGED linkVars
    BY <2>1, <2>4 DEF linkVars
  <2> QED
    BY <2>1, <2>2, <2>3, <2>4
      DEF LinkNext, Deliver, DeliverTwice, Lose, Hold, UserStep, ExpiryScan
<1>3. ScheduleInv => ValidityAhead
  BY DEF ScheduleInv, ValidityAhead, Active, OnTime
<1> QED
  BY <1>1, <1>2, <1>3, PTL DEF LinkSpec

-----------------------------------------------------------------------------
(* The two counters of expiries.                                           *)

FlagsAgree ==
  /\ timeout_count = expiration_count
  /\ slot # None => slot.timedOut \in BOOLEAN /\ slot.expiry_reported = slot.timedOut

\* What happens to the monitor keeps the flags and the counters together.
LEMMA MonitorKeepsFlags ==
  ASSUME FlagsAgree,
         \/ \E p \in wire : Arrive(p)
         \/ CheckTimeouts \/ Clear \/ StopCapture \/ StartCapture \/ MonitorTicks
  PROVE  FlagsAgree'
<1>1. ASSUME NEW p \in wire, Arrive(p) PROVE FlagsAgree'
  <2>1. CASE Ingest(p.frame)
    <3>1. (Expired /\ ~slot.expiry_reported) = NewTimeout
      BY DEF FlagsAgree, NewTimeout, Expired
    <3>2. timeout_count' = expiration_count'
      BY <2>1, <3>1 DEF FlagsAgree, Ingest
    <3>3. slot'.timedOut = FALSE /\ slot'.expiry_reported = FALSE
      BY <2>1 DEF Ingest
    <3> QED
      BY <3>2, <3>3 DEF FlagsAgree
  <2>2. CASE UNCHANGED monitorVars
    BY <2>2 DEF monitorVars, FlagsAgree
  <2> QED
    BY <1>1, <2>1, <2>2 DEF Arrive
<1>2. CASE CheckTimeouts
  BY <1>2 DEF CheckTimeouts, FlagsAgree, Expired
<1>3. CASE Clear \/ StopCapture \/ StartCapture
  BY <1>3 DEF Clear, StopCapture, StartCapture, FlagsAgree
<1>4. CASE MonitorTicks
  BY <1>4 DEF MonitorTicks, FlagsAgree
<1> QED
  BY <1>1, <1>2, <1>3, <1>4

\* The monitor counts every expiry exactly once (ExpiryCountedOnce), however
\* frames, the expiry scan and the user's commands interleave.
THEOREM ExpiryAlwaysCountedOnce == LinkSpec => []ExpiryCountedOnce
<1>1. LinkInit => FlagsAgree
  BY DEF LinkInit, MonitorInit, FlagsAgree
<1>2. FlagsAgree /\ [LinkNext]_linkVars => FlagsAgree'
  <2> SUFFICES ASSUME FlagsAgree, [LinkNext]_linkVars PROVE FlagsAgree'
    OBVIOUS
  <2>1. CASE UNCHANGED monitorVars
    BY <2>1 DEF monitorVars, FlagsAgree
  <2>2. ASSUME NEW p \in wire, Deliver(p) \/ DeliverTwice(p) PROVE FlagsAgree'
    BY <2>2, MonitorKeepsFlags DEF Deliver, DeliverTwice
  <2>3. CASE UserStep
    BY <2>3, MonitorKeepsFlags DEF UserStep
  <2>4. CASE ExpiryScan
    BY <2>4, MonitorKeepsFlags DEF ExpiryScan
  <2>5. CASE Tick
    BY <2>5, MonitorKeepsFlags DEF Tick
  <2>6. CASE UNCHANGED linkVars
    BY <2>1, <2>6 DEF linkVars
  <2>7. CASE PublisherStep
    BY <2>1, <2>7 DEF PublisherStep, monitorVars
  <2>8. ASSUME NEW p \in wire, Lose(p) \/ Hold(p) PROVE FlagsAgree'
    BY <2>1, <2>8 DEF Lose, Hold, monitorVars
  <2> QED
    BY <2>2, <2>3, <2>4, <2>5, <2>6, <2>7, <2>8 DEF LinkNext
<1>3. FlagsAgree => ExpiryCountedOnce
  BY DEF FlagsAgree, ExpiryCountedOnce
<1> QED
  BY <1>1, <1>2, <1>3, PTL DEF LinkSpec

-----------------------------------------------------------------------------
(* What is on the wire and in the slot of the monitor.                     *)

Frames ==
  [state_number : Int, sequence_number : Int, values : Values,
   time_to_live : 1..UIntMax, session : Nat, epoch : Nat]
Packets == [frame : Frames, age : Int, held : BOOLEAN]
Slots ==
  [state_number : Int, sequence_number : Int, values : Values, expires : Int,
   expiry_reported : BOOLEAN, timedOut : BOOLEAN, anomaly : BOOLEAN,
   session : Nat, epoch : Nat]

\* Everything that is followed was published by a runtime that has started.
LinkTypes ==
  /\ ScheduleInv
  /\ changes \in Nat /\ faults \in Nat
  /\ \A s \in Active : runtime[s].session < starts
  /\ wire \subseteq Packets /\ \A p \in wire : p.frame.session < starts
  /\ slot # None => slot \in Slots /\ slot.session < starts

\* The frame of runtime rt as it is handed to the network.
Packet(rt) == [frame |-> Frame(rt), age |-> 0, held |-> FALSE]

LEMMA PacketTyped ==
  ASSUME NEW rt, OnTime(rt)
  PROVE  /\ Packet(rt) \in Packets
         /\ Packet(rt).age = 0 /\ ~Packet(rt).held
         /\ Packet(rt).frame.session = rt.session
         /\ Packet(rt).frame.epoch = rt.epoch
         /\ Packet(rt).frame.state_number = rt.state_number
         /\ Packet(rt).frame.time_to_live = rt.time_to_live
<1>1. Frame(rt) \in Frames
  <2>1. rt.state_number \in Int /\ rt.sequence_number \in Int
    BY PublisherAssumption DEF OnTime, Unprepared
  <2> QED
    BY <2>1 DEF OnTime, Unprepared, Frame, Frames
<1> QED
  BY <1>1 DEF Packet, Packets, Frame

\* What a step of the commissioning model does to the followed stream: at most
\* one frame is sent, of a runtime that starts, changes state or repeats.
Sends(rt) ==
  /\ wire' = wire \cup {Packet(rt)}
  /\ runtime'[Watched] \in {None, Emitted(rt)}

LEMMA PublishingCases ==
  ASSUME ScheduleInv, Publishing
  PROVE  \/ wire' = wire /\ runtime'[Watched] \in {None, runtime[Watched]}
         \/ starts' = starts + 1 /\ Sends(Started(Watched))
         \/ Watched \in Changed /\ Sends(StateChanged(Watched))
         \/ Watched \in Due /\ Sends(Prepared(runtime[Watched]))
<1> DEFINE Rest == wire' = wire /\ runtime'[Watched] \in {None, runtime[Watched]}
<1> USE PublisherAssumption
<1>1. ASSUME NEW v \in Values, ValueChange(v) PROVE Rest
  BY <1>1 DEF ValueChange
<1>2. ASSUME StopEverything PROVE runtime'[Watched] = None
  BY <1>2 DEF StopEverything
<1>3. ASSUME NEW s \in Streams, StartRefused(s) PROVE Rest
  BY <1>2, <1>3 DEF StartRefused
<1>4. ASSUME NEW s \in Streams, Start(s)
      PROVE  Rest \/ (starts' = starts + 1 /\ Sends(Started(Watched)))
  <2>1. [runtime EXCEPT ![s] = Started(s)][s] = Started(s)
    BY DEF ScheduleInv
  <2>2. ASSUME StopEverything /\ UNCHANGED wire PROVE Rest
    BY <1>2, <2>2
  <2>3. CASE /\ runtime' = [runtime EXCEPT ![s] = Emitted(Started(s))]
             /\ Transmit([runtime EXCEPT ![s] = Started(s)], {s})
    <3>1. CASE s = Watched
      <4>1. wire' = wire \cup {Packet(Started(Watched))}
        BY <2>1, <2>3, <3>1 DEF Transmit, Packet
      <4>2. runtime'[Watched] = Emitted(Started(Watched))
        BY <2>3, <3>1 DEF ScheduleInv
      <4> QED
        BY <1>4, <4>1, <4>2 DEF Start, Sends
    <3>2. ASSUME s # Watched PROVE Rest
      <4>1. wire' = wire
        BY <2>3, <3>2 DEF Transmit
      <4>2. runtime'[Watched] = runtime[Watched]
        BY <2>3, <3>2 DEF ScheduleInv
      <4> QED
        BY <4>1, <4>2
    <3> QED
      BY <3>1, <3>2 DEF Sends
  <2> QED
    BY <1>4, <2>1, <2>2, <2>3 DEF Start, Sends
<1>5. ASSUME NEW s \in Streams, StopSelected(s) PROVE Rest
  BY <1>5 DEF StopSelected, ScheduleInv
<1>6. CASE Prune
  BY <1>2, <1>6 DEF Prune
<1>7. ASSUME NEW sent \in SUBSET (Changed \cup Due), Transmit(Ready, sent)
      PROVE  /\ Watched \notin sent => wire' = wire
             /\ Watched \in sent =>
                  \/ Watched \in Changed /\ wire' = wire \cup {Packet(StateChanged(Watched))}
                  \/ /\ Watched \in Due \ Changed
                     /\ wire' = wire \cup {Packet(Prepared(runtime[Watched]))}
  <2>1. Watched \notin sent => wire' = wire
    BY <1>7 DEF Transmit
  <2>2. Watched \in sent => wire' = wire \cup {Packet(Ready[Watched])}
    BY <1>7 DEF Transmit, Packet
  <2>3. /\ Watched \in Changed => Ready[Watched] = StateChanged(Watched)
        /\ Watched \in Due \ Changed => Ready[Watched] = Prepared(runtime[Watched])
    BY DEF Ready
  <2> QED
    BY <2>1, <2>2, <2>3
<1>8. CASE Advance
  <2>1. Transmit(Ready, Changed \cup Due)
    BY <1>8 DEF Advance
  <2>2. runtime'[Watched] = IF Watched \in Changed \cup Due THEN Emitted(Ready[Watched])
                            ELSE runtime[Watched]
    BY <1>8 DEF Advance
  <2>3. /\ Watched \in Changed => Ready[Watched] = StateChanged(Watched)
        /\ Watched \in Due \ Changed => Ready[Watched] = Prepared(runtime[Watched])
    BY DEF Ready
  <2> QED
    BY <1>7, <2>1, <2>2, <2>3 DEF Sends
<1>9. CASE AdvanceFails
  <2>1. runtime'[Watched] = None
    BY <1>2, <1>9 DEF AdvanceFails
  <2>2. wire' = wire \/ \E sent \in SUBSET (Changed \cup Due) : Transmit(Ready, sent)
    BY <1>9 DEF AdvanceFails
  <2> QED
    BY <1>7, <2>1, <2>2 DEF Sends
<1> QED
  BY <1>1, <1>3, <1>4, <1>5, <1>6, <1>8, <1>9 DEF Publishing

\* What the three kinds of sending runtimes hold.
LEMMA SendersTyped ==
  ASSUME LinkTypes
  PROVE  /\ OnTime(Started(Watched)) /\ Started(Watched).session = starts
         /\ Watched \in Changed =>
              /\ OnTime(StateChanged(Watched))
              /\ StateChanged(Watched).session = runtime[Watched].session
         /\ Watched \in Due =>
              /\ OnTime(Prepared(runtime[Watched]))
              /\ Prepared(runtime[Watched]).session = runtime[Watched].session
         /\ Watched \in Changed \cup Due => Watched \in Active
<1>1. Watched \in Changed \cup Due => Watched \in Active
  BY DEF Changed, Due
<1>2. OnTime(Started(Watched)) /\ Started(Watched).session = starts
  BY PublisherAssumption, StartedOnTime DEF LinkTypes, Started, Prepared
<1>3. ASSUME Watched \in Active
      PROVE  /\ OnTime(StateChanged(Watched)) /\ OnTime(Prepared(runtime[Watched]))
             /\ StateChanged(Watched).session = runtime[Watched].session
             /\ Prepared(runtime[Watched]).session = runtime[Watched].session
  <2>1. runtime[Watched] \in Unprepared
    BY <1>3, PublisherAssumption DEF Active, LinkTypes, ScheduleInv, OnTime
  <2>2. OnTime(StateChanged(Watched)) /\ OnTime(Prepared(runtime[Watched]))
    BY <1>3, PublisherAssumption, StartedOnTime DEF LinkTypes, Active
  <2>3. Prepared(runtime[Watched]).session = runtime[Watched].session
    BY <2>1 DEF Prepared, Unprepared
  <2>4. StateChanged(Watched).session = runtime[Watched].session
    BY <2>1 DEF StateChanged, Prepared, Unprepared
  <2> QED
    BY <2>2, <2>3, <2>4
<1> QED
  BY <1>1, <1>2, <1>3

\* Emitting changes nothing but the sequence number.
LEMMA EmittedSame ==
  ASSUME NEW rt, OnTime(rt)
  PROVE  /\ Emitted(rt).session = rt.session /\ Emitted(rt).epoch = rt.epoch
         /\ Emitted(rt).state_number = rt.state_number
         /\ Emitted(rt).next_due = rt.next_due /\ Emitted(rt).next_delay = rt.next_delay
BY DEF OnTime, Unprepared, Emitted

\* Every runtime, the started one included, has a session of its own.
LEMMA SessionsCounted ==
  ASSUME LinkTypes, Publishing
  PROVE  /\ starts' \in Nat /\ starts' >= starts
         /\ changes' \in Nat /\ changes' >= changes
         /\ \A s \in Active' : runtime'[s].session < starts'
<1> USE DEF LinkTypes, ScheduleInv
<1>1. ASSUME NEW v \in Values, ValueChange(v)
      PROVE  /\ starts' = starts /\ changes' = changes + 1 /\ runtime' = runtime
  BY <1>1 DEF ValueChange
<1>2. ASSUME StopEverything PROVE Active' = {}
  BY <1>2 DEF StopEverything, Active
<1>3. ASSUME NEW s \in Streams, Start(s)
      PROVE  /\ starts' = starts + 1 /\ changes' = changes
             /\ \A t \in Active' : runtime'[t].session < starts'
  <2>1. starts' = starts + 1 /\ changes' = changes
    BY <1>3 DEF Start
  <2>2. [runtime EXCEPT ![s] = Started(s)][s] = Started(s)
    OBVIOUS
  <2>3. CASE runtime' = [runtime EXCEPT ![s] = Emitted(Started(s))]
    <3>1. Emitted(Started(s)).session = starts
      <4>1. OnTime(Started(s))
        BY StartedOnTime
      <4>2. Started(s).session = starts
        BY DEF Started, Prepared
      <4> QED
        BY <4>1, <4>2, EmittedSame
    <3>2. \A t \in Streams : t # s => runtime'[t] = runtime[t]
      BY <2>3
    <3>3. \A t \in Streams : runtime[t] # None => runtime[t].session < starts
      BY DEF Active
    <3>4. \A t \in Streams : runtime[t] # None => runtime[t].session \in Nat
      BY DEF OnTime, Unprepared
    <3> QED
      BY <2>1, <2>3, <3>1, <3>2, <3>3, <3>4 DEF Active
  <2>4. CASE StopEverything
    BY <1>2, <2>1, <2>4
  <2> QED
    BY <1>3, <2>1, <2>2, <2>3, <2>4 DEF Start
<1>4. ASSUME NEW s \in Streams, StopSelected(s)
      PROVE  /\ starts' = starts /\ changes' = changes
             /\ \A t \in Active' : runtime'[t].session < starts'
  BY <1>4 DEF StopSelected, Active
<1>5. CASE Advance
  <2>1. \A s \in Active : /\ runtime[s] \in Unprepared
                          /\ OnTime(StateChanged(s)) /\ OnTime(Prepared(runtime[s]))
    BY StartedOnTime DEF Active, OnTime
  <2>2. \A s \in Active : /\ StateChanged(s).session = runtime[s].session
                          /\ Prepared(runtime[s]).session = runtime[s].session
    BY <2>1 DEF StateChanged, Prepared, Unprepared
  <2>3. Changed \cup Due \subseteq Active /\ Active \subseteq Streams
    BY DEF Changed, Due, Active
  <2>4. \A s \in Changed \cup Due : OnTime(Ready[s]) /\ Ready[s].session = runtime[s].session
    BY <2>1, <2>2, <2>3 DEF Ready
  <2>5. \A s \in Changed \cup Due : Emitted(Ready[s]).session = runtime[s].session
    BY <2>4, EmittedSame
  <2>6. \A s \in Active' : s \in Active /\ runtime'[s].session = runtime[s].session
    BY <1>5, <2>3, <2>5 DEF Advance, Active
  <2> QED
    BY <1>5, <2>6 DEF Advance
<1>6. CASE StopEverything /\ UNCHANGED <<starts, changes>>
  BY <1>2, <1>6
<1>7. ASSUME NEW v \in Values, ValueChange(v)
      PROVE  \A s \in Active' : runtime'[s].session < starts'
  BY <1>1, <1>7 DEF Active
<1>8. Prune \/ AdvanceFails \/ (\E s \in Streams : StartRefused(s))
        => StopEverything /\ UNCHANGED <<starts, changes>>
  BY DEF StartRefused, Prune, AdvanceFails
<1> HIDE DEF LinkTypes, ScheduleInv
<1>9. starts \in Nat /\ changes \in Nat
  BY DEF LinkTypes, ScheduleInv
<1>10. CASE \E v \in Values : ValueChange(v)
  BY <1>1, <1>7, <1>9, <1>10
<1>11. CASE \E s \in Streams : Start(s) \/ StopSelected(s)
  BY <1>3, <1>4, <1>9, <1>11
<1> QED
  BY <1>5, <1>6, <1>8, <1>10, <1>11 DEF Publishing

\* The slot after a frame has been taken in, or not.
LEMMA ArrivalTyped ==
  ASSUME LinkTypes, NEW p \in wire, Arrive(p)
  PROVE  \/ /\ ~capturing /\ slot' = slot
         \/ /\ capturing /\ slot' \in Slots
            /\ slot'.session = p.frame.session /\ slot'.epoch = p.frame.epoch
            /\ slot'.state_number = p.frame.state_number
            /\ slot'.expires = p.frame.time_to_live /\ slot'.timedOut = FALSE
            /\ slot'.anomaly = Anomalous(p.frame)
<1>1. p.frame \in Frames
  BY DEF LinkTypes, Packets
<1>2. p.frame.time_to_live \in Int /\ p.frame.time_to_live # 0
  BY <1>1, PublisherAssumption DEF Frames, UIntMax
<1>3. Anomalous(p.frame) \in BOOLEAN
  BY DEF Anomalous
<1>4. CASE capturing
  <2>1. slot' = [state_number |-> p.frame.state_number,
                 sequence_number |-> p.frame.sequence_number, values |-> p.frame.values,
                 expires |-> p.frame.time_to_live, expiry_reported |-> FALSE,
                 timedOut |-> FALSE, anomaly |-> Anomalous(p.frame),
                 session |-> p.frame.session, epoch |-> p.frame.epoch]
    BY <1>2, <1>4 DEF Arrive, Ingest
  <2> QED
    BY <1>1, <1>2, <1>3, <1>4, <2>1 DEF Frames, Slots
<1>5. CASE ~capturing
  BY <1>5 DEF Arrive, monitorVars
<1> QED
  BY <1>4, <1>5

\* The expiry scan and the clock keep a slot, but for its flags and deadline.
LEMMA SlotKept ==
  ASSUME LinkTypes, slot # None, CheckTimeouts \/ MonitorTicks
  PROVE  /\ slot' \in Slots
         /\ slot'.session = slot.session /\ slot'.epoch = slot.epoch
         /\ slot'.state_number = slot.state_number
         /\ MonitorTicks => /\ slot'.timedOut = slot.timedOut
                            /\ slot'.expires \in {slot.expires - 1, slot.expires}
                            /\ slot.expires # None /\ slot.expires > 0
                                 => slot'.expires = slot.expires - 1
<1>1. slot \in Slots
  BY DEF LinkTypes
<1>2. CASE CheckTimeouts /\ ~MonitorTicks
  BY <1>1, <1>2 DEF CheckTimeouts, Slots
<1>3. CASE MonitorTicks
  <2>1. slot.expires \in Int /\ slot.expires - 1 \in Int
    BY <1>1 DEF Slots
  <2>2. CASE slot' = [slot EXCEPT !.expires = slot.expires - 1]
    BY <1>1, <2>1, <2>2 DEF Slots
  <2>3. CASE slot' = slot /\ ~(slot.expires # None /\ slot.expires > 0)
    BY <1>1, <2>3
  <2> QED
    BY <1>3, <2>2, <2>3 DEF MonitorTicks
<1> QED
  BY <1>2, <1>3

\* A frame that grows a millisecond older, or is held up, is the same frame.
LEMMA PacketKept ==
  ASSUME NEW q \in Packets
  PROVE  /\ [q EXCEPT !.age = @ + 1] \in Packets
         /\ [q EXCEPT !.age = @ + 1].frame = q.frame
         /\ [q EXCEPT !.age = @ + 1].age = q.age + 1
         /\ [q EXCEPT !.age = @ + 1].held = q.held
         /\ [q EXCEPT !.held = TRUE] \in Packets
         /\ [q EXCEPT !.held = TRUE].frame = q.frame
<1>1. q.age + 1 \in Int
  BY DEF Packets
<1> QED
  BY <1>1 DEF Packets

LEMMA TypesKept ==
  ASSUME LinkTypes, [LinkNext]_linkVars
  PROVE  LinkTypes'
<1> USE DEF LinkTypes
<1>1. CASE UNCHANGED linkVars
  BY <1>1 DEF linkVars, publisherVars, monitorVars, ScheduleInv, Active
<1>2. CASE PublisherStep
  <2>1. /\ ScheduleInv' /\ faults' = faults /\ slot' = slot /\ Publishing
    BY <1>2, PublishingKeepsSchedule DEF PublisherStep, monitorVars
  <2>2. /\ starts' \in Nat /\ starts' >= starts
        /\ changes' \in Nat /\ \A s \in Active' : runtime'[s].session < starts'
    BY <2>1, SessionsCounted
  <2>3. /\ \A p \in wire : p.frame.session \in Nat
        /\ \A s \in Active : runtime[s].session \in Nat
        /\ starts \in Nat /\ (slot # None => slot.session \in Nat)
    BY DEF Packets, Frames, Slots, ScheduleInv, OnTime, Unprepared, Active
  <2>4. \A rt : Sends(rt) /\ OnTime(rt) /\ rt.session < starts'
                  => wire' \subseteq Packets /\ \A p \in wire' : p.frame.session < starts'
    BY <2>2, <2>3, PacketTyped DEF Sends
  <2>5. wire' \subseteq Packets /\ \A p \in wire' : p.frame.session < starts'
    <3>1. Watched \in Active => runtime[Watched].session < starts'
      BY <2>2, <2>3
    <3>2. starts' = starts + 1 => starts < starts'
      BY <2>3
    <3>3. wire' = wire => wire' \subseteq Packets /\ \A p \in wire' : p.frame.session < starts'
      BY <2>2, <2>3
    <3> QED
      BY <2>1, <2>4, <3>1, <3>2, <3>3, PublishingCases, SendersTyped
  <2> QED
    BY <2>1, <2>2, <2>3, <2>5
<1>3. ASSUME UNCHANGED publisherVars,
             faults' \in Nat, wire' \subseteq Packets,
             \A p \in wire' : \E q \in wire : p.frame = q.frame,
             slot' # None => slot' \in Slots /\ slot'.session < starts
      PROVE  LinkTypes'
  BY <1>3 DEF publisherVars, ScheduleInv, Active
<1>4. ASSUME NEW p \in wire, Deliver(p) \/ DeliverTwice(p) PROVE LinkTypes'
  <2>1. /\ UNCHANGED publisherVars /\ wire' \subseteq wire /\ Arrive(p)
        /\ faults' \in {faults, faults + 1}
    BY <1>4 DEF Deliver, DeliverTwice, Fault
  <2>2. slot' # None => slot' \in Slots /\ slot'.session < starts
    BY <2>1, ArrivalTyped
  <2> QED
    BY <1>3, <2>1, <2>2
<1>5. ASSUME NEW p \in wire, Lose(p) \/ Hold(p) PROVE LinkTypes'
  <2>1. UNCHANGED <<publisherVars, monitorVars>> /\ faults' = faults + 1
    BY <1>5 DEF Lose, Hold, Fault
  <2>2. slot' = slot
    BY <2>1 DEF monitorVars
  <2>3. wire' \subseteq wire \cup {[p EXCEPT !.held = TRUE]}
    BY <1>5 DEF Lose, Hold
  <2>4. wire' \subseteq Packets /\ \A r \in wire' : \E q \in wire : r.frame = q.frame
    <3>1. /\ [p EXCEPT !.held = TRUE] \in Packets
          /\ [p EXCEPT !.held = TRUE].frame = p.frame
      BY PacketKept
    <3> QED
      BY <2>3, <3>1
  <2> QED
    BY <1>3, <2>1, <2>2, <2>4
<1>6. CASE UserStep
  <2>1. UNCHANGED <<publisherVars, wire>> /\ faults' \in {faults, faults + 1}
    BY <1>6 DEF UserStep, Fault
  <2>2. slot' \in {slot, None}
    BY <1>6 DEF UserStep, StopCapture, StartCapture, Clear
  <2> QED
    BY <1>3, <2>1, <2>2
<1>7. CASE ExpiryScan
  <2>1. UNCHANGED <<publisherVars, wire, faults>> /\ CheckTimeouts /\ slot # None
    BY <1>7 DEF ExpiryScan, CheckTimeouts, Expired
  <2> QED
    BY <1>3, <2>1, SlotKept
<1>8. CASE Tick
  <2>1. ScheduleInv' /\ starts' = starts /\ changes' = changes /\ faults' = faults
    BY <1>8, TickKeepsSchedule DEF Tick, PublisherTicks
  <2>2. \A s \in Active' : runtime'[s].session < starts'
    <3>1. \A s \in Active : runtime[s] \in Unprepared
      BY DEF Active, ScheduleInv, OnTime
    <3>2. \A s \in Active : [runtime[s] EXCEPT !.next_due = @ - 1].session = runtime[s].session
      BY <3>1 DEF Unprepared
    <3>3. \A s \in Active' : s \in Active /\ runtime'[s].session = runtime[s].session
      BY <1>8, <3>2 DEF Tick, PublisherTicks, Active
    <3> QED
      BY <2>1, <3>3
  <2>3. wire' \subseteq Packets /\ \A p \in wire' : p.frame.session < starts'
    <3>1. wire' = {[q EXCEPT !.age = @ + 1] : q \in wire}
      BY <1>8 DEF Tick
    <3>2. \A q \in wire : /\ [q EXCEPT !.age = @ + 1] \in Packets
                          /\ [q EXCEPT !.age = @ + 1].frame = q.frame
      BY PacketKept
    <3> QED
      BY <2>1, <3>1, <3>2
  <2>4. slot = None => slot' = None
    BY <1>8 DEF Tick, MonitorTicks
  <2>5. slot' # None => slot' \in Slots /\ slot'.session < starts'
    BY <1>8, <2>1, <2>4, SlotKept DEF Tick
  <2> QED
    BY <2>1, <2>2, <2>3, <2>5
<1> QED
  BY <1>1, <1>2, <1>4, <1>5, <1>6, <1>7, <1>8 DEF LinkNext

-----------------------------------------------------------------------------
(* A network without faults.                                               *)

\* How long a frame of rt may be missing: until rt's next one has come.
Silence(rt) == rt.next_due + PollJitter + NetDelay

\* Frame p was sent at rt's last deadline or after, and outlives its successor.
Outlives(p, rt) ==
  /\ p.age + rt.next_due >= MinDelay
  /\ p.frame.time_to_live > Silence(rt)
  /\ p.frame.time_to_live >= 2 * MinDelay

\* A frame of rt arrives before deadline e of the monitor: the next one, or one
\* that is on its way already.
InTime(e, rt, w) ==
  \/ e > Silence(rt)
  \/ \E p \in w : p.frame.session = rt.session /\ e > NetDelay - p.age

OnSchedule(rt, w, sl) ==
  /\ rt.next_due >= -PollJitter /\ rt.next_delay >= MinDelay
  /\ \A p \in w : p.frame.session = rt.session => Outlives(p, rt)
  /\ sl # None /\ sl.session = rt.session => ~sl.timedOut /\ InTime(sl.expires, rt, w)

Quiet ==
  faults = 0 =>
    /\ capturing
    /\ \A p \in wire : ~p.held /\ p.age \in 0..NetDelay
    /\ runtime[Watched] # None => OnSchedule(runtime[Watched], wire, slot)

\* prepare_next_delay() announces a time to live of twice the delay.
LEMMA PreparedLasts ==
  ASSUME NEW rt \in Unprepared, rt.next_delay >= MinDelay
  PROVE  /\ Prepared(rt).next_due = rt.next_delay
         /\ Prepared(rt).next_delay >= MinDelay
         /\ Prepared(rt).time_to_live = 2 * rt.next_delay
<1>1. PICK d \in 1..IntMax : d = rt.next_delay
  BY DEF Unprepared
<1>2. MinDelay \in 1..IntMax
  BY DelaysInRange
<1>3. MaxDelay \in Int /\ MaxDelay >= MinDelay
  BY <1>2, PublisherAssumption DEF MaxDelay, AtLeast, AtMost, UIntMax
<1>4. NextDelay(d) >= MinDelay
  BY <1>1, <1>2, <1>3, PublisherAssumption DEF NextDelay, AtMost
<1>5. AtLeast(1, d) = d
  BY PublisherAssumption DEF AtLeast
<1>6. TimeToLive(d) = 2 * d
  BY PublisherAssumption DEF TimeToLive, AtLeast, UIntMax
<1>7. /\ Prepared(rt).next_due = d /\ Prepared(rt).next_delay = NextDelay(d)
      /\ Prepared(rt).time_to_live = TimeToLive(d)
  BY <1>1, <1>5 DEF Prepared, Unprepared
<1> QED
  BY <1>1, <1>4, <1>6, <1>7

\* A runtime that starts or changes state begins at the shortest delay.
LEMMA FreshLasts ==
  ASSUME LinkTypes
  PROVE  /\ /\ Started(Watched).next_due = MinDelay
            /\ Started(Watched).next_delay >= MinDelay
            /\ Started(Watched).time_to_live = 2 * MinDelay
         /\ Watched \in Changed =>
            /\ StateChanged(Watched).next_due = MinDelay
            /\ StateChanged(Watched).next_delay >= MinDelay
            /\ StateChanged(Watched).time_to_live = 2 * MinDelay
<1> USE DEF LinkTypes
<1>1. MinDelay \in 1..IntMax /\ MinDelay \in Int
  BY DelaysInRange
<1>2. AtLeast(1, InitialState) \in 1..StMax
  BY PublisherAssumption DEF AtLeast
<1>3. [next_delay |-> MinDelay, time_to_live |-> 0, next_due |-> 0,
       state_number |-> AtLeast(1, InitialState), sequence_number |-> 0,
       values |-> source, session |-> starts, epoch |-> 0] \in Unprepared
  BY <1>1, <1>2, PublisherAssumption DEF Unprepared, ScheduleInv
<1>4. ASSUME Watched \in Changed
      PROVE  [runtime[Watched] EXCEPT !.next_delay = MinDelay, !.state_number = NextState(@),
                                      !.sequence_number = 0, !.values = source,
                                      !.epoch = @ + 1] \in Unprepared
  <2>1. PICK rt \in Unprepared : rt = runtime[Watched]
    BY <1>4 DEF Changed, Active, ScheduleInv, OnTime
  <2>2. NextState(rt.state_number) \in 1..StMax /\ rt.epoch + 1 \in Nat
    BY PublisherAssumption DEF Unprepared, NextState
  <2>3. 0 \in 0..SqMax /\ source \in Values
    BY PublisherAssumption DEF ScheduleInv
  <2> QED
    BY <1>1, <2>1, <2>2, <2>3 DEF Unprepared
<1>5. Watched \in Changed =>
        [runtime[Watched] EXCEPT !.next_delay = MinDelay, !.state_number = NextState(@),
                                 !.sequence_number = 0, !.values = source,
                                 !.epoch = @ + 1].next_delay = MinDelay
  BY DEF Changed, Active, ScheduleInv, OnTime, Unprepared
<1>6. \A rt \in Unprepared : rt.next_delay = MinDelay =>
        /\ Prepared(rt).next_due = MinDelay /\ Prepared(rt).next_delay >= MinDelay
        /\ Prepared(rt).time_to_live = 2 * MinDelay
  BY <1>1, PreparedLasts
<1>7. /\ Started(Watched).next_due = MinDelay
      /\ Started(Watched).next_delay >= MinDelay
      /\ Started(Watched).time_to_live = 2 * MinDelay
  BY <1>3, <1>6 DEF Started
<1>8. Watched \in Changed =>
        /\ StateChanged(Watched).next_due = MinDelay
        /\ StateChanged(Watched).next_delay >= MinDelay
        /\ StateChanged(Watched).time_to_live = 2 * MinDelay
  BY <1>4, <1>5, <1>6 DEF StateChanged
<1> QED
  BY <1>7, <1>8

\* The watched stream sends a frame: how its runtime before (old) and the one
\* that sends (rt) keep the schedule.
LEMMA SendingKeepsQuiet ==
  ASSUME ShortLateness, LinkTypes, LinkTypes', Quiet, faults = 0, UNCHANGED monitorVars,
         NEW rt, OnTime(rt), Sends(rt),
         rt.next_due >= MinDelay, rt.next_delay >= MinDelay,
         rt.time_to_live = 2 * rt.next_due,
         \A p \in wire : p.frame.session = rt.session =>
             p.frame.time_to_live > Silence(rt) /\ p.frame.time_to_live >= 2 * MinDelay,
         slot # None /\ slot.session = rt.session =>
             ~slot.timedOut /\ (\/ slot.expires > NetDelay
                                \/ \E p \in wire : /\ p.frame.session = rt.session
                                                   /\ slot.expires > NetDelay - p.age)
  PROVE  Quiet'
<1>1. /\ capturing' /\ slot' = slot
      /\ \A p \in wire : ~p.held /\ p.age \in 0..NetDelay
  BY DEF Quiet, monitorVars
<1>2. /\ Packet(rt).age = 0 /\ ~Packet(rt).held
      /\ Packet(rt).frame.session = rt.session
      /\ Packet(rt).frame.time_to_live = 2 * rt.next_due
      /\ wire' = wire \cup {Packet(rt)}
  BY PacketTyped DEF Sends
<1>3. \A p \in wire' : ~p.held /\ p.age \in 0..NetDelay
  BY <1>1, <1>2, LinkAssumption
<1>4. ASSUME runtime'[Watched] # None
      PROVE  OnSchedule(runtime'[Watched], wire', slot')
  <2>1. PICK em : em = runtime'[Watched]
    OBVIOUS
  <2>2. /\ em.session = rt.session /\ em.next_due = rt.next_due
        /\ em.next_delay = rt.next_delay
    BY <1>4, <2>1, EmittedSame DEF Sends
  <2>3. /\ rt.next_due \in Int /\ MinDelay \in Int /\ PollJitter \in Nat /\ NetDelay \in Nat
        /\ NetDelay + PollJitter < MinDelay
    BY DelaysInRange, PublisherAssumption, LinkAssumption
      DEF ShortLateness, OnTime, Unprepared
  <2>4. em.next_due >= -PollJitter /\ em.next_delay >= MinDelay
    BY <2>2, <2>3
  <2>5. Outlives(Packet(rt), em)
    BY <1>2, <2>2, <2>3 DEF Outlives, Silence
  <2>6. \A p \in wire : p.frame.session = em.session => Outlives(p, em)
    BY <1>1, <2>2, <2>3 DEF Outlives, Silence
  <2>7. slot # None /\ slot.session = em.session =>
          ~slot.timedOut /\ InTime(slot.expires, em, wire')
    BY <1>2, <2>2, <2>3 DEF InTime
  <2> QED
    BY <1>1, <1>2, <2>1, <2>4, <2>5, <2>6, <2>7 DEF OnSchedule
<1> QED
  BY <1>1, <1>3, <1>4 DEF Quiet

\* Whatever the commissioning model does keeps the watched stream on schedule.
LEMMA PublisherKeepsQuiet ==
  ASSUME ShortLateness, LinkTypes, LinkTypes', Quiet, PublisherStep
  PROVE  Quiet'
<1> SUFFICES ASSUME faults = 0 PROVE Quiet'
  BY DEF PublisherStep, Quiet
<1>1. Publishing /\ UNCHANGED monitorVars
  BY DEF PublisherStep
<1>2. /\ MinDelay \in Int /\ PollJitter \in Nat /\ NetDelay \in Nat
      /\ NetDelay + PollJitter < MinDelay
  BY DelaysInRange, PublisherAssumption, LinkAssumption DEF ShortLateness
<1>3. CASE wire' = wire /\ runtime'[Watched] \in {None, runtime[Watched]}
  BY <1>1, <1>3 DEF Quiet, monitorVars
<1>4. ASSUME Sends(Started(Watched)) PROVE Quiet'
  <2>1. /\ OnTime(Started(Watched)) /\ Started(Watched).session = starts
        /\ Started(Watched).next_due = MinDelay /\ Started(Watched).next_delay >= MinDelay
        /\ Started(Watched).time_to_live = 2 * MinDelay
    BY SendersTyped, FreshLasts
  <2>2. /\ \A p \in wire : p.frame.session # starts
        /\ slot # None => slot.session # starts
    BY DEF LinkTypes, ScheduleInv
  <2> QED
    BY <1>1, <1>2, <1>4, <2>1, <2>2, SendingKeepsQuiet
<1>5. ASSUME Watched \in Active
      PROVE  /\ OnSchedule(runtime[Watched], wire, slot)
             /\ runtime[Watched] \in Unprepared /\ runtime[Watched].next_due \in Int
             /\ \A p \in wire : p.frame.time_to_live \in Int /\ p.age \in 0..NetDelay
             /\ slot # None => slot.expires \in Int
  <2>1. OnSchedule(runtime[Watched], wire, slot) /\ \A p \in wire : p.age \in 0..NetDelay
    BY <1>5 DEF Active, Quiet
  <2>2. runtime[Watched] \in Unprepared /\ runtime[Watched].next_due \in Int
    BY <1>5 DEF Active, LinkTypes, ScheduleInv, OnTime, Unprepared
  <2>3. \A p \in wire : p.frame.time_to_live \in Int
    BY PublisherAssumption DEF LinkTypes, Packets, Frames, UIntMax
  <2>4. slot # None => slot.expires \in Int
    BY DEF LinkTypes, Slots
  <2> QED
    BY <2>1, <2>2, <2>3, <2>4
<1>6. ASSUME Watched \in Active
      PROVE  slot # None /\ slot.session = runtime[Watched].session =>
               ~slot.timedOut /\ (\/ slot.expires > NetDelay
                                  \/ \E p \in wire : /\ p.frame.session = runtime[Watched].session
                                                     /\ slot.expires > NetDelay - p.age)
  BY <1>2, <1>5, <1>6 DEF OnSchedule, InTime, Silence
<1>7. ASSUME Watched \in Changed, Sends(StateChanged(Watched)) PROVE Quiet'
  <2>1. Watched \in Active
    BY <1>7, SendersTyped
  <2>2. /\ OnTime(StateChanged(Watched))
        /\ StateChanged(Watched).session = runtime[Watched].session
        /\ StateChanged(Watched).next_due = MinDelay
        /\ StateChanged(Watched).next_delay >= MinDelay
        /\ StateChanged(Watched).time_to_live = 2 * MinDelay
    BY <1>7, SendersTyped, FreshLasts
  <2>3. \A p \in wire : p.frame.session = runtime[Watched].session =>
          /\ p.frame.time_to_live > Silence(StateChanged(Watched))
          /\ p.frame.time_to_live >= 2 * MinDelay
    BY <1>2, <1>5, <2>1, <2>2 DEF OnSchedule, Outlives, Silence
  <2> QED
    BY <1>1, <1>2, <1>6, <1>7, <2>1, <2>2, <2>3, SendingKeepsQuiet
<1>8. ASSUME Watched \in Due, Sends(Prepared(runtime[Watched])) PROVE Quiet'
  <2>1. Watched \in Active /\ runtime[Watched].next_due <= 0
    BY <1>8, SendersTyped DEF Due
  <2>2. \A p \in wire : p.frame.session # runtime[Watched].session
    BY <1>2, <1>5, <2>1 DEF OnSchedule, Outlives
  <2>3. runtime[Watched].next_delay >= MinDelay
    BY <1>5, <2>1 DEF OnSchedule
  <2>4. /\ OnTime(Prepared(runtime[Watched]))
        /\ Prepared(runtime[Watched]).session = runtime[Watched].session
    BY <1>8, SendersTyped
  <2>5. /\ Prepared(runtime[Watched]).next_due >= MinDelay
        /\ Prepared(runtime[Watched]).next_delay >= MinDelay
        /\ Prepared(runtime[Watched]).time_to_live = 2 * Prepared(runtime[Watched]).next_due
    BY <1>5, <2>1, <2>3, PreparedLasts
  <2> QED
    BY <1>1, <1>6, <1>8, <2>1, <2>2, <2>4, <2>5, SendingKeepsQuiet
<1> QED
  BY <1>1, <1>3, <1>4, <1>7, <1>8, PublishingCases DEF LinkTypes

\* A frame that arrives sets a deadline after the next one.
LEMMA DeliveryKeepsQuiet ==
  ASSUME LinkTypes, Quiet, NEW p \in wire, Deliver(p)
  PROVE  Quiet'
<1> SUFFICES ASSUME faults = 0 PROVE Quiet'
  BY DEF Deliver, Quiet
<1>1. /\ capturing /\ Arrive(p) /\ wire' = wire \ {p} /\ runtime' = runtime
      /\ \A q \in wire : ~q.held /\ q.age \in 0..NetDelay
  BY DEF Quiet, Deliver, publisherVars
<1>2. /\ slot' \in Slots /\ slot'.session = p.frame.session
      /\ slot'.expires = p.frame.time_to_live /\ slot'.timedOut = FALSE
  BY <1>1, ArrivalTyped
<1>3. capturing'
  BY <1>1 DEF Arrive, Ingest, monitorVars
<1>4. ASSUME runtime[Watched] # None
      PROVE  OnSchedule(runtime[Watched], wire', slot')
  BY <1>1, <1>2, <1>4 DEF Quiet, OnSchedule, Outlives, InTime
<1> QED
  BY <1>1, <1>3, <1>4 DEF Quiet

\* No scan finds the followed stream expired.
LEMMA ScanKeepsQuiet ==
  ASSUME LinkTypes, Quiet, ExpiryScan
  PROVE  Quiet'
<1> SUFFICES ASSUME faults = 0 PROVE Quiet'
  BY DEF ExpiryScan, Quiet
<1>1. /\ capturing' /\ wire' = wire /\ runtime' = runtime /\ CheckTimeouts /\ slot # None
      /\ \A q \in wire : ~q.held /\ q.age \in 0..NetDelay
  BY DEF Quiet, ExpiryScan, CheckTimeouts, publisherVars, Expired
<1>2. slot'.session = slot.session
  BY <1>1, SlotKept
<1>3. slot.expires \in Int /\ slot.expires <= 0
  BY <1>1 DEF CheckTimeouts, Expired, LinkTypes, Slots
<1>4. ASSUME runtime[Watched] # None
      PROVE  OnSchedule(runtime[Watched], wire', slot')
  <2>1. OnSchedule(runtime[Watched], wire, slot)
    BY <1>4 DEF Quiet
  <2>2. runtime[Watched].next_due \in Int
    BY <1>4, PublisherAssumption DEF LinkTypes, ScheduleInv, OnTime, Unprepared
  <2>3. slot.session # runtime[Watched].session
    BY <1>1, <1>3, <2>1, <2>2, PublisherAssumption, LinkAssumption
      DEF OnSchedule, InTime, Silence
  <2> QED
    BY <1>1, <1>2, <2>1, <2>3 DEF OnSchedule
<1> QED
  BY <1>1, <1>4 DEF Quiet

\* A millisecond brings the frames, the deadline of the publisher and the one
\* of the monitor closer together.
LEMMA TickKeepsQuiet ==
  ASSUME LinkTypes, Quiet, Tick
  PROVE  Quiet'
<1> SUFFICES ASSUME faults = 0 PROVE Quiet'
  BY DEF Tick, Quiet
<1> USE PublisherAssumption, LinkAssumption
<1>1. /\ capturing' /\ wire' = {[q EXCEPT !.age = @ + 1] : q \in wire}
      /\ \A q \in wire : /\ ~q.held /\ q.age \in 0..NetDelay
                         /\ q.age < IF q.held THEN HoldMax ELSE NetDelay
  BY DEF Quiet, Tick, MonitorTicks
<1>2. \A q \in wire : /\ [q EXCEPT !.age = @ + 1].frame = q.frame
                      /\ [q EXCEPT !.age = @ + 1].age = q.age + 1
                      /\ [q EXCEPT !.age = @ + 1].held = q.held
                      /\ q.age + 1 \in 0..NetDelay
  BY <1>1, PacketKept DEF LinkTypes
<1>3. \A r \in wire' : ~r.held /\ r.age \in 0..NetDelay
  BY <1>1, <1>2
<1>4. ASSUME runtime'[Watched] # None
      PROVE  OnSchedule(runtime'[Watched], wire', slot')
  <2>1. /\ Watched \in Active /\ runtime[Watched].next_due > -PollJitter
        /\ runtime'[Watched] = [runtime[Watched] EXCEPT !.next_due = @ - 1]
    BY <1>4 DEF Tick, PublisherTicks, Active
  <2>2. PICK rt \in Unprepared : rt = runtime[Watched]
    BY <2>1 DEF Active, LinkTypes, ScheduleInv, OnTime
  <2>3. PICK later : later = runtime'[Watched]
    OBVIOUS
  <2>4. /\ later.next_due = rt.next_due - 1 /\ later.next_delay = rt.next_delay
        /\ later.session = rt.session /\ rt.next_due \in Int /\ rt.next_due > -PollJitter
    BY <2>1, <2>2, <2>3 DEF Unprepared
  <2>5. OnSchedule(rt, wire, slot)
    BY <2>1, <2>2 DEF Quiet, Active
  <2>6. later.next_due >= -PollJitter /\ later.next_delay >= MinDelay
    BY <2>4, <2>5 DEF OnSchedule
  <2>7. ASSUME NEW r \in wire', r.frame.session = later.session PROVE Outlives(r, later)
    <3>1. PICK q \in wire : r = [q EXCEPT !.age = @ + 1]
      BY <1>1
    <3>2. Outlives(q, rt)
      BY <1>2, <2>4, <2>5, <2>7, <3>1 DEF OnSchedule
    <3>3. MinDelay \in Int /\ q.frame.time_to_live \in Int
      BY DelaysInRange DEF LinkTypes, Packets, Frames, UIntMax
    <3> QED
      BY <1>1, <1>2, <2>4, <3>1, <3>2, <3>3 DEF Outlives, Silence
  <2>8. ASSUME slot' # None, slot'.session = later.session
        PROVE  ~slot'.timedOut /\ InTime(slot'.expires, later, wire')
    <3>1. slot # None /\ MonitorTicks
      BY <2>8 DEF Tick, MonitorTicks
    <3>2. /\ slot'.session = slot.session /\ slot'.timedOut = slot.timedOut
          /\ slot'.expires \in {slot.expires - 1, slot.expires} /\ slot.expires \in Int
      BY <3>1, SlotKept DEF LinkTypes, Slots
    <3>3. ~slot.timedOut /\ InTime(slot.expires, rt, wire)
      BY <2>4, <2>5, <2>8, <3>1, <3>2 DEF OnSchedule
    <3>4. CASE slot.expires > Silence(rt)
      BY <2>4, <3>2, <3>3, <3>4 DEF InTime, Silence
    <3>5. CASE \E q \in wire : q.frame.session = rt.session /\ slot.expires > NetDelay - q.age
      <4>1. PICK q \in wire : q.frame.session = rt.session /\ slot.expires > NetDelay - q.age
        BY <3>5
      <4>2. slot.expires > 0 /\ slot.expires - 1 > NetDelay - (q.age + 1)
        BY <1>1, <3>2, <4>1
      <4>3. slot'.expires > NetDelay - (q.age + 1)
        BY <1>1, <3>2, <4>1, <4>2
      <4>4. [q EXCEPT !.age = @ + 1] \in wire'
        BY <1>1
      <4> QED
        BY <1>2, <2>4, <3>2, <3>3, <4>1, <4>3, <4>4 DEF InTime
    <3> QED
      BY <3>3, <3>4, <3>5 DEF InTime
  <2> QED
    BY <2>3, <2>6, <2>7, <2>8 DEF OnSchedule
<1> QED
  BY <1>1, <1>3, <1>4 DEF Quiet

\* While the publisher's timer and the network stay within the shortest delay,
\* every step keeps the types and the schedule.
LEMMA QuietInvariant ==
  ASSUME ShortLateness
  PROVE  LinkSpec => [](LinkTypes /\ Quiet)
<1>1. LinkInit => LinkTypes /\ Quiet
  <2> SUFFICES ASSUME LinkInit PROVE LinkTypes /\ Quiet
    OBVIOUS
  <2>1. ScheduleInv
    BY PublisherAssumption DEF LinkInit, PublisherInit, ScheduleInv
  <2> QED
    BY <2>1, PublisherAssumption
      DEF LinkInit, PublisherInit, MonitorInit, LinkTypes, Quiet, Active
<1>2. LinkTypes /\ Quiet /\ [LinkNext]_linkVars => LinkTypes' /\ Quiet'
  <2> SUFFICES ASSUME LinkTypes, Quiet, [LinkNext]_linkVars PROVE LinkTypes' /\ Quiet'
    OBVIOUS
  <2>1. LinkTypes'
    BY TypesKept
  <2>2. ASSUME faults' = faults + 1 PROVE Quiet'
    BY <2>2 DEF Quiet, LinkTypes
  <2>3. CASE UNCHANGED linkVars
    BY <2>1, <2>3 DEF linkVars, publisherVars, monitorVars, Quiet
  <2>4. CASE PublisherStep
    BY <2>1, <2>4, PublisherKeepsQuiet
  <2>5. ASSUME NEW p \in wire, Deliver(p) PROVE Quiet'
    BY <2>5, DeliveryKeepsQuiet
  <2>6. ASSUME NEW p \in wire, DeliverTwice(p) \/ Lose(p) \/ Hold(p) PROVE Quiet'
    BY <2>2, <2>6 DEF DeliverTwice, Lose, Hold, Fault
  <2>7. CASE UserStep
    <3>1. CASE StartCapture /\ UNCHANGED <<faults, publisherVars, wire>>
      BY <2>1, <3>1 DEF StartCapture, Quiet, publisherVars
    <3>2. CASE Fault
      BY <2>1, <2>2, <3>2 DEF Fault
    <3> QED
      BY <2>7, <3>1, <3>2 DEF UserStep
  <2>8. CASE ExpiryScan
    BY <2>1, <2>8, ScanKeepsQuiet
  <2>9. CASE Tick
    BY <2>1, <2>9, TickKeepsQuiet
  <2> QED
    BY <2>1, <2>3, <2>4, <2>5, <2>6, <2>7, <2>8, <2>9 DEF LinkNext
<1> QED
  BY <1>1, <1>2, PTL DEF LinkSpec

\* On a network without faults a stream that is being published never times
\* out at the monitor (NoFalseTimeout): for every MinTime and MaxTime, and every
\* lateness of the publishing timer and delay of the network that together stay
\* below the shortest delay.  That they do is the theorem's premise, stated in
\* NoFalseTimeout; the code alone guarantees it only for a MinTime above its
\* 10 ms timer period.
THEOREM NeverFalseTimeout == LinkSpec => []NoFalseTimeout
<1>1. ShortLateness => (LinkSpec => [](LinkTypes /\ Quiet))
  BY QuietInvariant
<1>2. LinkTypes /\ Quiet => NoFalseTimeout
  BY DEF Quiet, OnSchedule, NoFalseTimeout, Followed
<1>3. CASE ShortLateness
  BY <1>1, <1>2, <1>3, PTL
<1>4. CASE ~ShortLateness
  <2>1. NoFalseTimeout
    BY <1>4 DEF NoFalseTimeout
  <2> QED
    BY <2>1, PTL
<1> QED
  BY <1>3, <1>4

-----------------------------------------------------------------------------
(* The states the monitor shows.                                           *)

\* stNum has not gone once round when the value changes end: a monitor that
\* missed a whole round could not tell.
OneRound == ChangesMax + 1 < StMax

\* The stNum of the e-th state of a session, which skips 0 where it wraps.
StateAt(e) ==
  LET st == AtLeast(1, InitialState) + e IN IF st <= StMax THEN st ELSE st - StMax

\* What is published of one of the first n states carries the state's number.
Numbers(x, n) == x.epoch <= n /\ x.state_number = StateAt(x.epoch)

Numbered ==
  /\ changes <= ChangesMax
  /\ \A s \in Active : Numbers(runtime[s], changes) /\ (dirty => runtime[s].epoch < changes)
  /\ \A p \in wire : Numbers(p.frame, changes)
  /\ slot # None => Numbers(slot, changes)

\* Within one round the number tells the states, and the successor, apart.
LEMMA StatesTold ==
  ASSUME OneRound, NEW e \in 0..ChangesMax, NEW f \in 0..ChangesMax
  PROVE  /\ StateAt(0) = AtLeast(1, InitialState)
         /\ NextState(StateAt(e)) = StateAt(e + 1)
         /\ StateAt(e) = StateAt(f) => e = f
         /\ NextState(StateAt(e)) = StateAt(f) => f = e + 1
<1>1. PICK i \in 1..StMax : i = AtLeast(1, InitialState)
  BY PublisherAssumption DEF AtLeast
<1>2. /\ e \in Nat /\ f \in Nat /\ e + 1 < StMax /\ f + 1 < StMax /\ StMax \in Nat
  BY PublisherAssumption DEF OneRound
<1> QED
  BY <1>1, <1>2 DEF StateAt, NextState

\* The runtimes after a step, numbered like those before.
LEMMA RuntimesNumbered ==
  ASSUME OneRound, LinkTypes, Numbered
  PROVE  /\ \A s \in Streams : Started(s).epoch = 0 /\ Numbers(Started(s), changes)
         /\ \A s \in Active : /\ Prepared(runtime[s]).epoch = runtime[s].epoch
                              /\ Numbers(Prepared(runtime[s]), changes)
         /\ \A s \in Changed : Numbers(StateChanged(s), changes)
<1>1. changes \in 0..ChangesMax /\ ChangesMax \in Nat
  BY PublisherAssumption DEF LinkTypes, Numbered
<1>2. ASSUME NEW s \in Streams PROVE Started(s).epoch = 0 /\ Numbers(Started(s), changes)
  <2>1. Started(s).epoch = 0 /\ Started(s).state_number = AtLeast(1, InitialState)
    BY DEF Started, Prepared
  <2> QED
    BY <1>1, <2>1, StatesTold DEF Numbers
<1>3. ASSUME NEW s \in Active
      PROVE  Prepared(runtime[s]).epoch = runtime[s].epoch /\ Numbers(Prepared(runtime[s]), changes)
  <2>1. runtime[s] \in Unprepared /\ Numbers(runtime[s], changes)
    BY DEF Active, LinkTypes, ScheduleInv, OnTime, Numbered
  <2>2. /\ Prepared(runtime[s]).epoch = runtime[s].epoch
        /\ Prepared(runtime[s]).state_number = runtime[s].state_number
    BY <2>1 DEF Prepared, Unprepared
  <2> QED
    BY <2>1, <2>2 DEF Numbers
<1>4. ASSUME NEW s \in Changed PROVE Numbers(StateChanged(s), changes)
  <2>1. s \in Active /\ dirty
    BY DEF Changed
  <2>2. PICK rt \in Unprepared : rt = runtime[s]
    BY <2>1 DEF Active, LinkTypes, ScheduleInv, OnTime
  <2>3. rt.epoch \in Nat /\ rt.epoch < changes /\ rt.state_number = StateAt(rt.epoch)
    BY <2>1, <2>2 DEF Numbered, Numbers, Unprepared
  <2>4. /\ StateChanged(s).epoch = rt.epoch + 1
        /\ StateChanged(s).state_number = NextState(rt.state_number)
    BY <2>2 DEF StateChanged, Prepared, Unprepared
  <2>5. rt.epoch \in 0..ChangesMax
    BY <1>1, <2>3
  <2> QED
    BY <1>1, <2>3, <2>4, <2>5, StatesTold DEF Numbers
<1> QED
  BY <1>2, <1>3, <1>4

\* A step of the commissioning model numbers what it publishes.
LEMMA PublisherNumbers ==
  ASSUME OneRound, LinkTypes, Numbered, PublisherStep
  PROVE  Numbered'
<1>1. Publishing /\ slot' = slot
  BY DEF PublisherStep, monitorVars
<1>2. /\ changes \in Nat /\ changes' \in Nat /\ changes' >= changes
      /\ changes <= ChangesMax /\ ChangesMax \in Nat
  BY <1>1, SessionsCounted, PublisherAssumption DEF LinkTypes, Numbered
<1>3. \A x : x.epoch \in Nat /\ Numbers(x, changes) => Numbers(x, changes')
  BY <1>2 DEF Numbers
<1>4. \A rt : OnTime(rt) /\ Numbers(rt, changes) => Numbers(Emitted(rt), changes)
  BY EmittedSame DEF Numbers
<1>5. /\ changes' <= ChangesMax
      /\ \A s \in Active' : /\ Numbers(runtime'[s], changes')
                            /\ dirty' => runtime'[s].epoch < changes'
  <2> DEFINE Goal == /\ changes' <= ChangesMax
                     /\ \A s \in Active' : /\ Numbers(runtime'[s], changes')
                                           /\ dirty' => runtime'[s].epoch < changes'
  <2>1. \A s \in Active : runtime[s].epoch \in Nat /\ Numbers(runtime[s], changes)
    BY DEF Active, LinkTypes, ScheduleInv, OnTime, Unprepared, Numbered
  <2>2. ASSUME NEW v \in Values, ValueChange(v) PROVE Goal
    <3>1. /\ changes' = changes + 1 /\ changes < ChangesMax /\ Active' = Active
          /\ runtime' = runtime
      BY <2>2 DEF ValueChange, Active
    <3> QED
      BY <1>2, <2>1, <3>1 DEF Numbers
  <2>3. ASSUME StopEverything, changes' = changes PROVE Goal
    BY <1>2, <2>3 DEF StopEverything, Active
  <2>4. ASSUME NEW s \in Streams, Start(s) PROVE Goal
    <3>1. changes' = changes
      BY <2>4 DEF Start
    <3>2. CASE StopEverything
      BY <2>3, <3>1, <3>2
    <3>3. CASE runtime' = [runtime EXCEPT ![s] = Emitted(Started(s))] /\ dirty' = FALSE
      <4>1. Numbers(Emitted(Started(s)), changes)
        BY <1>4, RuntimesNumbered, StartedOnTime DEF LinkTypes
      <4>2. \A t \in Active' : \/ runtime'[t] = Emitted(Started(s))
                               \/ t \in Active /\ runtime'[t] = runtime[t]
        <5>1. \A t \in Streams :
                runtime'[t] = IF t = s THEN Emitted(Started(s)) ELSE runtime[t]
          BY <3>3 DEF LinkTypes, ScheduleInv
        <5> QED
          BY <5>1 DEF Active
      <4> QED
        BY <1>2, <2>1, <3>1, <3>3, <4>1, <4>2
    <3>4. [runtime EXCEPT ![s] = Started(s)][s] = Started(s)
      BY DEF LinkTypes, ScheduleInv
    <3> QED
      BY <2>4, <3>2, <3>3, <3>4 DEF Start
  <2>5. ASSUME NEW s \in Streams, StopSelected(s) PROVE Goal
    <3>1. /\ changes' = changes
          /\ dirty' => dirty
          /\ \A t \in Active' : t \in Active /\ runtime'[t] = runtime[t]
      BY <2>5 DEF StopSelected, Active, LinkTypes, ScheduleInv
    <3> QED
      BY <1>2, <2>1, <3>1 DEF Numbered
  <2>6. ASSUME Advance PROVE Goal
    <3>1. /\ changes' = changes /\ dirty' = FALSE
          /\ runtime' = [s \in Streams |-> IF s \in Changed \cup Due THEN Emitted(Ready[s])
                                           ELSE runtime[s]]
      BY <2>6 DEF Advance
    <3>2. Changed \cup Due \subseteq Active /\ Active \subseteq Streams
      BY DEF Changed, Due, Active
    <3>3. \A s \in Changed \cup Due : OnTime(Ready[s]) /\ Numbers(Ready[s], changes)
      <4>1. \A s \in Active : OnTime(StateChanged(s)) /\ OnTime(Prepared(runtime[s]))
        BY StartedOnTime DEF Active, LinkTypes
      <4> QED
        BY <3>2, <4>1, RuntimesNumbered DEF Ready
    <3>4. \A s \in Changed \cup Due : Numbers(Emitted(Ready[s]), changes)
      BY <1>4, <3>3
    <3>5. \A s \in Active' :
            \/ s \in Changed \cup Due /\ runtime'[s] = Emitted(Ready[s])
            \/ s \in Active /\ runtime'[s] = runtime[s]
      BY <3>1 DEF Active
    <3> QED
      BY <1>2, <2>1, <3>1, <3>4, <3>5
  <2>7. ASSUME Prune \/ AdvanceFails \/ \E s \in Streams : StartRefused(s) PROVE Goal
    BY <2>3, <2>7 DEF Prune, AdvanceFails, StartRefused
  <2> QED
    BY <1>1, <2>2, <2>4, <2>5, <2>6, <2>7 DEF Publishing
<1>6. \A p \in wire' : Numbers(p.frame, changes')
  <2>1. \A p \in wire : p.frame.epoch \in Nat /\ Numbers(p.frame, changes)
    BY DEF LinkTypes, Packets, Frames, Numbered
  <2>2. \A rt : Sends(rt) /\ OnTime(rt) /\ Numbers(rt, changes)
                  => \A p \in wire' : Numbers(p.frame, changes')
    <3> SUFFICES ASSUME NEW rt, Sends(rt), OnTime(rt), Numbers(rt, changes),
                        NEW p \in wire'
                 PROVE  Numbers(p.frame, changes')
      OBVIOUS
    <3>1. CASE p \in wire
      BY <1>3, <2>1, <3>1
    <3>2. CASE p = Packet(rt)
      <4>1. p.frame.epoch = rt.epoch /\ p.frame.state_number = rt.state_number
        BY <3>2, PacketTyped
      <4>2. rt.epoch \in Nat
        BY DEF OnTime, Unprepared
      <4> QED
        BY <1>2, <4>1, <4>2 DEF Numbers
    <3> QED
      BY <3>1, <3>2 DEF Sends
  <2>3. wire' = wire => \A p \in wire' : Numbers(p.frame, changes')
    BY <1>3, <2>1
  <2>4. Numbers(Started(Watched), changes)
    BY RuntimesNumbered, PublisherAssumption
  <2>5. Watched \in Changed => Numbers(StateChanged(Watched), changes)
    BY RuntimesNumbered
  <2>6. Watched \in Due => Numbers(Prepared(runtime[Watched]), changes)
    BY RuntimesNumbered, SendersTyped
  <2> QED
    BY <1>1, <2>2, <2>3, <2>4, <2>5, <2>6, PublishingCases, SendersTyped DEF LinkTypes
<1>7. slot' # None => Numbers(slot', changes')
  <2>1. slot # None => slot.epoch \in Nat /\ Numbers(slot, changes)
    BY DEF LinkTypes, Slots, Numbered
  <2> QED
    BY <1>1, <1>3, <2>1
<1> QED
  BY <1>5, <1>6, <1>7 DEF Numbered

LEMMA NumberedKept ==
  ASSUME OneRound, LinkTypes, Numbered, [LinkNext]_linkVars
  PROVE  Numbered'
<1>1. CASE PublisherStep
  BY <1>1, PublisherNumbers
<1>2. ASSUME changes' = changes, dirty' = dirty,
             \A s \in Active' : s \in Active /\ runtime'[s].epoch = runtime[s].epoch
                                /\ runtime'[s].state_number = runtime[s].state_number,
             \A r \in wire' : \E q \in wire : r.frame = q.frame,
             slot' # None => Numbers(slot', changes)
      PROVE  Numbered'
  BY <1>2 DEF Numbered, Numbers
<1>3. ASSUME UNCHANGED publisherVars
      PROVE  /\ changes' = changes /\ dirty' = dirty
             /\ \A s \in Active' : s \in Active /\ runtime'[s].epoch = runtime[s].epoch
                                   /\ runtime'[s].state_number = runtime[s].state_number
  BY <1>3 DEF publisherVars, Active
<1>4. ASSUME NEW p \in wire, Deliver(p) \/ DeliverTwice(p) PROVE Numbered'
  <2>1. UNCHANGED publisherVars /\ wire' \subseteq wire /\ Arrive(p)
    BY <1>4 DEF Deliver, DeliverTwice
  <2>2. slot' # None => Numbers(slot', changes)
    BY <2>1, ArrivalTyped DEF Numbered, Numbers
  <2> QED
    BY <1>2, <1>3, <2>1, <2>2
<1>5. ASSUME NEW p \in wire, Lose(p) \/ Hold(p) PROVE Numbered'
  <2>1. UNCHANGED publisherVars /\ slot' = slot
        /\ wire' \subseteq wire \cup {[p EXCEPT !.held = TRUE]}
    BY <1>5 DEF Lose, Hold, monitorVars
  <2>2. [p EXCEPT !.held = TRUE].frame = p.frame
    BY PacketKept DEF LinkTypes
  <2>3. \A r \in wire' : \E q \in wire : r.frame = q.frame
    BY <2>1, <2>2
  <2> QED
    BY <1>2, <1>3, <2>1, <2>3 DEF Numbered
<1>6. CASE UserStep
  <2>1. UNCHANGED <<publisherVars, wire>> /\ slot' \in {slot, None}
    BY <1>6 DEF UserStep, StopCapture, StartCapture, Clear
  <2> QED
    BY <1>2, <1>3, <2>1 DEF Numbered
<1>7. CASE ExpiryScan
  <2>1. UNCHANGED <<publisherVars, wire>> /\ CheckTimeouts /\ slot # None
    BY <1>7 DEF ExpiryScan, CheckTimeouts, Expired
  <2>2. Numbers(slot', changes)
    BY <2>1, SlotKept DEF Numbered, Numbers
  <2> QED
    BY <1>2, <1>3, <2>1, <2>2
<1>8. CASE Tick
  <2>1. \A s \in Active' :
          s \in Active /\ runtime'[s] = [runtime[s] EXCEPT !.next_due = @ - 1]
    BY <1>8 DEF Tick, PublisherTicks, Active
  <2>2. \A s \in Active : runtime[s] \in Unprepared
    BY DEF LinkTypes, ScheduleInv, Active, OnTime
  <2>3. \A s \in Active' : s \in Active /\ runtime'[s].epoch = runtime[s].epoch
                           /\ runtime'[s].state_number = runtime[s].state_number
    BY <2>1, <2>2 DEF Unprepared
  <2>4. \A r \in wire' : \E q \in wire : r.frame = q.frame
    <3>1. wire' = {[q EXCEPT !.age = @ + 1] : q \in wire}
      BY <1>8 DEF Tick
    <3>2. \A q \in wire : [q EXCEPT !.age = @ + 1].frame = q.frame
      BY PacketKept DEF LinkTypes
    <3> QED
      BY <3>1, <3>2
  <2>5. slot = None => slot' = None
    BY <1>8 DEF Tick, MonitorTicks
  <2>6. slot' # None => Numbers(slot', changes)
    BY <1>8, <2>5, SlotKept DEF Tick, Numbered, Numbers
  <2>7. changes' = changes /\ dirty' = dirty
    BY <1>8 DEF Tick, PublisherTicks
  <2> QED
    BY <1>2, <2>3, <2>4, <2>6, <2>7
<1>9. CASE UNCHANGED linkVars
  BY <1>9 DEF linkVars, publisherVars, monitorVars, Numbered, Active
<1> QED
  BY <1>1, <1>4, <1>5, <1>6, <1>7, <1>8, <1>9 DEF LinkNext

\* An unmarked frame is of the state shown before or of the next one.
LEMMA UnmarkedFollows ==
  ASSUME OneRound, LinkTypes, Numbered, NEW p \in wire, slot # None, ~Anomalous(p.frame)
  PROVE  p.frame.epoch \in {slot.epoch, slot.epoch + 1}
<1>1. /\ p.frame.epoch \in 0..ChangesMax /\ slot.epoch \in 0..ChangesMax
      /\ p.frame.state_number = StateAt(p.frame.epoch)
      /\ slot.state_number = StateAt(slot.epoch)
  <2>1. p.frame.epoch \in Nat /\ slot.epoch \in Nat /\ changes \in Nat
    BY DEF LinkTypes, Packets, Frames, Slots
  <2> QED
    BY <2>1, PublisherAssumption DEF Numbered, Numbers
<1>2. CASE p.frame.state_number = slot.state_number
  BY <1>1, <1>2, StatesTold
<1>3. CASE p.frame.state_number # slot.state_number
  <2>1. p.frame.state_number = NextState(slot.state_number)
    BY <1>3 DEF Anomalous, Classify, NextState
  <2> QED
    BY <1>1, <2>1, StatesTold
<1> QED
  BY <1>2, <1>3

\* The monitor never passes over a state, or goes back to one, without showing
\* an anomaly (NoSilentSkip), also where stNum wraps past 0 and whatever the
\* network did to the frames, within one round of stNum.
THEOREM NeverSilentStateSkip == OneRound => (LinkSpec => NoSilentSkip)
<1> SUFFICES ASSUME OneRound PROVE LinkSpec => NoSilentSkip
  OBVIOUS
<1>1. LinkInit => LinkTypes /\ Numbered
  <2> SUFFICES ASSUME LinkInit PROVE LinkTypes /\ Numbered
    OBVIOUS
  <2>1. ScheduleInv
    BY PublisherAssumption DEF LinkInit, PublisherInit, ScheduleInv
  <2> QED
    BY <2>1, PublisherAssumption
      DEF LinkInit, PublisherInit, MonitorInit, LinkTypes, Numbered, Active
<1>2. LinkTypes /\ Numbered /\ [LinkNext]_linkVars => LinkTypes' /\ Numbered'
  BY TypesKept, NumberedKept
<1>3. ASSUME LinkTypes, Numbered, [LinkNext]_linkVars,
             slot # None, slot' # None, ~slot'.anomaly
      PROVE  slot'.epoch \in {slot.epoch, slot.epoch + 1}
  <2>1. ASSUME NEW p \in wire, Arrive(p) PROVE slot'.epoch \in {slot.epoch, slot.epoch + 1}
    BY <1>3, <2>1, ArrivalTyped, UnmarkedFollows
  <2>2. ASSUME slot'.epoch = slot.epoch PROVE slot'.epoch \in {slot.epoch, slot.epoch + 1}
    BY <2>2
  <2>3. ASSUME ExpiryScan \/ Tick PROVE slot'.epoch = slot.epoch
    BY <1>3, <2>3, SlotKept DEF ExpiryScan, Tick
  <2>4. ASSUME UNCHANGED monitorVars PROVE slot'.epoch = slot.epoch
    BY <2>4 DEF monitorVars
  <2>5. ASSUME UserStep PROVE slot'.epoch = slot.epoch
    BY <1>3, <2>5 DEF UserStep, StopCapture, StartCapture, Clear
  <2> QED
    BY <1>3, <2>1, <2>2, <2>3, <2>4, <2>5
      DEF LinkNext, PublisherStep, Deliver, DeliverTwice, Lose, Hold, linkVars
<1>4. LinkTypes /\ Numbered /\ [LinkNext]_linkVars
        => [slot # None /\ slot' # None /\ slot'.session = slot.session /\ ~slot'.anomaly =>
              slot'.epoch \in {slot.epoch, slot.epoch + 1}]_linkVars
  BY <1>3
<1> QED
  BY <1>1, <1>2, <1>4, PTL DEF LinkSpec, NoSilentSkip

=============================================================================
