--------------------------- MODULE BrcbServerProofs ---------------------------
(***************************************************************************)
(* The control block under its clients: whatever associations, attribute   *)
(* writes, polls and commits do, the runtime underneath only ever takes    *)
(* its own steps, reporting runs only for a connected owner, a reservation *)
(* is honoured, and a client that follows its reports never misses one     *)
(* without being told.                                                     *)
(***************************************************************************)
EXTENDS BrcbServer, BrcbRuntimeProofs

-----------------------------------------------------------------------------
(* Every server step is a step of the runtime.                             *)

\* Disabling is a configuration call of the runtime or nothing.
LEMMA DisableIsRuntime ==
  ASSUME enabled \in BOOLEAN, Disable
  PROVE  /\ SetEnabled(FALSE) \/ UNCHANGED runtimeVars
         /\ UNCHANGED <<queueVars, configVars>>
         /\ enabled' = FALSE
<1>1. CASE enabled
  BY <1>1 DEF Disable, SetEnabled
<1>2. CASE ~enabled
  BY <1>2 DEF Disable, runtimeVars, scheduleVars
<1> QED
  BY <1>1, <1>2

\* What the steps of the associations do to the runtime.
LEMMA AssociationIsRuntime ==
  ASSUME ServerTypeOK, NEW a \in Associations,
         Open(a) \/ Break(a) \/ Close(a) \/ Poll(a) \/ ExpireReservation
         \/ \E s \in ResvSeconds : WriteResvTms(a, s)
  PROVE  /\ SetEnabled(FALSE) \/ UNCHANGED runtimeVars
         /\ UNCHANGED <<queueVars, configVars, now>>
<1>0. enabled \in BOOLEAN
  BY DEF ServerTypeOK, TypeOK
<1>1. CASE Open(a) \/ Break(a) \/ Poll(a)
  BY <1>1 DEF Open, Break, Poll, runtimeVars
<1>2. CASE Close(a)
  <2>1. (Disable \/ UNCHANGED runtimeVars) /\ UNCHANGED now
    BY <1>2 DEF Close, OnAssociationClosed, Tick
  <2> QED
    BY <1>0, <2>1, DisableIsRuntime DEF runtimeVars
<1>3. CASE ExpireReservation
  BY <1>0, <1>3, DisableIsRuntime DEF ExpireReservation, Tick
<1>4. ASSUME NEW s \in ResvSeconds, WriteResvTms(a, s)
      PROVE  /\ SetEnabled(FALSE) \/ UNCHANGED runtimeVars
             /\ UNCHANGED <<queueVars, configVars, now>>
  <2>1. (Disable \/ UNCHANGED runtimeVars) /\ UNCHANGED now
    BY <1>4 DEF WriteResvTms, Request, Reserve, Release, Tick
  <2> QED
    BY <1>0, <2>1, DisableIsRuntime DEF runtimeVars
<1> QED
  BY <1>1, <1>2, <1>3, <1>4

\* What the configuration writes of a client do to the runtime.
LEMMA ConfigurationIsRuntime ==
  ASSUME ServerTypeOK, NEW a \in Associations,
         (\E on \in BOOLEAN : WriteRptEna(a, on)) \/ WriteConfiguration(a) \/ WriteGI(a)
  PROVE  /\ Configure \/ UNCHANGED runtimeVars
         /\ UNCHANGED <<queueVars, now>>
<1>0. enabled \in BOOLEAN
  BY DEF ServerTypeOK, TypeOK
<1>1. ASSUME NEW on \in BOOLEAN, WriteRptEna(a, on)
      PROVE  (Configure \/ UNCHANGED runtimeVars) /\ UNCHANGED <<queueVars, now>>
  <2>1. (Disable \/ SetEnabled(on) \/ UNCHANGED runtimeVars) /\ UNCHANGED now
    BY <1>1 DEF WriteRptEna, Request, Tick, SetReportEnabled, Attempt
  <2>2. SetEnabled(on) \/ SetEnabled(FALSE) \/ UNCHANGED runtimeVars
    BY <1>0, <2>1, DisableIsRuntime
  <2>3. Configure \/ UNCHANGED runtimeVars
    BY <2>2 DEF Configure
  <2> QED
    BY <2>1, <2>2, <2>3 DEF SetEnabled, runtimeVars
<1>2. CASE WriteConfiguration(a)
  <2>1. /\ UNCHANGED now
        /\ \/ UNCHANGED runtimeVars
           \/ \E v \in OptionalSettings : SetOptionalFields(v)
           \/ \E v \in TriggerSettings : SetTriggerOptions(v)
           \/ \E v \in IntegrityPeriods : SetIntegrityPeriod(v)
    BY <1>2 DEF WriteConfiguration, Request, ControlSetOptionalFields,
       ControlSetTriggerOptions, ControlSetIntegrityPeriod, Attempt
  <2>2. UNCHANGED queueVars
    BY <2>1 DEF SetOptionalFields, SetTriggerOptions, SetIntegrityPeriod,
       ForgetSchedule, runtimeVars
  <2> QED
    BY <2>1, <2>2 DEF Configure
<1>3. CASE WriteGI(a)
  BY <1>3 DEF WriteGI, Request, ControlGeneralInterrogation, Attempt, Configure,
     RequestGeneralInterrogation, runtimeVars
<1> QED
  BY <1>1, <1>2, <1>3

\* What the writes and commits that move the cursor do to the runtime.
LEMMA CursorIsRuntime ==
  ASSUME ServerTypeOK, NEW a \in Associations,
         \/ WritePurgeBuf(a) \/ CommitSent(a)
         \/ \E e \in 0..EntryMax : WriteEntryID(a, e)
         \/ \E e \in 1..EntryMax : HostReplayFrom(a, e)
  PROVE  /\ Consumer \/ UNCHANGED runtimeVars
         /\ UNCHANGED <<configVars, scheduleVars, now>>
<1>1. CASE WritePurgeBuf(a)
  BY <1>1 DEF WritePurgeBuf, Request, ControlPurgeBuffer, Attempt, Consumer,
     PurgeBuffer, runtimeVars
<1>2. CASE CommitSent(a)
  <2>1. staged[a] # 0 => staged[a] \in 1..EntryMax
    BY DEF ServerTypeOK
  <2> QED
    BY <1>2, <2>1 DEF CommitSent, Attempt, Consumer, CommitDelivery, runtimeVars
<1>3. ASSUME NEW e \in 0..EntryMax, WriteEntryID(a, e)
      PROVE  /\ Consumer \/ UNCHANGED runtimeVars
             /\ UNCHANGED <<configVars, scheduleVars, now>>
  <2>1. e = 0 \/ e \in 1..EntryMax
    BY RuntimeAssumption
  <2>2. UNCHANGED now
    BY <1>3 DEF WriteEntryID, Request
  <2>3. RewindToOldest \/ (e \in 1..EntryMax /\ ResumeAfter(e)) \/ UNCHANGED runtimeVars
    BY <1>3, <2>1 DEF WriteEntryID, ControlRewindToOldest, ControlResumeAfter, Attempt
  <2> QED
    BY <2>2, <2>3 DEF Consumer, RewindToOldest, ResumeAfter, SetCursor, runtimeVars
<1>4. ASSUME NEW e \in 1..EntryMax, HostReplayFrom(a, e)
      PROVE  /\ Consumer \/ UNCHANGED runtimeVars
             /\ UNCHANGED <<configVars, scheduleVars, now>>
  <2>1. UNCHANGED now /\ (ReplayFrom(e) \/ UNCHANGED runtimeVars)
    BY <1>4 DEF HostReplayFrom, Request, ControlReplayFrom, Attempt
  <2> QED
    BY <2>1 DEF Consumer, ReplayFrom, SetCursor, runtimeVars
<1> QED
  BY <1>1, <1>2, <1>3, <1>4

\* Every server step is, of the runtime, one of its own steps or none.
LEMMA ServerStepIsRuntime ==
  ASSUME ServerTypeOK, [ServerNext]_serverVars
  PROVE  [RuntimeNext]_brcbVars
<1>1. ASSUME NEW a \in Associations,
             Open(a) \/ Break(a) \/ Close(a) \/ Poll(a)
             \/ \E s \in ResvSeconds : WriteResvTms(a, s)
      PROVE  [RuntimeNext]_brcbVars
  BY <1>1, AssociationIsRuntime DEF RuntimeNext, Configure, brcbVars
<1>2. ASSUME NEW a \in Associations,
             (\E on \in BOOLEAN : WriteRptEna(a, on)) \/ WriteConfiguration(a) \/ WriteGI(a)
      PROVE  [RuntimeNext]_brcbVars
  BY <1>2, ConfigurationIsRuntime DEF RuntimeNext, brcbVars
<1>3. ASSUME NEW a \in Associations,
             \/ WritePurgeBuf(a) \/ CommitSent(a)
             \/ \E e \in 0..EntryMax : WriteEntryID(a, e)
             \/ \E e \in 1..EntryMax : HostReplayFrom(a, e)
      PROVE  [RuntimeNext]_brcbVars
  BY <1>3, CursorIsRuntime DEF RuntimeNext, brcbVars
<1>4. CASE ExpireReservation
  <2>1. PICK a \in Associations : a \in open
    BY <1>4 DEF ExpireReservation, ServerTypeOK
  <2> QED
    BY <1>4, <2>1, AssociationIsRuntime DEF RuntimeNext, Configure, brcbVars
<1>5. CASE Application \/ PlanStep \/ CaptureStep \/ Clock
  BY <1>5 DEF Application, PlanStep, CaptureStep, Clock, RuntimeNext, Producer
<1>6. CASE UNCHANGED serverVars
  BY <1>6 DEF serverVars
<1> QED
  BY <1>1, <1>2, <1>3, <1>4, <1>5, <1>6 DEF ServerNext

-----------------------------------------------------------------------------
(* Type correctness, and the runtime's specification.                      *)

\* What claiming and giving up the block do to the types.
LEMMA ControlTypes ==
  ASSUME ServerTypeOK
  PROVE  /\ ClearReservation =>
              /\ reserved' \in BOOLEAN /\ owner_connected' \in BOOLEAN
              /\ owner' \in Owners \cup {None} /\ association' \in Associations \cup {None}
              /\ resv_tms' \in ResvSeconds /\ expires_at' \in 0..TimeMax
         /\ \A a \in Associations, s \in ResvSeconds : Claim(a, s) =>
              /\ reserved' \in BOOLEAN /\ owner_connected' \in BOOLEAN
              /\ owner' \in Owners \cup {None} /\ association' \in Associations \cup {None}
              /\ resv_tms' \in ResvSeconds /\ expires_at' \in 0..TimeMax
BY ControlAssumption, ResetRanges DEF ClearReservation, Claim, Owners

\* The control block's part of the state keeps its type.
ControlTypeOK ==
  /\ reserved \in BOOLEAN /\ owner_connected \in BOOLEAN
  /\ owner \in Owners \cup {None} /\ association \in Associations \cup {None}
  /\ resv_tms \in ResvSeconds /\ expires_at \in 0..TimeMax

LEMMA ControlTypeStep ==
  ASSUME ServerTypeOK, [ServerNext]_serverVars
  PROVE  ControlTypeOK'
<1>1. /\ ClearReservation => ControlTypeOK'
      /\ \A a \in Associations, s \in ResvSeconds : Claim(a, s) => ControlTypeOK'
      /\ UNCHANGED controlVars => ControlTypeOK'
  BY ControlTypes DEF ControlTypeOK, ServerTypeOK, controlVars
<1>2. ASSUME NEW a \in Associations, Claimed(a)
      PROVE  ControlTypeOK'
  BY <1>1, <1>2, ControlAssumption DEF Claimed
<1>3. ASSUME NEW a \in Associations, Close(a)
      PROVE  ControlTypeOK'
  <2>1. resv_tms * Second \in Nat /\ now \in 0..TimeMax
    BY ControlAssumption DEF ServerTypeOK, TypeOK
  <2>2. SaturatingAdd(now, resv_tms * Second) \in 0..TimeMax
    BY <2>1, DeadlineRange
  <2> QED
    BY <1>1, <1>3, <2>2 DEF Close, OnAssociationClosed, Tick, ControlTypeOK, ServerTypeOK
<1>4. ASSUME NEW a \in Associations, NEW s \in ResvSeconds, WriteResvTms(a, s)
      PROVE  ControlTypeOK'
  BY <1>1, <1>4 DEF WriteResvTms, Reserve, Release, Tick
<1>5. ASSUME NEW a \in Associations, NEW on \in BOOLEAN, WriteRptEna(a, on)
      PROVE  ControlTypeOK'
  BY <1>1, <1>2, <1>5 DEF WriteRptEna, Tick
<1>6. ASSUME NEW a \in Associations,
             \/ WriteConfiguration(a) \/ WriteGI(a) \/ WritePurgeBuf(a)
             \/ \E e \in 0..EntryMax : WriteEntryID(a, e)
      PROVE  ControlTypeOK'
  BY <1>2, <1>6 DEF WriteConfiguration, WriteGI, WritePurgeBuf, WriteEntryID
<1>7. ASSUME NEW a \in Associations,
             \/ Open(a) \/ Break(a) \/ Poll(a) \/ CommitSent(a)
             \/ \E e \in 1..EntryMax : HostReplayFrom(a, e)
      PROVE  ControlTypeOK'
  BY <1>1, <1>7 DEF Open, Break, Poll, CommitSent, HostReplayFrom
<1>8. CASE ExpireReservation
  BY <1>1, <1>8 DEF ExpireReservation, Tick
<1>9. CASE Application \/ PlanStep \/ CaptureStep \/ Clock \/ UNCHANGED serverVars
  BY <1>1, <1>9 DEF Application, PlanStep, CaptureStep, Clock, serverVars
<1> QED
  BY <1>3, <1>4, <1>5, <1>6, <1>7, <1>8, <1>9 DEF ServerNext

\* Associations and the observer keep their types.
LEMMA ConnectionTypeStep ==
  ASSUME ServerTypeOK, [ServerNext]_serverVars
  PROVE  /\ open' \subseteq Associations /\ broken' \subseteq open'
         /\ staged' \in [Associations -> 0..EntryMax]
         /\ last_got' \in 0..EntryMax /\ tracked' \in BOOLEAN
<1> DEFINE Goal == /\ open' \subseteq Associations /\ broken' \subseteq open'
                   /\ staged' \in [Associations -> 0..EntryMax]
                   /\ last_got' \in 0..EntryMax /\ tracked' \in BOOLEAN
<1>0. /\ open \subseteq Associations /\ broken \subseteq open
      /\ staged \in [Associations -> 0..EntryMax] /\ 0 \in 0..EntryMax
      /\ last_got \in 0..EntryMax /\ tracked \in BOOLEAN /\ enabled \in BOOLEAN
  BY ResetRanges DEF ServerTypeOK, TypeOK
<1>1. ASSUME NEW a \in Associations, Open(a) \/ Break(a) \/ Close(a)
      PROVE  Goal
  BY <1>0, <1>1 DEF Open, Break, Close, observerVars
<1>2. ASSUME NEW a \in Associations, Poll(a)
      PROVE  Goal
  <2>1. Front.entry \in 0..EntryMax
    <3>1. delivery_offset \in 0..Capacity
      BY RuntimeAssumption DEF ServerTypeOK, TypeOK
    <3> QED
      BY <3>1, PhysicalUnrolled DEF Front, At, ServerTypeOK, TypeOK, Slot
  <2> QED
    BY <1>0, <1>2, <2>1 DEF Poll
<1>3. ASSUME NEW a \in Associations, CommitSent(a)
      PROVE  Goal
  BY <1>0, <1>3 DEF CommitSent
<1>4. ASSUME NEW a \in Associations,
             \/ \E on \in BOOLEAN : WriteRptEna(a, on)
             \/ WriteConfiguration(a) \/ WriteGI(a) \/ WritePurgeBuf(a)
             \/ \E s \in ResvSeconds : WriteResvTms(a, s)
      PROVE  Goal
  BY <1>0, <1>4 DEF WriteRptEna, WriteConfiguration, WriteGI, WritePurgeBuf,
     WriteResvTms, Request, connectionVars
<1>5. ASSUME NEW a \in Associations,
             \/ \E e \in 0..EntryMax : WriteEntryID(a, e)
             \/ \E e \in 1..EntryMax : HostReplayFrom(a, e)
      PROVE  Goal
  BY <1>0, <1>5 DEF WriteEntryID, HostReplayFrom, Request, connectionVars
<1>6. CASE ExpireReservation \/ Application \/ PlanStep \/ CaptureStep \/ Clock
           \/ UNCHANGED serverVars
  BY <1>0, <1>6 DEF ExpireReservation, Application, PlanStep, CaptureStep, Clock,
     serverVars, connectionVars, observerVars
<1> QED
  BY <1>1, <1>2, <1>3, <1>4, <1>5, <1>6 DEF ServerNext

LEMMA ServerTypeStep ==
  ASSUME ServerTypeOK, [ServerNext]_serverVars
  PROVE  ServerTypeOK'
<1>1. TypeOK'
  BY ServerStepIsRuntime, TypeStep DEF ServerTypeOK
<1> QED
  BY <1>1, ControlTypeStep, ConnectionTypeStep DEF ServerTypeOK, ControlTypeOK

\* For any clients and any instance, the server's state keeps its type.
THEOREM ServerTypeCorrect == ServerSpec => []ServerTypeOK
<1>1. ServerInit => ServerTypeOK
  <2>1. RuntimeInit => TypeOK
    BY EmptyTypes, ResetRanges DEF RuntimeInit, TypeOK
  <2> QED
    BY <2>1, ControlAssumption, ResetRanges
       DEF ServerInit, ControlInit, ServerTypeOK
<1> QED
  BY <1>1, ServerTypeStep, PTL DEF ServerSpec

\* Whatever its clients do, the server keeps to the runtime's specification:
\* everything proved of the runtime alone holds in the server.
THEOREM ServerImplementsRuntime == ServerSpec => RuntimeSpec
<1>1. ServerInit => RuntimeInit
  BY DEF ServerInit, ControlInit
<1>2. ServerTypeOK /\ [ServerNext]_serverVars => [RuntimeNext]_brcbVars
  BY ServerStepIsRuntime
<1> QED
  BY <1>1, <1>2, ServerTypeCorrect, PTL DEF ServerSpec, RuntimeSpec

-----------------------------------------------------------------------------
(* Ownership.                                                              *)

\* A connected owner holds the block through an established association of
\* its own, and reporting runs only for a connected owner.  EnabledHasLiveOwner
\* alone is not inductive: it says nothing of a block that is held and idle.
LiveOwner ==
  /\ owner_connected => /\ reserved /\ association \in open
                        /\ OwnerOf[association] = owner
  /\ enabled => owner_connected

\* Claiming keeps that for an open association, whatever follows; giving the
\* block up keeps it if reporting stops.
LEMMA ClaimLive ==
  ASSUME ServerTypeOK, LiveOwner, NEW a \in open', Claimed(a), open \subseteq open'
  PROVE  LiveOwner'
BY DEF Claimed, Claim, OwnsLiveAssociation, SameOwner, LiveOwner, controlVars

\* A step that touches neither the block's holder nor an association and does
\* not enable reporting keeps it.
LEMMA UntouchedLive ==
  ASSUME LiveOwner, UNCHANGED controlVars, open \subseteq open', enabled' => enabled
  PROVE  LiveOwner'
BY DEF LiveOwner, controlVars

LEMMA LiveOwnerStep ==
  ASSUME ServerTypeOK, LiveOwner, [ServerNext]_serverVars
  PROVE  LiveOwner'
<1>0. enabled \in BOOLEAN /\ owner_connected \in BOOLEAN
  BY DEF ServerTypeOK, TypeOK
<1>1. ASSUME Tick
      PROVE  LiveOwner'
  BY <1>0, <1>1, DisableIsRuntime DEF Tick, ClearReservation, LiveOwner
<1>2. ASSUME NEW a \in Associations, Open(a) \/ Break(a) \/ Poll(a)
      PROVE  LiveOwner'
  BY <1>2, UntouchedLive DEF Open, Break, Poll, runtimeVars, scheduleVars
<1>3. ASSUME NEW a \in Associations, Close(a)
      PROVE  LiveOwner'
  <2>1. CASE OwnsLiveAssociation(a)
    <3>1. Disable /\ owner_connected' = FALSE
      BY <1>3, <2>1 DEF Close, OnAssociationClosed, ClearReservation
    <3> QED
      BY <1>0, <3>1, DisableIsRuntime DEF LiveOwner
  <2>2. CASE ~OwnsLiveAssociation(a) /\ Expired
    BY <1>1, <1>3, <2>2 DEF Close, OnAssociationClosed
  <2>3. CASE ~OwnsLiveAssociation(a) /\ ~Expired
    <3>1. UNCHANGED <<runtimeVars, controlVars>> /\ open' = open \ {a}
      BY <1>3, <2>3 DEF Close, OnAssociationClosed
    <3>2. owner_connected => association # a
      BY <2>3 DEF LiveOwner, OwnsLiveAssociation, SameOwner
    <3> QED
      BY <3>1, <3>2 DEF LiveOwner, controlVars, runtimeVars, scheduleVars
  <2> QED
    BY <2>1, <2>2, <2>3
<1>4. ASSUME NEW a \in Associations, NEW s \in ResvSeconds, WriteResvTms(a, s)
      PROVE  LiveOwner'
  <2>1. a \in open /\ open' = open
    BY <1>4 DEF WriteResvTms, Request, connectionVars
  <2>2. CASE Reserve(a, s)
    BY <2>1, <2>2 DEF Reserve, Claim, LiveOwner
  <2>3. CASE Release(a)
    BY <2>3 DEF Release, ClearReservation, LiveOwner, runtimeVars, scheduleVars
  <2> QED
    BY <1>1, <1>4, <2>2, <2>3 DEF WriteResvTms
<1>5. ASSUME NEW a \in Associations, a \in open, open' = open, Claimed(a)
      PROVE  LiveOwner'
  BY <1>5, ClaimLive
<1>6. ASSUME NEW a \in Associations, NEW on \in BOOLEAN, WriteRptEna(a, on)
      PROVE  LiveOwner'
  BY <1>1, <1>5, <1>6 DEF WriteRptEna, Request, connectionVars
<1>7. ASSUME NEW a \in Associations,
             \/ WriteConfiguration(a) \/ WriteGI(a) \/ WritePurgeBuf(a)
             \/ \E e \in 0..EntryMax : WriteEntryID(a, e)
      PROVE  LiveOwner'
  BY <1>5, <1>7 DEF WriteConfiguration, WriteGI, WritePurgeBuf, WriteEntryID,
     Request, connectionVars
<1>8. ASSUME NEW a \in Associations,
             CommitSent(a) \/ \E e \in 1..EntryMax : HostReplayFrom(a, e)
      PROVE  LiveOwner'
  <2>1. UNCHANGED <<controlVars, open>>
    BY <1>8 DEF CommitSent, HostReplayFrom, Request, connectionVars
  <2>2. UNCHANGED scheduleVars
    BY <1>8, CursorIsRuntime
  <2> QED
    BY <2>1, <2>2, UntouchedLive DEF scheduleVars
<1>9. CASE ExpireReservation
  BY <1>1, <1>9 DEF ExpireReservation
<1>10. CASE Application \/ PlanStep \/ CaptureStep \/ Clock \/ UNCHANGED serverVars
  <2>1. UNCHANGED <<controlVars, open>>
    BY <1>10 DEF Application, PlanStep, CaptureStep, Clock, connectionVars, serverVars
  <2>2. UNCHANGED enabled
    BY <1>10 DEF Application, PlanStep, CaptureStep, Clock, serverVars, Notify,
       NextDue, Capture, AdvanceClock, brcbVars, runtimeVars, scheduleVars
  <2> QED
    BY <2>1, <2>2, UntouchedLive
<1> QED
  BY <1>2, <1>3, <1>4, <1>6, <1>7, <1>8, <1>9, <1>10 DEF ServerNext

LEMMA LiveOwnerInvariant == ServerSpec => []LiveOwner
<1>1. ServerInit => LiveOwner
  BY DEF ServerInit, ControlInit, RuntimeInit, LiveOwner
<1>2. ServerTypeOK /\ LiveOwner /\ [ServerNext]_serverVars => LiveOwner'
  BY LiveOwnerStep
<1> QED
  BY <1>1, <1>2, ServerTypeCorrect, PTL DEF ServerSpec

\* However associations are lost, expire, are released and reclaimed, reporting
\* is never enabled without a connected owner on an established association.
THEOREM EnabledAlwaysOwned == ServerSpec => []EnabledHasLiveOwner
<1>1. LiveOwner => EnabledHasLiveOwner
  BY DEF LiveOwner, EnabledHasLiveOwner
<1> QED
  BY <1>1, LiveOwnerInvariant, PTL

\* Until its ResvTms has run out, nothing that other clients, the application
\* or the server's loop do takes the block from a client that lost its
\* association, nor moves its cursor, its reports or its configuration.
THEOREM ReservationAlwaysHonoured == ServerSpec => ReservationHonoured
<1> DEFINE Held == reserved /\ ~owner_connected /\ ~Expired
           Kept == owner' = owner /\ UNCHANGED <<slots, delivery_offset, configVars>>
<1>1. ASSUME ServerTypeOK, LiveOwner, [ServerNext]_serverVars, Held
      PROVE  Kept
  <2>0. ~enabled /\ ~Free
    BY <1>1 DEF LiveOwner, Free
  <2>1. \A a \in Associations : ~Claimed(a) /\ ~OwnsLiveAssociation(a)
    BY <1>1, <2>0 DEF Claimed, OwnsLiveAssociation
  <2>2. ~Tick
    BY <1>1 DEF Tick
  <2>3. ASSUME NEW a \in Associations, Open(a) \/ Break(a) \/ Close(a) \/ CommitSent(a)
        PROVE  Kept
    <3>1. UNCHANGED <<runtimeVars, controlVars>>
      BY <1>1, <2>1, <2>3 DEF Open, Break, Close, OnAssociationClosed, CommitSent, Attempt
    <3> QED
      BY <3>1 DEF runtimeVars, queueVars, controlVars
  <2>4. ASSUME NEW a \in Associations, NEW s \in ResvSeconds, WriteResvTms(a, s)
        PROVE  Kept
    <3>1. Reserve(a, s)
      BY <2>0, <2>1, <2>4 DEF WriteResvTms, Release
    <3>2. SameOwner(a) /\ UNCHANGED runtimeVars /\ owner' = OwnerOf[a]
      BY <1>1, <2>0, <3>1 DEF Reserve, Claim
    <3> QED
      BY <3>2 DEF SameOwner, runtimeVars, queueVars
  <2>5. ASSUME NEW a \in Associations
        PROVE  /\ \A on \in BOOLEAN : ~WriteRptEna(a, on)
               /\ ~WriteConfiguration(a) /\ ~WriteGI(a) /\ ~WritePurgeBuf(a)
               /\ \A e \in 0..EntryMax : ~WriteEntryID(a, e)
               /\ \A e \in 1..EntryMax : ~HostReplayFrom(a, e)
               /\ ~Poll(a)
    BY <2>0, <2>1 DEF WriteRptEna, WriteConfiguration, WriteGI, WritePurgeBuf,
       WriteEntryID, HostReplayFrom, Poll
  <2>6. CASE Application \/ PlanStep \/ CaptureStep
    BY <2>0, <2>6 DEF Application, PlanStep, CaptureStep, Notify, NotifyAccepted,
       NextDue, Capture, PlanAccepted
  <2>7. CASE Clock \/ UNCHANGED serverVars
    BY <2>7 DEF Clock, AdvanceClock, serverVars, brcbVars, runtimeVars, queueVars,
       controlVars
  <2>8. ~ExpireReservation
    BY <2>2 DEF ExpireReservation
  <2> QED
    BY <1>1, <2>3, <2>4, <2>5, <2>6, <2>7, <2>8 DEF ServerNext
<1>2. ServerTypeOK /\ LiveOwner /\ [ServerNext]_serverVars => [Held => Kept]_serverVars
  BY <1>1
<1> QED
  BY <1>2, ServerTypeCorrect, LiveOwnerInvariant, PTL DEF ServerSpec, ReservationHonoured

-----------------------------------------------------------------------------
(* Delivery.                                                               *)

\* The watched client speaks through one association at a time.
OneAssociation ==
  \A a, b \in Associations : OwnerOf[a] = Watched /\ OwnerOf[b] = Watched => a = b

\* A report on its way to the watched client is the last one it received,
\* unless its peer is gone and the cursor is no longer followed.
StagedIsLast ==
  \A a \in Associations :
    OwnerOf[a] = Watched /\ staged[a] # 0 /\ (a \notin broken \/ tracked)
      => staged[a] = last_got

\* Where the cursor of a followed client stands: on the report it received last
\* or on the next one, captured or not, or with an overflow mark ahead.
CursorFollows ==
  tracked => \/ OverflowMarkAhead
             \/ /\ delivery_offset < count
                /\ At(delivery_offset).entry \in {last_got, NextEntryNumber(last_got)}
             \/ /\ delivery_offset = count
                /\ next_entry_number = NextEntryNumber(last_got)

LEMMA StagedIsLastStep ==
  ASSUME ServerTypeOK, OneAssociation, StagedIsLast, [ServerNext]_serverVars
  PROVE  StagedIsLast'
<1>0. /\ staged \in [Associations -> 0..EntryMax] /\ broken \subseteq open
      /\ tracked \in BOOLEAN
  BY DEF ServerTypeOK
<1>1. ASSUME UNCHANGED <<staged, broken, last_got>>, tracked' => tracked
      PROVE  StagedIsLast'
  BY <1>1 DEF StagedIsLast
<1>2. ASSUME NEW a \in Associations, Open(a) \/ Break(a) \/ Close(a) \/ CommitSent(a)
      PROVE  StagedIsLast'
  <2>1. CASE Open(a) \/ Break(a)
    BY <1>0, <2>1 DEF Open, Break, StagedIsLast, observerVars
  <2>2. CASE Close(a) \/ CommitSent(a)
    <3>1. /\ staged' = [staged EXCEPT ![a] = 0] /\ last_got' = last_got
      BY <1>0, <2>2 DEF Close, CommitSent, observerVars
    <3>2. tracked' => tracked
      BY <1>0, <2>2 DEF Close, CommitSent, observerVars
    <3>3. \A b \in Associations : b # a /\ b \notin broken' => b \notin broken
      BY <2>2 DEF Close, CommitSent
    <3> QED
      BY <1>0, <3>1, <3>2, <3>3 DEF StagedIsLast
  <2> QED
    BY <1>2, <2>1, <2>2
<1>3. ASSUME NEW a \in Associations, Poll(a)
      PROVE  StagedIsLast'
  <2>1. broken' = broken /\ staged' = [staged EXCEPT ![a] = Front.entry]
    BY <1>3 DEF Poll
  <2>2. CASE a \notin broken /\ OwnerOf[a] = Watched
    <3>1. last_got' = Front.entry
      BY <1>3, <2>2 DEF Poll
    <3>2. \A b \in Associations : OwnerOf[b] = Watched => b = a
      BY <2>2 DEF OneAssociation
    <3> QED
      BY <1>0, <2>1, <3>1, <3>2 DEF StagedIsLast
  <2>3. CASE ~(a \notin broken /\ OwnerOf[a] = Watched)
    <3>1. last_got' = last_got /\ tracked' = FALSE
      BY <1>3, <2>3 DEF Poll
    <3>2. \A b \in Associations : OwnerOf[b] = Watched /\ b \notin broken => b # a
      BY <2>3
    <3> QED
      BY <1>0, <2>1, <3>1, <3>2 DEF StagedIsLast
  <2> QED
    BY <2>2, <2>3
<1>4. ASSUME NEW a \in Associations,
             \/ \E on \in BOOLEAN : WriteRptEna(a, on)
             \/ WriteConfiguration(a) \/ WriteGI(a) \/ WritePurgeBuf(a)
             \/ \E s \in ResvSeconds : WriteResvTms(a, s)
      PROVE  StagedIsLast'
  BY <1>0, <1>1, <1>4 DEF WriteRptEna, WriteConfiguration, WriteGI, WritePurgeBuf,
     WriteResvTms, Request, connectionVars
<1>5. ASSUME NEW a \in Associations,
             \/ \E e \in 0..EntryMax : WriteEntryID(a, e)
             \/ \E e \in 1..EntryMax : HostReplayFrom(a, e)
      PROVE  StagedIsLast'
  <2>1. a \notin broken /\ UNCHANGED <<staged, broken, last_got>>
    BY <1>5 DEF WriteEntryID, HostReplayFrom, Request, connectionVars
  <2>2. tracked' /\ ~tracked => OwnerOf[a] = Watched
    BY <1>5 DEF WriteEntryID, HostReplayFrom
  <2>3. CASE OwnerOf[a] = Watched
    <3>1. \A b \in Associations : OwnerOf[b] = Watched => b = a
      BY <2>3 DEF OneAssociation
    <3> QED
      BY <2>1, <3>1 DEF StagedIsLast
  <2> QED
    BY <1>1, <2>1, <2>2, <2>3
<1>6. CASE ExpireReservation \/ Application \/ PlanStep \/ CaptureStep \/ Clock
           \/ UNCHANGED serverVars
  BY <1>1, <1>6 DEF ExpireReservation, Application, PlanStep, CaptureStep, Clock,
     serverVars, connectionVars, observerVars
<1> QED
  BY <1>2, <1>3, <1>4, <1>5, <1>6 DEF ServerNext

\* A capture keeps the cursor of a followed client where it should be: if the
\* report under it is displaced, the new one carries the mark.
LEMMA CursorFollowsCapture ==
  ASSUME TypeOK, CursorFollows, Capture, UNCHANGED <<last_got, tracked>>
  PROVE  CursorFollows'
<1> DEFINE d == delivery_offset
           g == last_got
<1>0. PICK slot : CaptureOf(slot)
  BY CaptureWrites
<1>1. /\ Capacity \in Nat \ {0} /\ count \in 0..Capacity /\ d \in 0..count
      /\ slot \in Slot /\ Enqueue(slot)
      /\ slot.entry = next_entry_number /\ slot.overflow = Overflowing
  BY <1>0, RuntimeAssumption, CapturedNumbers DEF TypeOK
<1>2. SUFFICES ASSUME tracked
               PROVE  \/ \E i \in delivery_offset'..(count' - 1) : At(i)'.overflow
                      \/ /\ delivery_offset' < count'
                         /\ At(delivery_offset)'.entry \in {g, NextEntryNumber(g)}
  BY DEF CursorFollows, OverflowMarkAhead
<1>3. CASE ~Full
  <2>1. /\ count' = count + 1 /\ delivery_offset' = d
        /\ \A i \in 0..count : At(i)' = IF i = count THEN slot ELSE At(i)
    BY <1>1, <1>3, EnqueueGrows DEF Enqueue, Full
  <2>2. At(delivery_offset)' = IF d = count THEN slot ELSE At(d)
    <3>1. d \in 0..count
      BY <1>1
    <3>2. At(delivery_offset)' = At(d)'
      BY <2>1 DEF At, Physical
    <3> QED
      BY <2>1, <3>1
  <2>3. ASSUME NEW i \in d..(count - 1), At(i).overflow
        PROVE  i \in d..count /\ At(i)'.overflow
    <3>1. i \in 0..count /\ i # count /\ i \in d..count
      BY <1>1
    <3> QED
      BY <2>1, <2>3, <3>1
  <2>4. d <= count /\ count' - 1 = count /\ (d < count' <=> d <= count)
    BY <1>1, <2>1
  <2> QED
    BY <1>1, <1>2, <2>1, <2>2, <2>3, <2>4 DEF CursorFollows, OverflowMarkAhead
<1>4. CASE Full /\ d = 0
  <2>1. /\ count' = count /\ delivery_offset' = 0 /\ count - 1 \in 0..(count - 1)
        /\ At(count - 1)' = slot
    <3>1. count' = count /\ delivery_offset' = 0 /\ count - 1 \in 0..(count - 1)
      BY <1>1, <1>4, EnqueueShifts DEF Enqueue, Full
    <3>2. \A i \in 0..(count - 1) : At(i)' = IF i = count - 1 THEN slot ELSE At(i + 1)
      BY <1>1, <1>4, EnqueueShifts
    <3> QED
      BY <3>1, <3>2
  <2>2. slot.overflow
    BY <1>1, <1>4 DEF Overflowing
  <2> QED
    BY <2>1, <2>2
<1>5. CASE Full /\ d # 0
  <2>1. /\ count' = count /\ count = Capacity /\ delivery_offset' = d - 1
        /\ \A i \in 0..(count - 1) : At(i)' = IF i = count - 1 THEN slot ELSE At(i + 1)
    BY <1>1, <1>5, EnqueueShifts DEF Enqueue, Full
  <2>2. At(delivery_offset)' = IF d = count THEN slot ELSE At(d)
    <3>1. d - 1 \in 0..(count - 1) /\ (d - 1 = count - 1 <=> d = count) /\ d - 1 + 1 = d
      BY <1>1, <1>5
    <3>2. PICK k \in 0..(count - 1) : k = d - 1
      BY <3>1
    <3>3. At(delivery_offset)' = At(k)'
      BY <2>1, <3>2 DEF At, Physical
    <3>4. At(k)' = IF d = count THEN slot ELSE At(d)
      BY <2>1, <3>1, <3>2
    <3> QED
      BY <3>3, <3>4
  <2>3. ASSUME NEW i \in d..(count - 1), At(i).overflow
        PROVE  \E j \in (d - 1)..(count - 1) : At(j)'.overflow
    <3>1. PICK k \in 0..(count - 1) : k = i - 1
      BY <1>1, <1>5
    <3>2. k # count - 1 /\ k + 1 = i /\ k \in (d - 1)..(count - 1)
      BY <1>1, <3>1
    <3> QED
      BY <2>1, <2>3, <3>2
  <2>4. d - 1 < count
    BY <1>1
  <2> QED
    BY <1>1, <1>2, <2>1, <2>2, <2>3, <2>4 DEF CursorFollows, OverflowMarkAhead
<1> QED
  BY <1>3, <1>4, <1>5

\* After a cursor moves past a report, the next one or the counter follows it.
LEMMA CursorAfter ==
  ASSUME TypeOK, RetainedConsecutive, NEW i \in 0..(count - 1), UNCHANGED cursorOnly,
         delivery_offset' = i + 1, At(i).entry = last_got'
  PROVE  CursorFollows'
<1>1. Capacity \in Nat \ {0} /\ count \in 0..Capacity
  BY RuntimeAssumption DEF TypeOK
<1>2. \A j : At(j)' = At(j)
  BY DEF cursorOnly, At, Physical
<1>3. CASE i + 1 = count
  <2>1. next_entry_number = NextEntryNumber(At(count - 1).entry) /\ count - 1 = i
    BY <1>1, <1>3 DEF RetainedConsecutive
  <2> QED
    BY <1>3, <2>1 DEF CursorFollows, cursorOnly
<1>4. CASE i + 1 # count
  <2>1. i + 1 \in 1..(count - 1) /\ i + 1 - 1 = i /\ i + 1 < count
    BY <1>1, <1>4
  <2>2. At(i + 1).entry = NextEntryNumber(At(i).entry)
    BY <2>1 DEF RetainedConsecutive
  <2>3. At(delivery_offset)' = At(i + 1)
    BY DEF cursorOnly, At, Physical
  <2> QED
    BY <2>1, <2>2, <2>3 DEF CursorFollows, cursorOnly
<1> QED
  BY <1>3, <1>4

LEMMA CursorFollowsStep ==
  ASSUME ServerTypeOK, RetainedConsecutive, StagedIsLast, CursorFollows,
         [ServerNext]_serverVars
  PROVE  CursorFollows'
<1>0. /\ TypeOK /\ tracked \in BOOLEAN /\ Capacity \in Nat \ {0}
      /\ count \in 0..Capacity /\ delivery_offset \in 0..count
  BY RuntimeAssumption DEF ServerTypeOK, TypeOK
<1>1. ASSUME UNCHANGED <<queueVars, last_got>>, tracked' => tracked
      PROVE  CursorFollows'
  BY <1>1 DEF CursorFollows, OverflowMarkAhead, queueVars, At, Physical
<1>2. ~tracked' => CursorFollows'
  BY DEF CursorFollows
<1>3. ASSUME NEW a \in Associations, Open(a) \/ Break(a) \/ Close(a)
      PROVE  CursorFollows'
  <2>1. UNCHANGED queueVars
    BY <1>3, AssociationIsRuntime
  <2> QED
    BY <1>1, <1>3, <2>1 DEF Open, Break, Close, observerVars
<1>4. ASSUME NEW a \in Associations,
             (\E on \in BOOLEAN : WriteRptEna(a, on)) \/ WriteConfiguration(a) \/ WriteGI(a)
      PROVE  CursorFollows'
  <2>1. UNCHANGED queueVars
    BY <1>4, ConfigurationIsRuntime
  <2> QED
    BY <1>1, <1>4, <2>1 DEF WriteRptEna, WriteConfiguration, WriteGI, Request
<1>5. ASSUME NEW a \in Associations, NEW s \in ResvSeconds, WriteResvTms(a, s)
      PROVE  CursorFollows'
  <2>1. UNCHANGED queueVars
    BY <1>5, AssociationIsRuntime
  <2> QED
    BY <1>1, <1>5, <2>1 DEF WriteResvTms, Request
<1>6. ASSUME NEW a \in Associations, WritePurgeBuf(a)
      PROVE  CursorFollows'
  BY <1>0, <1>1, <1>2, <1>6 DEF WritePurgeBuf, Request, ControlPurgeBuffer, Attempt,
     runtimeVars
<1>7. ASSUME NEW a \in Associations, Poll(a)
      PROVE  CursorFollows'
  <2>1. tracked' => last_got' = Front.entry
    BY <1>7 DEF Poll
  <2>2. HasFront /\ UNCHANGED runtimeVars
    BY <1>7 DEF Poll
  <2> QED
    BY <2>1, <2>2 DEF CursorFollows, HasFront, Front, At, Physical, runtimeVars, queueVars
<1>8. ASSUME NEW a \in Associations, CommitSent(a)
      PROVE  CursorFollows'
  <2>1. /\ last_got' = last_got /\ staged[a] # 0
        /\ tracked' = (tracked /\ (delivery_offset' # delivery_offset => OwnerOf[a] = Watched))
    BY <1>8 DEF CommitSent
  <2>2. CASE UNCHANGED runtimeVars
    BY <1>0, <1>1, <2>1, <2>2 DEF runtimeVars
  <2>3. CASE CommitDelivery(staged[a]) /\ tracked'
    <3>1. /\ delivery_offset \in 0..(count - 1) /\ UNCHANGED cursorOnly
          /\ delivery_offset' = delivery_offset + 1
          /\ At(delivery_offset).entry = staged[a]
      BY <1>0, <2>3 DEF CommitDelivery, HasFront, Front
    <3>2. OwnerOf[a] = Watched /\ tracked
      <4>1. delivery_offset' # delivery_offset
        BY <1>0, <3>1
      <4> QED
        BY <2>1, <2>3, <4>1
    <3>3. staged[a] = last_got
      BY <2>1, <3>2 DEF StagedIsLast
    <3> QED
      BY <1>0, <2>1, <3>1, <3>3, CursorAfter
  <2> QED
    BY <1>2, <1>8, <2>2, <2>3 DEF CommitSent, Attempt
<1>9. ASSUME NEW a \in Associations, NEW e \in 0..EntryMax, WriteEntryID(a, e)
      PROVE  CursorFollows'
  <2>1. /\ last_got' = last_got
        /\ tracked' = IF enabled \/ (e # 0 /\ FindEntry(e) = {}) THEN tracked
                      ELSE OwnerOf[a] = Watched /\ e # 0 /\ e = last_got
    BY <1>9 DEF WriteEntryID, Request
  <2>2. CASE enabled \/ (e # 0 /\ FindEntry(e) = {})
    <3>1. UNCHANGED runtimeVars
      BY <1>9, <2>2 DEF WriteEntryID, ControlRewindToOldest, ControlResumeAfter, Attempt
    <3> QED
      BY <1>1, <2>1, <2>2, <3>1 DEF runtimeVars
  <2>3. CASE ~(enabled \/ (e # 0 /\ FindEntry(e) = {})) /\ tracked'
    <3>1. e # 0 /\ e = last_got
      BY <2>1, <2>3
    <3>2. ResumeAfter(e)
      BY <1>9, <2>3, <3>1 DEF WriteEntryID, ControlResumeAfter, Attempt
    <3>3. PICK i \in FindEntry(e) : SetCursor(i + 1)
      BY <3>2 DEF ResumeAfter
    <3>4. i \in 0..(count - 1) /\ At(i).entry = e
      BY DEF FindEntry
    <3>5. delivery_offset' = i + 1 /\ UNCHANGED cursorOnly
      BY <3>3 DEF SetCursor
    <3> QED
      BY <1>0, <2>1, <3>1, <3>4, <3>5, CursorAfter
  <2> QED
    BY <1>2, <2>2, <2>3
<1>10. ASSUME NEW a \in Associations, NEW e \in 1..EntryMax, HostReplayFrom(a, e)
       PROVE  CursorFollows'
  <2>1. /\ last_got' = last_got
        /\ tracked' = IF enabled \/ FindEntry(e) = {} THEN tracked
                      ELSE OwnerOf[a] = Watched /\ e = last_got
    BY <1>10 DEF HostReplayFrom, Request
  <2>2. CASE enabled \/ FindEntry(e) = {}
    <3>1. UNCHANGED runtimeVars
      BY <1>10, <2>2 DEF HostReplayFrom, ControlReplayFrom, Attempt
    <3> QED
      BY <1>1, <2>1, <2>2, <3>1 DEF runtimeVars
  <2>3. CASE ~(enabled \/ FindEntry(e) = {}) /\ tracked'
    <3>1. e = last_got
      BY <2>1, <2>3
    <3>2. ReplayFrom(e)
      BY <1>10, <2>3 DEF HostReplayFrom, ControlReplayFrom, Attempt
    <3>3. PICK i \in FindEntry(e) : SetCursor(i)
      BY <3>2 DEF ReplayFrom
    <3>4. i \in 0..(count - 1) /\ At(i).entry = e /\ i < count
      BY <1>0 DEF FindEntry
    <3>5. delivery_offset' = i /\ UNCHANGED cursorOnly
      BY <3>3 DEF SetCursor
    <3>6. At(delivery_offset)' = At(i) /\ delivery_offset' < count'
      BY <3>4, <3>5 DEF cursorOnly, At, Physical
    <3> QED
      BY <2>1, <3>1, <3>4, <3>6 DEF CursorFollows
  <2> QED
    BY <1>2, <2>2, <2>3
<1>11. CASE ExpireReservation
  <2>1. PICK a \in Associations : a \in open
    BY <1>11 DEF ExpireReservation, ServerTypeOK
  <2>2. UNCHANGED queueVars
    BY <1>11, <2>1, AssociationIsRuntime
  <2> QED
    BY <1>1, <1>11, <2>2 DEF ExpireReservation, observerVars
<1>12. CASE CaptureStep
  BY <1>0, <1>12, CursorFollowsCapture DEF CaptureStep, observerVars
<1>13. CASE Application \/ PlanStep \/ Clock \/ UNCHANGED serverVars
  <2>1. UNCHANGED <<queueVars, observerVars>>
    BY <1>13 DEF Application, PlanStep, Clock, Notify, NextDue, AdvanceClock,
       serverVars, brcbVars, runtimeVars
  <2> QED
    BY <1>1, <2>1 DEF observerVars
<1> QED
  BY <1>3, <1>4, <1>5, <1>6, <1>7, <1>8, <1>9, <1>10, <1>11, <1>12, <1>13 DEF ServerNext

\* A client that speaks through one association at a time and follows its
\* reports, connected or resuming after the last one it got, receives that one
\* again, the next one, or has a report with the overflow mark coming.
THEOREM NeverSilentSkip ==
  ASSUME OneAssociation
  PROVE  ServerSpec => NoSilentSkip
<1> DEFINE Told ==
       \A a \in Associations :
         Receives(a) /\ tracked =>
           \/ staged'[a] \in {last_got, NextEntryNumber(last_got)}
           \/ OverflowMarkAhead
<1>1. ServerInit => StagedIsLast /\ CursorFollows
  BY DEF ServerInit, StagedIsLast, CursorFollows
<1>2. /\ ServerTypeOK /\ StagedIsLast /\ CursorFollows /\ RetainedConsecutive
      /\ [ServerNext]_serverVars
      => StagedIsLast' /\ CursorFollows'
  BY StagedIsLastStep, CursorFollowsStep
<1>3. ASSUME ServerTypeOK, CursorFollows, [ServerNext]_serverVars
      PROVE  Told
  <2>1. SUFFICES ASSUME NEW a \in Associations, Receives(a), tracked
                 PROVE  \/ staged'[a] \in {last_got, NextEntryNumber(last_got)}
                        \/ OverflowMarkAhead
    OBVIOUS
  <2>2. staged[a] = 0 /\ staged'[a] # 0 /\ staged \in [Associations -> 0..EntryMax]
    BY <1>3, <2>1 DEF Receives, ServerTypeOK
  <2>3. HasFront /\ staged'[a] = Front.entry
    <3>1. ASSUME NEW b \in Associations, Poll(b)
          PROVE  HasFront /\ staged'[a] = Front.entry
      <4>1. HasFront /\ staged' = [staged EXCEPT ![b] = Front.entry]
        BY <3>1 DEF Poll
      <4> QED
        BY <2>2, <4>1
    <3>2. ASSUME NEW b \in Associations, Close(b) \/ CommitSent(b)
          PROVE  FALSE
      <4>1. staged' = [staged EXCEPT ![b] = 0]
        BY <3>2 DEF Close, CommitSent
      <4> QED
        BY <2>2, <4>1
    <3>3. ASSUME NEW b \in Associations,
                 \/ Open(b) \/ Break(b)
                 \/ \E on \in BOOLEAN : WriteRptEna(b, on)
                 \/ WriteConfiguration(b) \/ WriteGI(b) \/ WritePurgeBuf(b)
                 \/ \E e \in 0..EntryMax : WriteEntryID(b, e)
                 \/ \E e \in 1..EntryMax : HostReplayFrom(b, e)
                 \/ \E s \in ResvSeconds : WriteResvTms(b, s)
          PROVE  FALSE
      BY <2>2, <3>3 DEF Open, Break, WriteRptEna, WriteConfiguration, WriteGI,
         WritePurgeBuf, WriteEntryID, HostReplayFrom, WriteResvTms, Request,
         connectionVars
    <3>4. CASE ExpireReservation \/ Application \/ PlanStep \/ CaptureStep \/ Clock
               \/ UNCHANGED serverVars
      BY <2>2, <3>4 DEF ExpireReservation, Application, PlanStep, CaptureStep, Clock,
         connectionVars, serverVars
    <3> QED
      BY <1>3, <3>1, <3>2, <3>3, <3>4 DEF ServerNext
  <2>4. delivery_offset < count /\ delivery_offset \in Int /\ count \in Int
    BY <1>3, <2>3, RuntimeAssumption DEF HasFront, ServerTypeOK, TypeOK
  <2> QED
    BY <1>3, <2>1, <2>3, <2>4 DEF CursorFollows, Front
<1>4. ServerTypeOK /\ CursorFollows /\ [ServerNext]_serverVars => [Told]_serverVars
  BY <1>3
<1> QED
  BY <1>1, <1>2, <1>4, ServerTypeCorrect, ServerImplementsRuntime,
     RetainedAlwaysConsecutive, PTL DEF ServerSpec, NoSilentSkip

=============================================================================
