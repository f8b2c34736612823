-------------------------- MODULE BrcbRuntimeProofs --------------------------
(***************************************************************************)
(* What holds of the BRCB runtime for every ring size and counter width.   *)
(*                                                                         *)
(* Reports by age carry numbers that count back from the newest one        *)
(* (Consecutive, NumberedBack), whatever the ring does to its slots; as    *)
(* the ring is shorter than the range of numbers they differ, and the ring *)
(* is a log.  A plan for a capture knows whether what it was made for has  *)
(* moved since (PlanKnows).                                                *)
(***************************************************************************)
EXTENDS BrcbRuntime, FiniteSetTheorems, TLAPS

-----------------------------------------------------------------------------
(* Facts about the widths.                                                 *)

\* The two counters wrap inside their ranges.
LEMMA CounterRanges ==
  /\ \A n \in 0..EntryMax : NextEntryNumber(n) \in 1..EntryMax
  /\ \A n \in 0..(SqMod - 1) : NextSequenceNumber(n) \in 0..(SqMod - 1)
  /\ \A n \in 0..(DropMod - 1) : (n + 1) % DropMod \in 0..(DropMod - 1)
<1>1. /\ EntryMax \in Nat \ {0} /\ SqMod \in Nat \ {0} /\ DropMod \in Nat \ {0}
  BY RuntimeAssumption
<1> QED
  BY <1>1 DEF NextEntryNumber, NextSequenceNumber

\* Deadlines saturate inside the clock's range.
LEMMA DeadlineRange ==
  \A t \in 0..TimeMax, d \in Nat : SaturatingAdd(t, d) \in 0..TimeMax
  BY RuntimeAssumption DEF SaturatingAdd

LEMMA PeriodRange ==
  \A p \in Nat : EffectiveIntegrityPeriod(p) \in Nat
  BY RuntimeAssumption DEF EffectiveIntegrityPeriod

\* The values the counters are reset to are in range.
LEMMA ResetRanges ==
  /\ 0 \in 0..TimeMax /\ 0 \in 0..(SqMod - 1) /\ 0 \in 0..(DropMod - 1)
  /\ 0 \in 0..(Capacity - 1) /\ 0 \in 0..Capacity /\ 0 \in 0..0
  /\ 0 \in 0..EntryMax /\ 1 \in 1..EntryMax
  BY RuntimeAssumption

\* Clearing the schedule and the slots yields well-typed values.
LEMMA EmptyTypes ==
  /\ NoMasks \in Masks /\ EmptySlot \in Slot
  /\ NoPending \in Pending /\ NoPlan \in Plan
  BY RuntimeAssumption
     DEF NoMasks, Masks, EmptySlot, Slot, NoPending, Pending, NoPlan, Plan

\* Bumping revision counters keeps the plan well-typed.
LEMMA BumpType ==
  ASSUME plan \in Plan, NEW S, Bump(S)
  PROVE  plan' \in Plan
  BY EmptyTypes DEF Bump, Plan

-----------------------------------------------------------------------------
(* Type correctness.                                                       *)

\* The plan next_due hands out is well-typed.
LEMMA PlanForType ==
  ASSUME TypeOK, NEW due \in 0..TimeMax
  PROVE  PlanFor(due) \in Plan
<1>1. NextSequenceNumber(sequence_number) \in 0..(SqMod - 1)
  BY CounterRanges DEF TypeOK
<1>2. next_entry_number \in 0..EntryMax /\ now \in 0..TimeMax
  BY DEF TypeOK
<1>3. Overflowing \in BOOLEAN
  BY DEF Overflowing
<1> QED
  BY <1>1, <1>2, <1>3, EmptyTypes DEF PlanFor, Plan, Revisions

\* The capture that writes this report.
CaptureOf(slot) ==
  /\ Capture
  /\ Enqueue(slot)
  /\ \E bytes \in ReportSizes[plan.reason] :
       bytes <= SlotSize[Target] /\ slot = CapturedSlot(bytes)

LEMMA CaptureWrites == Capture => \E slot : CaptureOf(slot)
BY DEF Capture, CaptureOf

\* The report a capture writes is well-typed and fits its slot.
LEMMA CapturedSlotType ==
  ASSUME TypeOK, NEW slot, CaptureOf(slot)
  PROVE  /\ slot \in Slot
         /\ slot.occupied = TRUE
         /\ slot.entry = plan.entry
         /\ slot.sq = plan.sq
         /\ slot.overflow = plan.overflow
         /\ plan.reason = "event" => slot.masks = pending.masks
         /\ slot.bytes \in Nat \ {0} /\ slot.bytes <= SlotSize[Target]
<1>1. plan \in Plan /\ pending.masks \in Masks /\ plan.reason # "none"
  BY DEF TypeOK, Pending, CaptureOf, Capture, PlanAccepted
<1>2. plan.reason # "event" => plan.reason \in Triggers
  BY <1>1 DEF Plan, Triggers
<1>3. PICK bytes \in ReportSizes[plan.reason] :
        bytes <= SlotSize[Target] /\ slot = CapturedSlot(bytes)
  BY DEF CaptureOf
<1>4. plan.reason \in {"event", "integrity", "general_interrogation"}
  BY <1>1 DEF Plan
<1>5. bytes \in Nat \ {0}
  BY <1>3, <1>4, RuntimeAssumption
<1>6. [m \in Members |-> {plan.reason}] \in Masks \/ plan.reason = "event"
  BY <1>2 DEF Masks
<1> QED
  BY <1>1, <1>3, <1>5, <1>6 DEF CapturedSlot, Slot, Plan

\* Writing a report into the ring keeps the queue well-typed.
LEMMA EnqueueType ==
  ASSUME TypeOK, NEW slot \in Slot, Enqueue(slot)
  PROVE  /\ slots' \in [0..(Capacity - 1) -> Slot]
         /\ head' \in 0..(Capacity - 1)
         /\ count' \in 0..Capacity
         /\ delivery_offset' \in 0..count'
         /\ next_entry_number' \in 1..EntryMax
         /\ sequence_number' \in 0..(SqMod - 1)
         /\ dropped_reports' \in 0..(DropMod - 1)
         /\ replay_gap' \in BOOLEAN
<1>0. Capacity \in Nat \ {0}
  BY RuntimeAssumption
<1>1. slot.entry \in 0..EntryMax /\ slot.sq \in 0..(SqMod - 1)
  BY DEF Slot
<1>2. next_entry_number' \in 1..EntryMax /\ sequence_number' \in 0..(SqMod - 1)
  BY <1>1, CounterRanges DEF Enqueue
<1>3. /\ head \in 0..(Capacity - 1) /\ count \in 0..Capacity
      /\ delivery_offset \in 0..count /\ dropped_reports \in 0..(DropMod - 1)
      /\ replay_gap \in BOOLEAN /\ slots \in [0..(Capacity - 1) -> Slot]
  BY DEF TypeOK
<1>4. slots' \in [0..(Capacity - 1) -> Slot]
  BY <1>3 DEF Enqueue, Target
<1>5. head' \in 0..(Capacity - 1)
  <2>1. (head + 1) % Capacity \in 0..(Capacity - 1)
    BY <1>0, <1>3
  <2> QED
    BY <2>1, <1>3 DEF Enqueue
<1>6. dropped_reports' \in 0..(DropMod - 1)
  BY <1>3, CounterRanges DEF Enqueue
<1>7. count' \in 0..Capacity /\ delivery_offset' \in 0..count'
  BY <1>0, <1>3 DEF Enqueue, Full
<1>8. replay_gap' \in BOOLEAN
  BY <1>3 DEF Enqueue
<1> QED
  BY <1>2, <1>4, <1>5, <1>6, <1>7, <1>8

\* Every call of the runtime keeps the type invariant.
LEMMA TypeStep ==
  ASSUME TypeOK, [RuntimeNext]_brcbVars
  PROVE  TypeOK'
<1> USE DEF TypeOK
<1>1. ASSUME NEW on \in BOOLEAN, SetEnabled(on), UNCHANGED now
      PROVE  TypeOK'
  <2>1. integrity_armed' \in BOOLEAN
    BY <1>1 DEF SetEnabled
  <2> QED
    BY <1>1, <2>1, BumpType, EmptyTypes, ResetRanges
       DEF SetEnabled, queueVars, configVars
<1>2. ASSUME NEW v \in OptionalSettings, SetOptionalFields(v), UNCHANGED now
      PROVE  TypeOK'
  BY <1>2, BumpType, EmptyTypes, ResetRanges DEF SetOptionalFields, ForgetSchedule, queueVars
<1>3. ASSUME NEW v \in TriggerSettings, SetTriggerOptions(v), UNCHANGED now
      PROVE  TypeOK'
  BY <1>3, BumpType, EmptyTypes, ResetRanges DEF SetTriggerOptions, ForgetSchedule, queueVars
<1>4. ASSUME NEW v \in IntegrityPeriods, SetIntegrityPeriod(v), UNCHANGED now
      PROVE  TypeOK'
  BY <1>4, BumpType, EmptyTypes, ResetRanges DEF SetIntegrityPeriod, ForgetSchedule, queueVars
<1>5. ASSUME RequestGeneralInterrogation, UNCHANGED now
      PROVE  TypeOK'
  BY <1>5, BumpType DEF RequestGeneralInterrogation, queueVars, configVars
<1>6. ASSUME NEW m \in Members, NEW r \in EventReasons, Notify(m, r), UNCHANGED now
      PROVE  TypeOK'
  <2>1. pending' \in Pending
    <3>1. SaturatingAdd(now, BufferTime) \in 0..TimeMax
      BY RuntimeAssumption, DeadlineRange
    <3>2. r \in Triggers
      BY DEF Triggers
    <3>3. [pending.masks EXCEPT ![m] = @ \cup {r}] \in Masks
      BY <3>2 DEF Pending, Masks
    <3> QED
      BY <1>6, <3>1, <3>3 DEF Notify, Pending
  <2> QED
    BY <1>6, <2>1, BumpType DEF Notify, queueVars, configVars
<1>7. ASSUME NextDue, UNCHANGED now
      PROVE  TypeOK'
  <2>1. integrity_period \in Nat
    BY RuntimeAssumption
  <2>2. integrity_due' \in 0..TimeMax
    BY <1>7, <2>1, PeriodRange, DeadlineRange DEF NextDue
  <2>3. plan' = PlanFor(integrity_due')
    BY <1>7 DEF NextDue
  <2>4. plan' \in Plan
    BY <2>2, <2>3, PlanForType
  <2> QED
    BY <1>7, <2>2, <2>4 DEF NextDue, queueVars, configVars
<1>8. ASSUME Capture, UNCHANGED now
      PROVE  TypeOK'
  <2>1. PICK slot \in Slot : Enqueue(slot)
    BY <1>8, CaptureWrites, CapturedSlotType DEF CaptureOf
  <2>2. integrity_due' \in 0..TimeMax
    <3>1. integrity_period \in Nat /\ plan.observed \in 0..TimeMax
      BY RuntimeAssumption DEF Plan
    <3>2. EffectiveIntegrityPeriod(integrity_period) \in Nat
      BY <3>1, PeriodRange
    <3>3. SaturatingAdd(plan.observed, EffectiveIntegrityPeriod(integrity_period))
            \in 0..TimeMax
      BY <3>1, <3>2, DeadlineRange
    <3> QED
      BY <1>8, <3>3, ResetRanges DEF Capture, Rearm
  <2>3. /\ pending' \in Pending /\ gi_pending' \in BOOLEAN
        /\ integrity_armed' \in BOOLEAN
    BY <1>8, EmptyTypes DEF Capture, Rearm
  <2>4. plan' \in Plan
    BY <1>8, BumpType DEF Capture, Rearm
  <2>5. UNCHANGED <<configVars, enabled>>
    BY <1>8 DEF Capture
  <2> QED
    BY <1>8, <2>1, <2>2, <2>3, <2>4, <2>5, EnqueueType DEF configVars
<1>9. ASSUME NEW e \in 1..EntryMax, CommitDelivery(e), UNCHANGED now
      PROVE  TypeOK'
  <2>1. delivery_offset' \in 0..count'
    BY <1>9, RuntimeAssumption DEF CommitDelivery, HasFront, cursorOnly
  <2> QED
    BY <1>9, <2>1, BumpType DEF CommitDelivery, cursorOnly, configVars, scheduleVars
<1>10. ASSUME NEW k \in 0..count, SetCursor(k), UNCHANGED now
       PROVE  TypeOK'
  BY <1>10, BumpType DEF SetCursor, cursorOnly, configVars, scheduleVars
<1>11. ASSUME NEW e \in 1..EntryMax, ReplayFrom(e) \/ ResumeAfter(e), UNCHANGED now
       PROVE  TypeOK'
  <2>1. \A i \in FindEntry(e) : i \in 0..count /\ i + 1 \in 0..count
    BY RuntimeAssumption DEF FindEntry
  <2>2. \E k \in 0..count : SetCursor(k)
    BY <1>11, <2>1 DEF ReplayFrom, ResumeAfter
  <2> QED
    BY <1>10, <1>11, <2>2
<1>12. ASSUME RewindToOldest, UNCHANGED now
       PROVE  TypeOK'
  BY <1>10, <1>12, RuntimeAssumption DEF RewindToOldest
<1>13. ASSUME PurgeBuffer, UNCHANGED now
       PROVE  TypeOK'
  BY <1>13, BumpType, EmptyTypes, ResetRanges
     DEF PurgeBuffer, configVars, scheduleVars
<1>14. ASSUME AdvanceClock
       PROVE  TypeOK'
  BY <1>14, RuntimeAssumption
     DEF AdvanceClock, runtimeVars, queueVars, configVars, scheduleVars
<1>15. CASE UNCHANGED brcbVars
  BY <1>15 DEF brcbVars, runtimeVars, queueVars, configVars, scheduleVars
<1> QED
  BY <1>1, <1>2, <1>3, <1>4, <1>5, <1>6, <1>7, <1>8, <1>9, <1>11, <1>12,
     <1>13, <1>14, <1>15
     DEF RuntimeNext, Producer, Configure, Consumer

\* Every reachable state of the runtime is well-typed, for any ring size,
\* data set and counter width.
THEOREM RuntimeTypeCorrect == RuntimeSpec => []TypeOK
<1>1. RuntimeInit => TypeOK
  BY EmptyTypes, ResetRanges DEF RuntimeInit, TypeOK
<1> QED
  BY <1>1, TypeStep, PTL DEF RuntimeSpec

-----------------------------------------------------------------------------
(* The ring seen from the oldest report on.                                *)

\* A logical position as a ring index, with the modulus unrolled.
LEMMA PhysicalUnrolled ==
  ASSUME TypeOK, NEW i \in 0..Capacity
  PROVE  /\ Physical(i) \in 0..(Capacity - 1)
         /\ Physical(i) = IF head + i < Capacity THEN head + i
                          ELSE head + i - Capacity
<1>1. Capacity \in Nat \ {0} /\ head \in 0..(Capacity - 1)
  BY RuntimeAssumption DEF TypeOK
<1>2. /\ (head + i) % Capacity \in 0..(Capacity - 1)
      /\ head + i < Capacity => (head + i) % Capacity = head + i
      /\ head + i >= Capacity => (head + i) % Capacity = head + i - Capacity
  BY <1>1
<1>3. head + i \in Int /\ Capacity \in Int
  BY <1>1
<1> QED
  BY <1>2, <1>3 DEF Physical

\* Two logical positions of the ring are two different slots.
LEMMA RingInjective ==
  ASSUME TypeOK, NEW i \in 0..(Capacity - 1), NEW j \in 0..(Capacity - 1), i # j
  PROVE  Physical(i) # Physical(j)
<1>1. Capacity \in Nat \ {0} /\ head \in 0..(Capacity - 1)
  BY RuntimeAssumption DEF TypeOK
<1>2. i \in 0..Capacity /\ j \in 0..Capacity
  BY <1>1
<1>3. Physical(i) = IF head + i < Capacity THEN head + i ELSE head + i - Capacity
  BY <1>2, PhysicalUnrolled
<1>4. Physical(j) = IF head + j < Capacity THEN head + j ELSE head + j - Capacity
  BY <1>2, PhysicalUnrolled
<1> QED
  BY <1>1, <1>3, <1>4

\* While there is room, a capture leaves every retained report where it was
\* and puts the new one at the end.
LEMMA EnqueueGrows ==
  ASSUME TypeOK, NEW slot \in Slot, Enqueue(slot), ~Full
  PROVE  /\ count' = count + 1 /\ count + 1 \in 1..Capacity
         /\ \A i \in 0..count : At(i)' = IF i = count THEN slot ELSE At(i)
<1>1. /\ Capacity \in Nat \ {0} /\ head \in 0..(Capacity - 1)
      /\ count \in 0..(Capacity - 1) /\ slots \in [0..(Capacity - 1) -> Slot]
  BY RuntimeAssumption DEF TypeOK, Full
<1>2. /\ head' = head /\ count' = count + 1
      /\ slots' = [slots EXCEPT ![Physical(count)] = slot]
  BY DEF Enqueue, Target
<1>3. ASSUME NEW i \in 0..count
      PROVE  At(i)' = IF i = count THEN slot ELSE At(i)
  <2>1. i \in 0..(Capacity - 1) /\ i \in 0..Capacity
    BY <1>1
  <2>2. Physical(i)' = Physical(i) /\ Physical(i) \in 0..(Capacity - 1)
    BY <1>2, <2>1, PhysicalUnrolled DEF Physical
  <2>3. i # count => Physical(i) # Physical(count)
    BY <1>1, <2>1, RingInjective
  <2> QED
    BY <1>1, <1>2, <2>2, <2>3 DEF At
<1> QED
  BY <1>1, <1>2, <1>3

\* When the ring is full, a capture drops the oldest report, shifts the
\* others towards the front and puts the new one at the end.
LEMMA EnqueueShifts ==
  ASSUME TypeOK, NEW slot \in Slot, Enqueue(slot), Full
  PROVE  /\ count' = count /\ count = Capacity
         /\ \A i \in 0..(count - 1) :
              At(i)' = IF i = count - 1 THEN slot ELSE At(i + 1)
<1>1. /\ Capacity \in Nat \ {0} /\ head \in 0..(Capacity - 1)
      /\ count = Capacity /\ slots \in [0..(Capacity - 1) -> Slot]
  BY RuntimeAssumption DEF TypeOK, Full
<1>2. /\ head' = (head + 1) % Capacity /\ count' = count
      /\ slots' = [slots EXCEPT ![head] = slot]
  BY DEF Enqueue, Target
<1>3. head' = IF head + 1 < Capacity THEN head + 1 ELSE 0
  <2>1. /\ head + 1 < Capacity => (head + 1) % Capacity = head + 1
        /\ head + 1 >= Capacity => (head + 1) % Capacity = head + 1 - Capacity
    BY <1>1
  <2> QED
    BY <1>1, <1>2, <2>1
<1>4. ASSUME NEW i \in 0..(count - 1)
      PROVE  At(i)' = IF i = count - 1 THEN slot ELSE At(i + 1)
  <2>1. i \in 0..Capacity /\ i + 1 \in 0..Capacity /\ head' \in 0..(Capacity - 1)
    BY <1>1, <1>3
  <2>2. Physical(i)' = (head' + i) % Capacity
    BY DEF Physical
  <2>3. Physical(i)' = IF head' + i < Capacity THEN head' + i
                       ELSE head' + i - Capacity
    <3>1. ASSUME NEW h \in 0..(Capacity - 1)
          PROVE  (h + i) % Capacity = IF h + i < Capacity THEN h + i
                                      ELSE h + i - Capacity
      BY <1>1, <2>1
    <3> QED
      BY <2>1, <2>2, <3>1, Zenon
  <2>4. /\ Physical(i + 1) \in 0..(Capacity - 1)
        /\ Physical(i + 1) = IF head + (i + 1) < Capacity THEN head + (i + 1)
                             ELSE head + (i + 1) - Capacity
    BY <2>1, PhysicalUnrolled
  <2>5. Physical(i)' = Physical(i + 1)
    BY <1>1, <1>3, <2>3, <2>4
  <2>6. (Physical(i + 1) = head) <=> (i = count - 1)
    BY <1>1, <2>4
  <2> QED
    BY <1>1, <1>2, <2>4, <2>5, <2>6 DEF At
<1> QED
  BY <1>1, <1>2, <1>4

-----------------------------------------------------------------------------
(* The retained reports are numbered consecutively.                        *)

\* The ring as a function of the logical position, and the invariant as a
\* statement about such a function v with n reports, next number e, last sequence number s.
View == [i \in 0..(Capacity - 1) |-> At(i)]
Consecutive(v, n, e, s) ==
  /\ \A i \in 0..(n - 1) : v[i].occupied /\ v[i].entry # 0
  /\ \A i \in 1..(n - 1) : /\ v[i].entry = NextEntryNumber(v[i - 1].entry)
                           /\ v[i].sq = NextSequenceNumber(v[i - 1].sq)
  /\ n # 0 => e = NextEntryNumber(v[n - 1].entry) /\ s = v[n - 1].sq

LEMMA ConsecutiveView ==
  ASSUME count \in 0..Capacity
  PROVE  RetainedConsecutive <=>
           Consecutive(View, count, next_entry_number, sequence_number)
<1>0. Capacity \in Nat \ {0}
  BY RuntimeAssumption
<1>1. \A i \in 0..(count - 1) : View[i] = At(i)
  BY <1>0 DEF View
<1>2. \A i \in 1..(count - 1) : i - 1 \in 0..(count - 1) /\ i \in 0..(count - 1)
  BY <1>0
<1>3. count # 0 => count - 1 \in 0..(count - 1)
  BY <1>0
<1> HIDE DEF View
<1> QED
  BY <1>1, <1>2, <1>3 DEF RetainedConsecutive, Consecutive

\* The same fact about the state after a step, for its view v and size n.
LEMMA ConsecutiveViewNext ==
  ASSUME NEW v, NEW n \in 0..Capacity, count' = n,
         \A i \in 0..(Capacity - 1) : At(i)' = v[i],
         Consecutive(v, n, next_entry_number', sequence_number')
  PROVE  RetainedConsecutive'
<1>0. Capacity \in Nat \ {0}
  BY RuntimeAssumption
<1>1. \A i \in 0..(n - 1) : At(i)' = v[i]
  BY <1>0
<1>2. \A i \in 1..(n - 1) : At(i - 1)' = v[i - 1] /\ At(i)' = v[i]
  BY <1>0
<1>3. n # 0 => At(n - 1)' = v[n - 1]
  BY <1>0
<1>4. n # 0 => At(count - 1)' = v[n - 1]
  BY <1>3 DEF At, Physical
<1> QED
  BY <1>1, <1>2, <1>4 DEF RetainedConsecutive, Consecutive

\* A capture continues the numbering.
LEMMA CaptureConsecutive ==
  ASSUME TypeOK, RetainedConsecutive, Capture
  PROVE  RetainedConsecutive'
<1>0. PICK slot : CaptureOf(slot)
  BY CaptureWrites
<1>1. /\ slot \in Slot /\ slot.occupied = TRUE /\ Enqueue(slot)
      /\ slot.entry = next_entry_number
      /\ slot.sq = NextSequenceNumber(sequence_number)
  BY <1>0, CapturedSlotType DEF CaptureOf, Capture, PlanAccepted
<1>2. /\ next_entry_number' = NextEntryNumber(slot.entry)
      /\ sequence_number' = slot.sq
  BY <1>1 DEF Enqueue
<1>3. /\ count \in 0..Capacity /\ count' \in 0..Capacity /\ Capacity \in Nat \ {0}
      /\ slot.entry # 0
  BY <1>1, EnqueueType, RuntimeAssumption DEF TypeOK
<1>4. Consecutive(View, count, next_entry_number, sequence_number)
  BY <1>3, ConsecutiveView
<1> DEFINE v == [i \in 0..(Capacity - 1) |-> At(i)']
<1>5. \A i \in 0..(Capacity - 1) : View[i] = At(i)
  BY <1>3 DEF View
<1>8. \A i \in 0..(Capacity - 1) : At(i)' = v[i]
  BY <1>3
<1> HIDE DEF v
<1>6. CASE Full
  <2>1. count' = Capacity /\ count = Capacity
    BY <1>1, <1>6, EnqueueShifts
  <2>2. \A i \in 0..(Capacity - 1) :
          v[i] = IF i = Capacity - 1 THEN slot ELSE View[i + 1]
    <3>1. \A i \in 0..(Capacity - 1) : i # Capacity - 1 => i + 1 \in 0..(Capacity - 1)
      BY <1>3
    <3> QED
      BY <1>1, <1>5, <1>8, <1>6, <2>1, <3>1, EnqueueShifts
  <2>3. Consecutive(v, Capacity, NextEntryNumber(slot.entry), slot.sq)
    BY <1>1, <1>3, <1>4, <2>1, <2>2 DEF Consecutive
  <2> QED
    BY <1>2, <1>3, <1>8, <2>1, <2>3, ConsecutiveViewNext
<1>7. CASE ~Full
  <2>1. count' = count + 1 /\ count + 1 \in 1..Capacity
    BY <1>1, <1>7, EnqueueGrows
  <2>2. \A i \in 0..count : v[i] = IF i = count THEN slot ELSE View[i]
    <3>1. \A i \in 0..count : i \in 0..(Capacity - 1)
      BY <1>3, <2>1
    <3> QED
      BY <1>1, <1>5, <1>8, <1>7, <3>1, EnqueueGrows
  <2>3. Consecutive(v, count + 1, NextEntryNumber(slot.entry), slot.sq)
    BY <1>1, <1>3, <1>4, <2>1, <2>2 DEF Consecutive
  <2> QED
    BY <1>2, <1>3, <1>8, <2>1, <2>3, ConsecutiveViewNext
<1> QED
  BY <1>6, <1>7

\* Only a capture or a purge touches the slots and the numbering.
LEMMA ConsecutiveStep ==
  ASSUME TypeOK, RetainedConsecutive, [RuntimeNext]_brcbVars
  PROVE  RetainedConsecutive'
<1>1. CASE Capture
  BY <1>1, CaptureConsecutive
<1>2. CASE PurgeBuffer
  BY <1>2 DEF PurgeBuffer, RetainedConsecutive
<1>3. CASE UNCHANGED <<slots, head, count, next_entry_number, sequence_number>>
  BY <1>3 DEF RetainedConsecutive, At, Physical
<1>4. \/ Capture \/ PurgeBuffer
      \/ UNCHANGED <<slots, head, count, next_entry_number, sequence_number>>
  BY DEF RuntimeNext, Producer, Configure, Consumer, Notify, NextDue, SetEnabled,
     SetOptionalFields, SetTriggerOptions, SetIntegrityPeriod, ForgetSchedule,
     RequestGeneralInterrogation, CommitDelivery, ReplayFrom, ResumeAfter,
     RewindToOldest, SetCursor, AdvanceClock, brcbVars, runtimeVars, queueVars,
     cursorOnly
<1> QED
  BY <1>1, <1>2, <1>3, <1>4

\* For every ring size and counter width, the retained reports carry
\* consecutive entry and sequence numbers that end where the counters stand.
THEOREM RetainedAlwaysConsecutive == RuntimeSpec => []RetainedConsecutive
<1>1. RuntimeInit => RetainedConsecutive
  BY DEF RuntimeInit, RetainedConsecutive
<1>2. TypeOK /\ RetainedConsecutive /\ [RuntimeNext]_brcbVars => RetainedConsecutive'
  BY ConsecutiveStep
<1> QED
  BY <1>1, <1>2, RuntimeTypeCorrect, PTL DEF RuntimeSpec

-----------------------------------------------------------------------------
(* EntryIDs are unique.                                                    *)

\* The entry number k before n, for k up to EntryMax.
Back(n, k) == IF k < n THEN n - k ELSE n - k + EntryMax

\* The reports by age: consecutive numbers alone do not say that they differ,
\* their distance from the counter does.
NumberedBack ==
  \A i \in 0..(count - 1) : At(i).entry = Back(next_entry_number, count - i)

\* Numbers at different distances from the counter differ, from one another
\* and from the counter, as long as the distances are smaller than the range.
LEMMA BackInjective ==
  ASSUME NEW n \in 1..EntryMax, NEW k \in 1..Capacity
  PROVE  /\ \A j \in 1..Capacity : Back(n, k) = Back(n, j) => k = j
         /\ Back(n, k) # n
  BY RuntimeAssumption DEF Back

\* Counting on moves every number one further away.
LEMMA BackShifts ==
  ASSUME NEW n \in 1..EntryMax, NEW k \in 1..EntryMax
  PROVE  Back(NextEntryNumber(n), k) = IF k = 1 THEN n ELSE Back(n, k - 1)
  BY RuntimeAssumption DEF Back, NextEntryNumber

\* A report that a capture adds is the next one; its overflow mark is as
\* planned, and the counter moves on.
LEMMA CapturedNumbers ==
  ASSUME TypeOK, NEW slot, CaptureOf(slot)
  PROVE  /\ slot \in Slot /\ Enqueue(slot)
         /\ slot.entry = next_entry_number
         /\ slot.overflow = Overflowing
         /\ next_entry_number' = NextEntryNumber(next_entry_number)
         /\ next_entry_number' # next_entry_number
<1>1. /\ slot \in Slot /\ Enqueue(slot)
      /\ slot.entry = next_entry_number /\ slot.overflow = Overflowing
  BY CapturedSlotType DEF CaptureOf, Capture, PlanAccepted
<1>2. next_entry_number' = NextEntryNumber(next_entry_number)
  BY <1>1 DEF Enqueue
<1>3. next_entry_number \in 1..EntryMax /\ EntryMax > 1
  BY RuntimeAssumption DEF TypeOK
<1>4. NextEntryNumber(next_entry_number) # next_entry_number
  BY <1>3 DEF NextEntryNumber
<1> QED
  BY <1>1, <1>2, <1>4

\* Every other call leaves the numbering alone, or empties the ring.
LEMMA OtherSteps ==
  ASSUME TypeOK, [RuntimeNext]_brcbVars
  PROVE  \/ Capture
         \/ PurgeBuffer
         \/ UNCHANGED cursorOnly /\ delivery_offset' \in 0..count
<1>1. delivery_offset \in 0..count /\ 0 \in 0..count /\ count \in Nat
  BY RuntimeAssumption DEF TypeOK
<1>2. ASSUME NEW e \in 1..EntryMax, CommitDelivery(e) \/ ReplayFrom(e) \/ ResumeAfter(e)
      PROVE  UNCHANGED cursorOnly /\ delivery_offset' \in 0..count
  <2>1. CASE CommitDelivery(e)
    BY <1>1, <2>1 DEF CommitDelivery, HasFront
  <2>2. \A i \in FindEntry(e) : i \in 0..count /\ i + 1 \in 0..count
    BY <1>1 DEF FindEntry
  <2> QED
    BY <1>2, <2>1, <2>2 DEF ReplayFrom, ResumeAfter, SetCursor
<1>3. CASE RewindToOldest
  BY <1>1, <1>3 DEF RewindToOldest, SetCursor
<1>4. CASE Producer \/ Configure
  BY <1>1, <1>4 DEF Producer, Configure, Notify, NextDue, SetEnabled,
     SetOptionalFields, SetTriggerOptions, SetIntegrityPeriod, ForgetSchedule,
     RequestGeneralInterrogation, queueVars, cursorOnly
<1>5. CASE AdvanceClock \/ UNCHANGED brcbVars
  BY <1>1, <1>5 DEF AdvanceClock, brcbVars, runtimeVars, queueVars, cursorOnly
<1> QED
  BY <1>2, <1>3, <1>4, <1>5 DEF RuntimeNext, Consumer

\* Every call keeps the distances.
LEMMA NumberedBackStep ==
  ASSUME TypeOK, NumberedBack, [RuntimeNext]_brcbVars
  PROVE  NumberedBack'
<1>1. /\ Capacity \in Nat \ {0} /\ EntryMax \in Nat /\ Capacity < EntryMax
      /\ count \in 0..Capacity /\ next_entry_number \in 1..EntryMax
  BY RuntimeAssumption DEF TypeOK
<1>2. CASE Capture
  <2> DEFINE n == next_entry_number
  <2>0. PICK slot : CaptureOf(slot)
    BY <1>2, CaptureWrites
  <2>1. /\ slot \in Slot /\ Enqueue(slot) /\ slot.entry = n
        /\ n' = NextEntryNumber(n)
    BY <2>0, CapturedNumbers
  <2>2. CASE Full
    <3>1. count' = count /\ count = Capacity
      BY <2>1, <2>2, EnqueueShifts
    <3>2. ASSUME NEW i \in 0..(count - 1)
          PROVE  At(i)'.entry = Back(n', count - i)
      <4>1. At(i)' = IF i = count - 1 THEN slot ELSE At(i + 1)
        BY <2>1, <2>2, EnqueueShifts
      <4>2. Back(n', count - i) = IF count - i = 1 THEN n ELSE Back(n, count - i - 1)
        BY <1>1, <2>1, BackShifts
      <4>3. i # count - 1 => i + 1 \in 0..(count - 1) /\ count - (i + 1) = count - i - 1
        BY <1>1
      <4> QED
        BY <1>1, <2>1, <4>1, <4>2, <4>3 DEF NumberedBack
    <3> QED
      BY <3>1, <3>2 DEF NumberedBack
  <2>3. CASE ~Full
    <3>1. count' = count + 1 /\ count + 1 \in 1..Capacity
      BY <2>1, <2>3, EnqueueGrows
    <3>2. ASSUME NEW i \in 0..count
          PROVE  At(i)'.entry = Back(n', count + 1 - i)
      <4>1. At(i)' = IF i = count THEN slot ELSE At(i)
        BY <2>1, <2>3, EnqueueGrows
      <4>2. Back(n', count + 1 - i) = IF count + 1 - i = 1 THEN n ELSE Back(n, count + 1 - i - 1)
        BY <1>1, <2>1, <3>1, BackShifts
      <4>3. /\ i # count => i \in 0..(count - 1)
            /\ count + 1 - i - 1 = count - i /\ (count + 1 - i = 1 <=> i = count)
        BY <1>1
      <4> QED
        BY <1>1, <2>1, <4>1, <4>2, <4>3 DEF NumberedBack
    <3>3. count' - 1 = count
      BY <1>1, <3>1
    <3> QED
      BY <3>1, <3>2, <3>3 DEF NumberedBack
  <2> QED
    BY <2>2, <2>3
<1>3. CASE PurgeBuffer
  BY <1>3 DEF PurgeBuffer, NumberedBack
<1>4. CASE UNCHANGED cursorOnly
  BY <1>4 DEF cursorOnly, NumberedBack, At, Physical
<1> QED
  BY <1>2, <1>3, <1>4, OtherSteps

LEMMA NumberedBackInvariant == RuntimeSpec => []NumberedBack
<1>1. RuntimeInit => NumberedBack
  BY DEF RuntimeInit, NumberedBack
<1>2. TypeOK /\ NumberedBack /\ [RuntimeNext]_brcbVars => NumberedBack'
  BY NumberedBackStep
<1> QED
  BY <1>1, <1>2, RuntimeTypeCorrect, PTL DEF RuntimeSpec

\* Hence two retained reports never share a number, and none carries the
\* number of the next report.
LEMMA RetainedDiffer ==
  ASSUME TypeOK, NumberedBack
  PROVE  /\ EntryIdsUnique
         /\ \A i \in 0..(count - 1) : At(i).entry # next_entry_number
<1>1. count \in 0..Capacity /\ next_entry_number \in 1..EntryMax /\ Capacity \in Nat
  BY RuntimeAssumption DEF TypeOK
<1>2. \A i \in 0..(count - 1) : count - i \in 1..Capacity
  BY <1>1
<1>3. ASSUME NEW i \in 0..(count - 1), NEW j \in 0..(count - 1), At(i).entry = At(j).entry
      PROVE  i = j
  <2>1. count - i = count - j
    BY <1>1, <1>2, <1>3, BackInjective DEF NumberedBack
  <2> QED
    BY <1>1, <2>1
<1> QED
  BY <1>1, <1>2, <1>3, BackInjective DEF NumberedBack, EntryIdsUnique

\* For every ring smaller than the range of entry numbers, across its
\* wrap-around, an EntryID names at most one retained report.
THEOREM EntryIdsAlwaysUnique == RuntimeSpec => []EntryIdsUnique
<1>1. TypeOK /\ NumberedBack => EntryIdsUnique
  BY RetainedDiffer
<1> QED
  BY <1>1, RuntimeTypeCorrect, NumberedBackInvariant, PTL

-----------------------------------------------------------------------------
(* Losses are never silent.                                                *)

\* A capture loses a report only when it displaces one that was not delivered.
LEMMA CaptureLosses ==
  ASSUME TypeOK, TypeOK', NumberedBack, Capture
  PROVE  /\ Overflowing => Undelivered \ Retained' = {At(0).entry}
         /\ ~Overflowing => Undelivered \ Retained' = {}
<1>0. PICK slot : CaptureOf(slot)
  BY CaptureWrites
<1>1. /\ Capacity \in Nat \ {0} /\ count \in 0..Capacity /\ delivery_offset \in 0..count
      /\ slot \in Slot /\ Enqueue(slot)
      /\ slot.entry = next_entry_number
  BY <1>0, RuntimeAssumption, CapturedNumbers DEF TypeOK
<1>2. Undelivered = {At(i).entry : i \in delivery_offset..(count - 1)}
  BY DEF Undelivered
<1>3. \A x : x \in Retained' <=> \E i \in 0..(count' - 1) : x = At(i)'.entry
  BY DEF Retained
<1>4. CASE ~Full
  <2>1. /\ count' = count + 1
        /\ \A i \in 0..count : At(i)' = IF i = count THEN slot ELSE At(i)
    BY <1>1, <1>4, EnqueueGrows
  <2>2. \A i \in 0..(count - 1) : i \in 0..(count' - 1) /\ At(i)' = At(i)
    BY <1>1, <2>1
  <2>3. \A i \in delivery_offset..(count - 1) : At(i).entry \in Retained'
    BY <1>1, <1>3, <2>2
  <2> QED
    BY <1>2, <1>4, <2>3 DEF Overflowing
<1>5. CASE Full
  <2>1. /\ count' = count /\ count = Capacity
        /\ \A i \in 0..(count - 1) :
             At(i)' = IF i = count - 1 THEN slot ELSE At(i + 1)
    BY <1>1, <1>5, EnqueueShifts
  <2>2. \A i \in 1..(count - 1) : At(i).entry \in Retained'
    <3>1. \A i \in 1..(count - 1) :
            i - 1 \in 0..(count - 1) /\ i - 1 # count - 1 /\ i - 1 + 1 = i
      BY <1>1
    <3>2. \A i \in 1..(count - 1) : At(i - 1)' = At(i)
      BY <2>1, <3>1
    <3> QED
      BY <1>3, <2>1, <3>1, <3>2
  <2>3. At(0).entry \notin Retained'
    <3>1. SUFFICES ASSUME NEW i \in 0..(count - 1)
                   PROVE  At(i)'.entry # At(0).entry
      BY <1>3, <2>1
    <3>2. CASE i = count - 1
      BY <1>1, <2>1, <3>2, RetainedDiffer
    <3>3. CASE i # count - 1
      <4>1. i + 1 \in 0..(count - 1) /\ 0 \in 0..(count - 1) /\ i + 1 # 0
        BY <1>1, <3>3
      <4> QED
        BY <2>1, <3>3, <4>1, RetainedDiffer DEF EntryIdsUnique
    <3> QED
      BY <3>2, <3>3
  <2>4. CASE delivery_offset = 0
    <3>1. \A i \in delivery_offset..(count - 1) : i = 0 \/ i \in 1..(count - 1)
      BY <1>1
    <3>2. 0 \in delivery_offset..(count - 1)
      BY <1>1, <2>1, <2>4
    <3> QED
      BY <1>2, <1>5, <2>2, <2>3, <2>4, <3>1, <3>2 DEF Overflowing
  <2>5. CASE delivery_offset # 0
    <3>1. \A i \in delivery_offset..(count - 1) : i \in 1..(count - 1)
      BY <1>1, <2>5
    <3> QED
      BY <1>2, <2>2, <2>5, <3>1 DEF Overflowing
  <2> QED
    BY <2>4, <2>5
<1> QED
  BY <1>4, <1>5

\* The report a capture wrote is the newest one, and the loss is recorded.
LEMMA CaptureRecords ==
  ASSUME TypeOK, NEW slot, CaptureOf(slot)
  PROVE  /\ count' # 0 /\ Newest' = slot
         /\ Overflowing => /\ replay_gap'
                           /\ dropped_reports' = (dropped_reports + 1) % DropMod
<1>1. /\ Capacity \in Nat \ {0} /\ count \in 0..Capacity
      /\ slot \in Slot /\ Enqueue(slot)
  BY RuntimeAssumption, CapturedNumbers DEF TypeOK
<1>2. Newest' = slots'[(head' + (count' - 1)) % Capacity]
  BY DEF Newest, At, Physical
<1>3. \A i : At(i)' = slots'[(head' + i) % Capacity]
  BY DEF At, Physical
<1>4. CASE Full
  <2>1. /\ count' = count /\ count = Capacity
        /\ \A i \in 0..(count - 1) :
             At(i)' = IF i = count - 1 THEN slot ELSE At(i + 1)
    BY <1>1, <1>4, EnqueueShifts
  <2>2. count - 1 \in 0..(count - 1)
    BY <1>1, <2>1
  <2>3. slots'[(head' + (count - 1)) % Capacity] = slot
    BY <1>3, <2>1, <2>2
  <2>4. delivery_offset = 0 => /\ replay_gap'
                               /\ dropped_reports' = (dropped_reports + 1) % DropMod
    BY <1>1, <1>4 DEF Enqueue
  <2> QED
    BY <1>1, <1>2, <2>1, <2>3, <2>4 DEF Overflowing
<1>5. CASE ~Full
  <2>1. /\ count' = count + 1
        /\ \A i \in 0..count : At(i)' = IF i = count THEN slot ELSE At(i)
    BY <1>1, <1>5, EnqueueGrows
  <2>2. count \in 0..count /\ count' - 1 = count /\ count' # 0
    BY <1>1, <2>1
  <2>3. slots'[(head' + count) % Capacity] = slot
    BY <1>3, <2>1, <2>2
  <2> QED
    BY <1>2, <1>5, <2>2, <2>3 DEF Overflowing
<1> QED
  BY <1>4, <1>5

\* For every ring size and counter width, a report that was never delivered
\* leaves the ring by a purge, or by an overwrite that counts it, raises
\* replay_gap and marks the report that displaced it.
THEOREM NeverSilentOverwrite == RuntimeSpec => NoSilentOverwrite
<1> DEFINE lost == Undelivered \ Retained'
           captured == next_entry_number' # next_entry_number
           Recorded ==
             count' # 0 =>
               /\ lost # {} => /\ captured /\ replay_gap'
                               /\ dropped_reports' = (dropped_reports + 1) % DropMod
                               /\ Cardinality(lost) = 1
               /\ captured => (Newest'.overflow <=> lost # {})
<1>1. ASSUME TypeOK, NumberedBack, TypeOK', [RuntimeNext]_brcbVars
      PROVE  [Recorded]_brcbVars
  <2>1. CASE Capture
    <3>0. PICK slot : CaptureOf(slot)
      BY <2>1, CaptureWrites
    <3>1. /\ captured /\ slot.overflow = Overflowing
      BY <1>1, <3>0, CapturedNumbers
    <3>2. Newest'.overflow = Overflowing
      BY <1>1, <3>0, <3>1, CaptureRecords
    <3>3. CASE Overflowing
      <4>1. lost = {At(0).entry}
        BY <1>1, <2>1, <3>3, CaptureLosses
      <4>2. Cardinality(lost) = 1
        BY <4>1, FS_Singleton
      <4> QED
        BY <1>1, <3>0, <3>1, <3>2, <3>3, <4>1, <4>2, CaptureRecords
    <3>4. CASE ~Overflowing
      <4>1. lost = {}
        BY <1>1, <2>1, <3>4, CaptureLosses
      <4> QED
        BY <3>1, <3>2, <3>4, <4>1
    <3> QED
      BY <3>3, <3>4
  <2>2. CASE PurgeBuffer
    BY <2>2 DEF PurgeBuffer
  <2>3. CASE UNCHANGED cursorOnly
    <3>1. Retained' = Retained /\ ~captured
      BY <2>3 DEF cursorOnly, Retained, At, Physical
    <3>2. count \in Nat /\ delivery_offset \in Nat
      BY <1>1, RuntimeAssumption DEF TypeOK
    <3>3. Undelivered \subseteq Retained
      BY <3>2 DEF Undelivered, Retained
    <3> QED
      BY <3>1, <3>3
  <2> QED
    BY <1>1, <2>1, <2>2, <2>3, OtherSteps
<1>2. TypeOK /\ NumberedBack /\ TypeOK' /\ [RuntimeNext]_brcbVars => [Recorded]_brcbVars
  BY <1>1
<1> QED
  BY <1>2, RuntimeTypeCorrect, NumberedBackInvariant, PTL
     DEF RuntimeSpec, NoSilentOverwrite

-----------------------------------------------------------------------------
(* The scheduler.                                                          *)

\* What a plan still vouches for when it is handed back: it was made at a time
\* that has been, an event plan whose events have not changed was made after
\* their window had closed, and the integrity timer runs only if it may.
PlanKnows ==
  /\ plan.observed <= now
  /\ (plan.reason = "event" /\ "pending" \in plan.fresh) => now >= pending.due
  /\ integrity_armed => "integrity" \in trigger_options

\* Every call keeps that: whatever touches the events outdates the plan.
LEMMA PlanKnowsStep ==
  ASSUME TypeOK, TypeOK', PlanKnows, [RuntimeNext]_brcbVars
  PROVE  PlanKnows'
<1>0. now \in 0..TimeMax /\ TimeMax \in Nat /\ plan \in Plan /\ pending.due \in 0..TimeMax
  BY RuntimeAssumption DEF TypeOK, Pending
<1> USE DEF PlanKnows
<1>1. NoPlan.observed = 0 /\ NoPlan.reason = "none"
  BY DEF NoPlan
<1>2. ASSUME NEW S, Bump(S), now' = now
      PROVE  /\ plan'.observed <= now'
             /\ (plan'.reason = "event" /\ "pending" \in plan'.fresh) =>
                  "pending" \notin S /\ now >= pending.due
  BY <1>0, <1>1, <1>2 DEF Bump, Plan
<1>3. ASSUME NEW on \in BOOLEAN, SetEnabled(on), now' = now
      PROVE  PlanKnows'
  BY <1>2, <1>3 DEF SetEnabled, configVars
<1>4. ASSUME ForgetSchedule, now' = now
      PROVE  PlanKnows'
  BY <1>2, <1>4 DEF ForgetSchedule
<1>5. ASSUME RequestGeneralInterrogation, now' = now
      PROVE  PlanKnows'
  BY <1>2, <1>5 DEF RequestGeneralInterrogation, configVars
<1>6. ASSUME NEW m \in Members, NEW r \in EventReasons, Notify(m, r), now' = now
      PROVE  PlanKnows'
  BY <1>2, <1>6 DEF Notify, configVars
<1>7. ASSUME NextDue, now' = now
      PROVE  PlanKnows'
  <2>1. /\ plan' = PlanFor(integrity_due') /\ UNCHANGED <<pending, integrity_armed, trigger_options>>
    BY <1>7 DEF NextDue, configVars
  <2>2. \/ plan' = NoPlan
        \/ plan'.observed = now /\ (plan'.reason = "event" => EventDue)
    BY <2>1 DEF PlanFor
  <2> QED
    BY <1>0, <1>1, <1>7, <2>1, <2>2 DEF EventDue
<1>8. ASSUME Capture, now' = now
      PROVE  PlanKnows'
  <2>1. plan' = NoPlan /\ UNCHANGED trigger_options
    BY <1>8 DEF Capture, Rearm, Bump, configVars
  <2>2. integrity_armed' => integrity_armed \/ "integrity" \in trigger_options
    BY <1>8 DEF Capture, Rearm
  <2> QED
    BY <1>0, <1>1, <1>8, <2>1, <2>2
<1>9. ASSUME Bump({"queue"}), UNCHANGED <<configVars, scheduleVars>>, now' = now
      PROVE  PlanKnows'
  BY <1>2, <1>9 DEF configVars, scheduleVars
<1>10. CASE AdvanceClock
  <2>1. plan.observed \in 0..TimeMax /\ now' = now + 1
    BY <1>0, <1>10 DEF Plan, AdvanceClock
  <2> QED
    BY <1>0, <1>10, <2>1 DEF AdvanceClock, runtimeVars, configVars, scheduleVars
<1>11. CASE UNCHANGED brcbVars
  BY <1>11 DEF brcbVars, runtimeVars, configVars, scheduleVars
<1>12. CASE Configure /\ UNCHANGED now
  BY <1>3, <1>4, <1>5, <1>12
     DEF Configure, SetOptionalFields, SetTriggerOptions, SetIntegrityPeriod
<1>13. CASE Producer /\ UNCHANGED now
  BY <1>6, <1>7, <1>8, <1>13 DEF Producer
<1>14. CASE Consumer /\ UNCHANGED now
  BY <1>9, <1>14 DEF Consumer, CommitDelivery, ReplayFrom, ResumeAfter, RewindToOldest,
     SetCursor, PurgeBuffer
<1> QED
  BY <1>10, <1>11, <1>12, <1>13, <1>14 DEF RuntimeNext

LEMMA PlanKnowsInvariant == RuntimeSpec => []PlanKnows
<1>1. RuntimeInit => PlanKnows
  BY DEF RuntimeInit, PlanKnows, NoPlan
<1>2. TypeOK /\ TypeOK' /\ PlanKnows /\ [RuntimeNext]_brcbVars => PlanKnows'
  BY PlanKnowsStep
<1> QED
  BY <1>1, <1>2, RuntimeTypeCorrect, PTL DEF RuntimeSpec

\* However plans, configuration, notifications and time interleave, a report is
\* captured only for something that is due at that moment.
THEOREM CaptureAlwaysDue == RuntimeSpec => CaptureIsDue
<1> DEFINE StillDue ==
       next_entry_number' # next_entry_number =>
         /\ enabled
         /\ \/ gi_pending /\ ~gi_pending'
            \/ EventDue /\ ~pending'.active
            \/ integrity_armed /\ integrity_due # 0 /\ now >= integrity_due
               /\ "integrity" \in trigger_options
<1>1. ASSUME TypeOK, PlanKnows, [RuntimeNext]_brcbVars
      PROVE  [StillDue]_brcbVars
  <2>1. CASE Capture
    <3>1. PlanAccepted /\ Rearm
      BY <2>1 DEF Capture
    <3>2. /\ plan.reason \in {"event", "integrity", "general_interrogation"}
          /\ plan.observed \in Nat /\ now \in Nat /\ integrity_due \in Nat
      BY <1>1, <3>1, RuntimeAssumption DEF TypeOK, Plan, PlanAccepted
    <3>3. CASE plan.reason = "general_interrogation"
      BY <3>1, <3>3 DEF PlanAccepted, Rearm
    <3>4. CASE plan.reason = "event"
      <4>1. EventDue
        BY <1>1, <3>1, <3>4 DEF PlanAccepted, PlanKnows, EventDue
      <4>2. ~pending'.active
        BY <3>1, <3>4 DEF Rearm, NoPending
      <4> QED
        BY <3>1, <4>1, <4>2 DEF PlanAccepted
    <3>5. CASE plan.reason = "integrity"
      BY <1>1, <3>1, <3>2, <3>5 DEF PlanAccepted, PlanKnows
    <3> QED
      BY <3>2, <3>3, <3>4, <3>5
  <2>2. ~Capture => next_entry_number' = next_entry_number
    BY <1>1, OtherSteps DEF PurgeBuffer, cursorOnly
  <2> QED
    BY <2>1, <2>2
<1>2. TypeOK /\ PlanKnows /\ [RuntimeNext]_brcbVars => [StillDue]_brcbVars
  BY <1>1
<1> QED
  BY <1>2, RuntimeTypeCorrect, PlanKnowsInvariant, PTL DEF RuntimeSpec, CaptureIsDue

\* While the block stays enabled, the reasons of an accepted notification stay
\* pending until the newest retained report carries them.
THEOREM AcceptedEventsAlwaysSurvive == RuntimeSpec => AcceptedEventsSurvive
<1> DEFINE Carried ==
       enabled /\ enabled' =>
         \A m \in Members :
           \/ pending.masks[m] \subseteq pending'.masks[m]
           \/ /\ count' # 0 /\ Newest'.entry = next_entry_number
              /\ pending.masks[m] \subseteq Newest'.masks[m]
<1>1. ASSUME TypeOK, [RuntimeNext]_brcbVars
      PROVE  [Carried]_brcbVars
  <2>1. CASE Capture
    <3>0. PICK slot : CaptureOf(slot)
      BY <2>1, CaptureWrites
    <3>1. /\ count' # 0 /\ Newest' = slot
          /\ slot.entry = next_entry_number
      BY <1>1, <3>0, CaptureRecords, CapturedNumbers
    <3>2. CASE plan.reason = "event"
      <4>1. slot.masks = pending.masks
        BY <1>1, <3>0, <3>2, CapturedSlotType
      <4> QED
        BY <3>1, <4>1
    <3>3. CASE plan.reason # "event"
      BY <2>1, <3>3 DEF Capture, Rearm
    <3> QED
      BY <3>2, <3>3
  <2>2. ASSUME NEW m \in Members, NEW r \in EventReasons, Notify(m, r)
        PROVE  Carried
    <3>1. pending.masks \in [Members -> SUBSET Triggers]
      BY <1>1 DEF TypeOK, Pending, Masks
    <3>2. pending'.masks = [pending.masks EXCEPT ![m] = @ \cup {r}]
      BY <2>2 DEF Notify
    <3> QED
      BY <3>1, <3>2
  <2>3. CASE NextDue \/ Configure \/ Consumer \/ AdvanceClock \/ UNCHANGED brcbVars
    <3>1. pending' = pending \/ ~enabled \/ ~enabled'
      BY <2>3 DEF NextDue, Configure, SetEnabled, SetOptionalFields, SetTriggerOptions,
         SetIntegrityPeriod, RequestGeneralInterrogation, Consumer, CommitDelivery,
         ReplayFrom, ResumeAfter, RewindToOldest, SetCursor, PurgeBuffer, AdvanceClock,
         brcbVars, runtimeVars, scheduleVars
    <3> QED
      BY <3>1
  <2> QED
    BY <1>1, <2>1, <2>2, <2>3 DEF RuntimeNext, Producer
<1>2. TypeOK /\ [RuntimeNext]_brcbVars => [Carried]_brcbVars
  BY <1>1
<1> QED
  BY <1>2, RuntimeTypeCorrect, PTL DEF RuntimeSpec, AcceptedEventsSurvive

-----------------------------------------------------------------------------
(* The ring implements the log.                                            *)

\* A sequence is the function of its own elements.
LEMMA SequenceIsFunction ==
  ASSUME NEW S, NEW s \in Seq(S), NEW n \in Nat, Len(s) = n
  PROVE  s = [i \in 1..n |-> s[i]]
OBVIOUS

\* The retained reports form a sequence.
LEMMA RetainedLogSeq ==
  ASSUME TypeOK
  PROVE  /\ Len(RetainedLog) = count /\ DOMAIN RetainedLog = 1..count
         /\ RetainedLog \in Seq([entry : 0..EntryMax, overflow : BOOLEAN])
         /\ \A i \in 1..count : RetainedLog[i] = ReportOf(At(i - 1))
<1>1. count \in Nat /\ count \in 0..Capacity /\ Capacity \in Nat \ {0}
  BY RuntimeAssumption DEF TypeOK
<1>2. ASSUME NEW i \in 1..count
      PROVE  ReportOf(At(i - 1)) \in [entry : 0..EntryMax, overflow : BOOLEAN]
  <2>1. i - 1 \in 0..Capacity
    BY <1>1
  <2>2. At(i - 1) \in Slot
    BY <2>1, PhysicalUnrolled DEF At, TypeOK
  <2> QED
    BY <2>2 DEF ReportOf, Slot
<1> QED
  BY <1>1, <1>2 DEF RetainedLog

\* A capture that finds room adds its report to the log.
LEMMA CaptureAdds ==
  ASSUME TypeOK, TypeOK', RetainedConsecutive, NEW slot, CaptureOf(slot), ~Full
  PROVE  Log!Add(ReportOf(slot))
<1> DEFINE r == ReportOf(slot)
<1>1. /\ Capacity \in Nat \ {0} /\ count \in 0..Capacity /\ count # Capacity
      /\ slot \in Slot /\ Enqueue(slot)
      /\ slot.entry = next_entry_number /\ slot.overflow = Overflowing
  BY RuntimeAssumption, CapturedNumbers DEF TypeOK, Full
<1>2. /\ count' = count + 1
      /\ \A i \in 0..count : At(i)' = IF i = count THEN slot ELSE At(i)
  BY <1>1, EnqueueGrows
<1>3. /\ Len(RetainedLog) = count /\ RetainedLog \in Seq([entry : 0..EntryMax, overflow : BOOLEAN])
      /\ \A i \in 1..count : RetainedLog[i] = ReportOf(At(i - 1))
  BY RetainedLogSeq
<1>4. RetainedLog' = [i \in 1..(count + 1) |-> ReportOf(At(i - 1)')]
  BY <1>2 DEF RetainedLog, ReportOf
<1>5. RetainedLog' = Append(RetainedLog, r)
  <2>1. r \in [entry : 0..EntryMax, overflow : BOOLEAN]
    BY <1>1 DEF ReportOf, Slot
  <2>2. /\ Append(RetainedLog, r) \in Seq([entry : 0..EntryMax, overflow : BOOLEAN])
        /\ Len(Append(RetainedLog, r)) = count + 1
        /\ \A i \in 1..(count + 1) :
             Append(RetainedLog, r)[i] = IF i = count + 1 THEN r ELSE RetainedLog[i]
    BY <1>1, <1>3, <2>1
  <2>3. ASSUME NEW i \in 1..(count + 1)
        PROVE  ReportOf(At(i - 1)') = IF i = count + 1 THEN r ELSE RetainedLog[i]
    <3>1. i - 1 \in 0..count /\ (i - 1 = count <=> i = count + 1)
          /\ (i # count + 1 => i \in 1..count)
      BY <1>1
    <3> QED
      BY <1>2, <1>3, <3>1
  <2> HIDE DEF r
  <2>4. RetainedLog' = [i \in 1..(count + 1) |-> Append(RetainedLog, r)[i]]
    BY <1>4, <2>2, <2>3
  <2>5. count + 1 \in Nat
    BY <1>1
  <2> QED
    BY <2>2, <2>4, <2>5, SequenceIsFunction
<1>6. RetainedLog # <<>> => r.entry = NextEntryNumber(RetainedLog[Len(RetainedLog)].entry)
  <2>1. RetainedLog # <<>> => count # 0
    BY <1>1, <1>3
  <2>2. count # 0 => count \in 1..count /\ RetainedLog[count] = ReportOf(At(count - 1))
    BY <1>1, <1>3
  <2> QED
    BY <1>1, <1>3, <2>1, <2>2 DEF RetainedConsecutive, ReportOf
<1>7. ~r.overflow
  BY <1>1 DEF ReportOf, Overflowing, Full
<1>8. UNCHANGED <<delivery_offset, replay_gap>>
  BY <1>1 DEF Enqueue, Full
<1> HIDE DEF r
<1>9. Log!Continues(r)
  BY <1>6 DEF Log!Continues
<1> QED
  BY <1>1, <1>3, <1>5, <1>7, <1>8, <1>9 DEF Log!Add, r

\* A capture into a full ring displaces the oldest report of the log.
LEMMA CaptureDisplaces ==
  ASSUME TypeOK, TypeOK', RetainedConsecutive, NEW slot, CaptureOf(slot), Full
  PROVE  Log!Displace(ReportOf(slot))
<1> DEFINE r == ReportOf(slot)
           Reports == [entry : 0..EntryMax, overflow : BOOLEAN]
<1>1. /\ Capacity \in Nat \ {0} /\ count = Capacity
      /\ slot \in Slot /\ Enqueue(slot)
      /\ slot.entry = next_entry_number /\ slot.overflow = Overflowing
  BY RuntimeAssumption, CapturedNumbers DEF TypeOK, Full
<1>2. /\ count' = count
      /\ \A i \in 0..(count - 1) :
           At(i)' = IF i = count - 1 THEN slot ELSE At(i + 1)
  BY <1>1, EnqueueShifts
<1>3. /\ Len(RetainedLog) = count /\ RetainedLog \in Seq(Reports)
      /\ \A i \in 1..count : RetainedLog[i] = ReportOf(At(i - 1))
  BY RetainedLogSeq
<1>4. RetainedLog' = [i \in 1..count |-> ReportOf(At(i - 1)')]
  BY <1>2 DEF RetainedLog, ReportOf
<1>5. RetainedLog' = Append(Tail(RetainedLog), r)
  <2>1. r \in Reports
    BY <1>1 DEF ReportOf, Slot
  <2>2. /\ Tail(RetainedLog) \in Seq(Reports) /\ Len(Tail(RetainedLog)) = count - 1
        /\ \A i \in 1..(count - 1) : Tail(RetainedLog)[i] = RetainedLog[i + 1]
    BY <1>1, <1>3
  <2>3. /\ Append(Tail(RetainedLog), r) \in Seq(Reports)
        /\ Len(Append(Tail(RetainedLog), r)) = count
        /\ \A i \in 1..count :
             Append(Tail(RetainedLog), r)[i] = IF i = count THEN r ELSE RetainedLog[i + 1]
    BY <1>1, <2>1, <2>2
  <2>4. ASSUME NEW i \in 1..count
        PROVE  ReportOf(At(i - 1)') = IF i = count THEN r ELSE RetainedLog[i + 1]
    <3>1. /\ i - 1 \in 0..(count - 1) /\ (i - 1 = count - 1 <=> i = count)
          /\ i - 1 + 1 = i /\ (i # count => i + 1 \in 1..count) /\ i + 1 - 1 = i
      BY <1>1
    <3> QED
      BY <1>2, <1>3, <3>1
  <2> HIDE DEF r, Reports
  <2>5. RetainedLog' = [i \in 1..count |-> Append(Tail(RetainedLog), r)[i]]
    BY <1>4, <2>3, <2>4
  <2>6. count \in Nat
    BY <1>1
  <2> QED
    BY <2>3, <2>5, <2>6, SequenceIsFunction
<1>6. r.entry = NextEntryNumber(RetainedLog[Len(RetainedLog)].entry)
  <2>1. count \in 1..count /\ count # 0
    BY <1>1
  <2>2. RetainedLog[count] = ReportOf(At(count - 1))
    BY <1>3, <2>1
  <2> QED
    BY <1>1, <1>3, <2>1, <2>2 DEF RetainedConsecutive, ReportOf
<1>7. r.overflow = (delivery_offset = 0)
  BY <1>1 DEF ReportOf, Overflowing, Full
<1>8. /\ delivery_offset' = IF delivery_offset = 0 THEN 0 ELSE delivery_offset - 1
      /\ replay_gap' = (replay_gap \/ delivery_offset = 0)
  BY <1>1 DEF Enqueue, Full
<1> HIDE DEF r
<1>9. Log!Continues(r)
  BY <1>6 DEF Log!Continues
<1> QED
  BY <1>1, <1>3, <1>5, <1>7, <1>8, <1>9 DEF Log!Displace, r

\* For every ring size and counter width, the ring with its head, its modular
\* positions and its cursor implements the plain bounded log of ReportLog: every
\* call is one step of the log, or none.
THEOREM RingImplementsLog == RuntimeSpec => RefinesReportLog
<1>1. RuntimeInit => Log!Init
  BY DEF RuntimeInit, Log!Init, RetainedLog
<1>2. ASSUME TypeOK, TypeOK', RetainedConsecutive, [RuntimeNext]_brcbVars
      PROVE  [Log!Next]_(Log!logVars)
  <2>1. CASE Capture
    <3>0. PICK slot : CaptureOf(slot)
      BY <2>1, CaptureWrites
    <3>1. ReportOf(slot) \in Report
      BY <1>2, <3>0, CapturedNumbers DEF Report, ReportOf, TypeOK, Slot
    <3> QED
      BY <1>2, <3>0, <3>1, CaptureAdds, CaptureDisplaces DEF Log!Next
  <2>2. CASE PurgeBuffer
    <3>1. RetainedLog' = <<>> /\ delivery_offset' = 0 /\ replay_gap' = FALSE
      BY <2>2 DEF PurgeBuffer, RetainedLog
    <3> QED
      BY <3>1 DEF Log!Next, Log!Purge
  <2>3. CASE UNCHANGED cursorOnly /\ delivery_offset' \in 0..count
    <3>1. RetainedLog' = RetainedLog /\ replay_gap' = replay_gap
      BY <2>3 DEF cursorOnly, RetainedLog, At, Physical, ReportOf
    <3>2. delivery_offset' \in 0..Len(RetainedLog)
      BY <1>2, <2>3, RetainedLogSeq
    <3> QED
      BY <3>1, <3>2 DEF Log!Next, Log!Move
  <2> QED
    BY <1>2, <2>1, <2>2, <2>3, OtherSteps
<1>3. TypeOK /\ TypeOK' /\ RetainedConsecutive /\ [RuntimeNext]_brcbVars
        => [Log!Next]_(Log!logVars)
  BY <1>2
<1> QED
  BY <1>1, <1>3, RuntimeTypeCorrect, RetainedAlwaysConsecutive, PTL
     DEF RuntimeSpec, RefinesReportLog, Log!LogSpec

=============================================================================
