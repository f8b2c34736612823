------------------------ MODULE BrcbPersistenceProofs ------------------------
(***************************************************************************)
(* An image encode() makes is one that restore() accepts, unless a report  *)
(* does not fit the slot it moves to; a restart then rebuilds exactly the  *)
(* saved queue, and otherwise an empty one.  With slots of one size every  *)
(* report fits every slot, and no image is refused.                        *)
(***************************************************************************)
EXTENDS BrcbPersistence, BrcbRuntimeProofs

\* What is known of an image: it passes the checks of restore() but for the
\* size of its reports, each of which fitted some slot when it was captured;
\* and its sequence numbers are consecutive, which restore() does not check.
Sound(img) ==
  /\ img \in Image
  /\ Len(img.entries) <= Capacity
  /\ img.cursor <= Len(img.entries)
  /\ \A i \in 1..Len(img.entries) :
       /\ img.entries[i].occupied /\ img.entries[i].entry # 0
       /\ \E p \in 0..(Capacity - 1) : img.entries[i].bytes \in 1..SlotSize[p]
  /\ \A i \in 2..Len(img.entries) :
       /\ img.entries[i].entry = NextEntryNumber(img.entries[i - 1].entry)
       /\ img.entries[i].sq = NextSequenceNumber(img.entries[i - 1].sq)
  /\ Len(img.entries) # 0 =>
       /\ img.next_entry = NextEntryNumber(img.entries[Len(img.entries)].entry)
       /\ img.sq = img.entries[Len(img.entries)].sq

SavedSound == saved # NoImage => Sound(saved)

\* A report in the ring fits the slot it is in.
InItsSlot ==
  \A p \in 0..(Capacity - 1) : slots[p].occupied => slots[p].bytes \in 1..SlotSize[p]

PersistenceInv == TypeOK /\ RetainedConsecutive /\ InItsSlot /\ SavedSound

\* Every slot has the same storage, as in the hosts of this repository.
UniformSlots == \A i, j \in 0..(Capacity - 1) : SlotSize[i] = SlotSize[j]

-----------------------------------------------------------------------------
\* The logical positions of the retained reports hold slots.
LEMMA RetainedSlots ==
  ASSUME TypeOK
  PROVE  \A i \in 0..(count - 1) : At(i) \in Slot
<1>1. Capacity \in Nat \ {0} /\ count \in 0..Capacity
  BY RuntimeAssumption DEF TypeOK
<1>2. \A i \in 0..(count - 1) : i \in 0..Capacity
  BY <1>1
<1>3. \A i \in 0..(count - 1) : Physical(i) \in 0..(Capacity - 1)
  BY <1>2, PhysicalUnrolled
<1> QED
  BY <1>3 DEF At, TypeOK

\* The size of a report is all that can make restore() refuse a sound image.
LEMMA FittingValid ==
  ASSUME NEW img, Sound(img)
  PROVE  StateValid(img) <=> FitsItsSlots(img)
<1> DEFINE n == Len(img.entries)
<1>1. /\ Capacity \in Nat \ {0} /\ n \in 0..Capacity /\ n <= Capacity
      /\ \A i \in 0..(Capacity - 1) : SlotSize[i] \in Nat \ {0}
      /\ img.entries \in Seq(Slot) /\ img.cursor <= n
  BY RuntimeAssumption DEF Sound, Image
<1>2. \A i \in 1..n : img.entries[i].bytes \in Nat \ {0}
  <2>1. SUFFICES ASSUME NEW i \in 1..n
                 PROVE  img.entries[i].bytes \in Nat \ {0}
    OBVIOUS
  <2>2. PICK p \in 0..(Capacity - 1) : img.entries[i].bytes \in 1..SlotSize[p]
    BY DEF Sound
  <2> QED
    BY <1>1, <2>2
<1>3. \A i \in 1..n : SlotSize[i - 1] \in Nat
  BY <1>1
<1>4. img.next_entry # 0
  BY RuntimeAssumption DEF Sound, Image
<1>5. \A i \in 1..n : i > 1 => i \in 2..n
  BY <1>1
<1>6. /\ \A i \in 1..n : img.entries[i].occupied /\ img.entries[i].entry # 0
      /\ \A i \in 1..n : i > 1 =>
           img.entries[i].entry = NextEntryNumber(img.entries[i - 1].entry)
      /\ n # 0 => /\ img.next_entry = NextEntryNumber(img.entries[n].entry)
                  /\ img.sq = img.entries[n].sq
  BY <1>5 DEF Sound
<1>7. (\A i \in 1..n : img.entries[i].bytes \in 1..SlotSize[i - 1])
        <=> FitsItsSlots(img)
  BY <1>2, <1>3 DEF FitsItsSlots
<1> QED
  BY <1>1, <1>4, <1>6, <1>7 DEF StateValid

\* With slots of one size a sound image fits.
LEMMA UniformFits ==
  ASSUME UniformSlots, NEW img, Sound(img)
  PROVE  FitsItsSlots(img)
<1>1. /\ Capacity \in Nat \ {0} /\ Len(img.entries) \in 0..Capacity
      /\ \A i \in 0..(Capacity - 1) : SlotSize[i] \in Nat
  BY RuntimeAssumption DEF Sound, Image
<1>2. SUFFICES ASSUME NEW i \in 1..Len(img.entries)
               PROVE  img.entries[i].bytes <= SlotSize[i - 1]
  BY DEF FitsItsSlots
<1>3. PICK p \in 0..(Capacity - 1) : img.entries[i].bytes \in 1..SlotSize[p]
  BY DEF Sound
<1>4. i - 1 \in 0..(Capacity - 1)
  BY <1>1
<1>5. SlotSize[i - 1] = SlotSize[p]
  BY <1>3, <1>4 DEF UniformSlots
<1> QED
  BY <1>1, <1>3, <1>5

\* encode() turns a consistent ring into a sound image.
LEMMA EncodedSound ==
  ASSUME TypeOK, RetainedConsecutive, InItsSlot
  PROVE  Sound(EncodedState)
<1> DEFINE entries == [i \in 1..count |-> At(i - 1)]
<1>1. Capacity \in Nat \ {0} /\ count \in 0..Capacity /\ delivery_offset \in 0..count
  BY RuntimeAssumption DEF TypeOK
<1>2. \A i \in 1..count : At(i - 1) \in Slot
  BY <1>1, RetainedSlots
<1>3. entries \in Seq(Slot) /\ Len(entries) = count
  BY <1>1, <1>2
<1>4. \A i \in 1..count : entries[i] = At(i - 1)
  OBVIOUS
<1>5. /\ EncodedState.entries = entries
      /\ EncodedState.next_entry = next_entry_number
      /\ EncodedState.sq = sequence_number
      /\ EncodedState.cursor = delivery_offset
  BY DEF EncodedState
<1>6. EncodedState \in Image
  BY <1>1, <1>3 DEF EncodedState, Image, TypeOK
<1> HIDE DEF entries
<1>7. \A i \in 1..count : entries[i].occupied /\ entries[i].entry # 0
  BY <1>1, <1>4 DEF RetainedConsecutive
<1>8. \A i \in 2..count :
        /\ entries[i].entry = NextEntryNumber(entries[i - 1].entry)
        /\ entries[i].sq = NextSequenceNumber(entries[i - 1].sq)
  <2>1. SUFFICES ASSUME NEW i \in 2..count
                 PROVE  /\ entries[i].entry = NextEntryNumber(entries[i - 1].entry)
                        /\ entries[i].sq = NextSequenceNumber(entries[i - 1].sq)
    OBVIOUS
  <2>2. i - 1 \in 1..(count - 1) /\ i \in 1..count /\ i - 1 \in 1..count
    BY <1>1
  <2>3. entries[i] = At(i - 1) /\ entries[i - 1] = At(i - 1 - 1)
    BY <1>4, <2>2
  <2> QED
    BY <2>2, <2>3 DEF RetainedConsecutive
<1>9. count # 0 => /\ next_entry_number = NextEntryNumber(entries[count].entry)
                   /\ sequence_number = entries[count].sq
  BY <1>1, <1>4 DEF RetainedConsecutive
<1>10. \A i \in 1..count :
         \E p \in 0..(Capacity - 1) : entries[i].bytes \in 1..SlotSize[p]
  <2>1. SUFFICES ASSUME NEW i \in 1..count
                 PROVE  \E p \in 0..(Capacity - 1) : entries[i].bytes \in 1..SlotSize[p]
    OBVIOUS
  <2>2. Physical(i - 1) \in 0..(Capacity - 1)
    BY <1>1, PhysicalUnrolled
  <2> QED
    BY <1>4, <1>7, <2>2 DEF InItsSlot, At
<1> QED
  BY <1>1, <1>3, <1>5, <1>6, <1>7, <1>8, <1>9, <1>10 DEF Sound

\* initialize() alone leaves a consistent runtime.
LEMMA FreshConsistent ==
  ASSUME FreshSchedule, FreshQueue
  PROVE  TypeOK' /\ RetainedConsecutive' /\ InItsSlot'
<1>1. TypeOK'
  BY EmptyTypes, ResetRanges DEF FreshSchedule, FreshQueue, TypeOK
<1>2. RetainedConsecutive'
  BY DEF FreshQueue, RetainedConsecutive
<1>3. InItsSlot'
  BY DEF FreshQueue, InItsSlot, EmptySlot
<1> QED
  BY <1>1, <1>2, <1>3

\* restore() of a sound image that fits leaves a consistent runtime.
LEMMA RestoreConsistent ==
  ASSUME NEW img, Sound(img), StateValid(img), FreshSchedule, RestoreQueue(img)
  PROVE  TypeOK' /\ RetainedConsecutive' /\ InItsSlot'
<1> DEFINE n == Len(img.entries)
<1> DEFINE v == [i \in 0..(Capacity - 1) |->
                   IF i < n THEN img.entries[i + 1] ELSE EmptySlot]
<1>1. /\ Capacity \in Nat \ {0} /\ n \in 0..Capacity /\ img.entries \in Seq(Slot)
      /\ img.cursor \in 0..n
  BY RuntimeAssumption DEF Sound, Image
<1>2. /\ slots' = v /\ head' = 0 /\ count' = n /\ delivery_offset' = img.cursor
      /\ next_entry_number' = img.next_entry /\ sequence_number' = img.sq
      /\ dropped_reports' = img.dropped /\ replay_gap' = img.gap
  BY DEF RestoreQueue, Rebuilt
<1>3. \A i \in 1..n : img.entries[i] \in Slot
  BY <1>1
<1>4. v \in [0..(Capacity - 1) -> Slot]
  BY <1>1, <1>3, EmptyTypes
<1>5. TypeOK'
  <2>1. /\ head' \in 0..(Capacity - 1) /\ next_entry_number' \in 1..EntryMax
        /\ sequence_number' \in 0..(SqMod - 1)
        /\ dropped_reports' \in 0..(DropMod - 1) /\ replay_gap' \in BOOLEAN
    BY <1>1, <1>2 DEF Sound, Image
  <2>2. /\ slots' \in [0..(Capacity - 1) -> Slot] /\ count' \in 0..Capacity
        /\ delivery_offset' \in 0..count'
    BY <1>1, <1>2, <1>4
  <2> HIDE DEF v, n
  <2> QED
    BY <2>1, <2>2, EmptyTypes, ResetRanges DEF FreshSchedule, TypeOK
<1>6. \A i \in 0..(Capacity - 1) : At(i)' = v[i]
  <2>1. \A i \in 0..(Capacity - 1) : i % Capacity = i
    BY <1>1
  <2> HIDE DEF v, n
  <2> QED
    BY <1>2, <2>1 DEF At, Physical
<1>7. \A i \in 0..(n - 1) : v[i] = img.entries[i + 1]
  BY <1>1
<1>8. Consecutive(v, n, next_entry_number', sequence_number')
  <2>1. \A i \in 0..(n - 1) : v[i].occupied /\ v[i].entry # 0
    BY <1>1, <1>7 DEF Sound
  <2>2. \A i \in 1..(n - 1) : /\ v[i].entry = NextEntryNumber(v[i - 1].entry)
                              /\ v[i].sq = NextSequenceNumber(v[i - 1].sq)
    <3>1. SUFFICES ASSUME NEW i \in 1..(n - 1)
                   PROVE  /\ v[i].entry = NextEntryNumber(v[i - 1].entry)
                          /\ v[i].sq = NextSequenceNumber(v[i - 1].sq)
      OBVIOUS
    <3>2. /\ i \in 0..(n - 1) /\ i - 1 \in 0..(n - 1) /\ i + 1 \in 2..n
          /\ i + 1 \in 1..n /\ i + 1 > 1 /\ i + 1 - 1 = i /\ i - 1 + 1 = i
      BY <1>1
    <3>3. v[i] = img.entries[i + 1] /\ v[i - 1] = img.entries[i]
      BY <1>7, <3>2
    <3> HIDE DEF v
    <3> QED
      BY <3>2, <3>3 DEF Sound
  <2>3. n # 0 => /\ img.next_entry = NextEntryNumber(v[n - 1].entry)
                 /\ img.sq = v[n - 1].sq
    <3>1. n # 0 => n - 1 \in 0..(n - 1) /\ n - 1 + 1 = n
      BY <1>1
    <3>2. n # 0 => v[n - 1] = img.entries[n]
      BY <1>7, <3>1
    <3> HIDE DEF v
    <3> QED
      BY <3>2 DEF Sound
  <2> HIDE DEF v, n
  <2> QED
    BY <1>2, <2>1, <2>2, <2>3 DEF Consecutive
<1>9. InItsSlot'
  <2>1. \A p \in 0..(Capacity - 1) : p < n => p + 1 \in 1..n /\ p + 1 - 1 = p
    BY <1>1
  <2>2. \A p \in 0..(Capacity - 1) : p < n => v[p].bytes \in 1..SlotSize[p]
    BY <2>1 DEF StateValid
  <2>3. \A p \in 0..(Capacity - 1) : ~(p < n) => ~v[p].occupied
    BY DEF EmptySlot
  <2> HIDE DEF v, n
  <2> QED
    BY <1>2, <2>2, <2>3 DEF InItsSlot
<1> HIDE DEF v, n
<1>10. RetainedConsecutive'
  BY <1>1, <1>2, <1>6, <1>8, ConsecutiveViewNext
<1> QED
  BY <1>5, <1>9, <1>10

-----------------------------------------------------------------------------
\* A capture writes a report that fits, and nothing else fills a slot.
LEMMA InItsSlotStep ==
  ASSUME TypeOK, InItsSlot, [RuntimeNext]_brcbVars
  PROVE  InItsSlot'
<1>1. CASE Capture
  <2>1. PICK slot : CaptureOf(slot)
    BY <1>1, CaptureWrites
  <2>2. /\ slot.bytes \in Nat \ {0} /\ slot.bytes <= SlotSize[Target]
        /\ slots' = [slots EXCEPT ![Target] = slot]
    BY <2>1, CapturedSlotType DEF CaptureOf, Enqueue
  <2>3. /\ slots \in [0..(Capacity - 1) -> Slot]
        /\ \A p \in 0..(Capacity - 1) : SlotSize[p] \in Nat
    BY RuntimeAssumption DEF TypeOK
  <2>4. ASSUME NEW p \in 0..(Capacity - 1), p = Target
        PROVE  slots'[p].bytes \in 1..SlotSize[p]
    <3>1. slots'[p] = slot /\ SlotSize[p] \in Nat
      BY <2>2, <2>3, <2>4
    <3> QED
      BY <2>2, <2>4, <3>1
  <2>5. ASSUME NEW p \in 0..(Capacity - 1), p # Target
        PROVE  slots'[p] = slots[p]
    BY <2>2, <2>3, <2>5
  <2> QED
    BY <2>4, <2>5 DEF InItsSlot
<1>2. CASE PurgeBuffer
  BY <1>2 DEF PurgeBuffer, InItsSlot, EmptySlot
<1>3. CASE UNCHANGED cursorOnly
  BY <1>3 DEF cursorOnly, InItsSlot
<1> QED
  BY <1>1, <1>2, <1>3, OtherSteps

\* Every step, the power loss included, keeps ring and saved image consistent.
LEMMA PersistenceStep ==
  ASSUME PersistenceInv, [PersistenceNext]_persistenceVars
  PROVE  PersistenceInv'
<1>1. CASE [RuntimeNext]_brcbVars /\ UNCHANGED saved
  <2>1. TypeOK' /\ RetainedConsecutive' /\ InItsSlot'
    BY <1>1, TypeStep, ConsecutiveStep, InItsSlotStep DEF PersistenceInv
  <2> QED
    BY <1>1, <2>1 DEF PersistenceInv, SavedSound
<1>2. CASE Checkpoint
  <2>1. UNCHANGED brcbVars /\ saved' = EncodedState
    BY <1>2 DEF Checkpoint
  <2>2. TypeOK' /\ RetainedConsecutive' /\ InItsSlot'
    BY <2>1, TypeStep, ConsecutiveStep, InItsSlotStep DEF PersistenceInv
  <2> QED
    BY <2>1, <2>2, EncodedSound DEF PersistenceInv, SavedSound
<1>3. CASE Restart
  <2>1. TypeOK' /\ RetainedConsecutive' /\ InItsSlot'
    BY <1>3, FreshConsistent, RestoreConsistent
       DEF Restart, PersistenceInv, SavedSound
  <2> QED
    BY <1>3, <2>1 DEF Restart, PersistenceInv, SavedSound
<1> QED
  BY <1>1, <1>2, <1>3 DEF PersistenceNext, persistenceVars

\* The invariant of the report buffer holds across power losses.
LEMMA PersistenceInvariant == PersistenceSpec => []PersistenceInv
<1>1. PersistenceInit => PersistenceInv
  <2>1. RuntimeInit => TypeOK
    BY EmptyTypes, ResetRanges DEF RuntimeInit, TypeOK
  <2>2. RuntimeInit => RetainedConsecutive
    BY DEF RuntimeInit, RetainedConsecutive
  <2>3. RuntimeInit => InItsSlot
    BY DEF RuntimeInit, InItsSlot, EmptySlot
  <2> QED
    BY <2>1, <2>2, <2>3 DEF PersistenceInit, PersistenceInv, SavedSound
<1> QED
  BY <1>1, PersistenceStep, PTL DEF PersistenceSpec

\* For every buffer size, slot sizes and counter width, the image encode()
\* makes of the report buffer passes every check of restore() but one, after
\* any number of checkpoints and power losses: only a report that does not fit
\* the slot it moves to can make restore() refuse it.
THEOREM EncodedAlwaysRestorable == PersistenceSpec => []EncodedRestorable
<1>1. PersistenceInv => EncodedRestorable
  BY EncodedSound, FittingValid DEF PersistenceInv, EncodedRestorable
<1> QED
  BY <1>1, PersistenceInvariant, PTL

\* With slots of one size, as the hosts of this repository have them, restore()
\* accepts every image encode() makes of the buffer and every image a
\* checkpoint saved.
THEOREM UniformSlotsRestorable ==
  ASSUME UniformSlots
  PROVE  PersistenceSpec =>
           [](StateValid(EncodedState) /\ (saved # NoImage => StateValid(saved)))
<1>1. PersistenceInv =>
        StateValid(EncodedState) /\ (saved # NoImage => StateValid(saved))
  BY EncodedSound, FittingValid, UniformFits DEF PersistenceInv, SavedSound
<1> QED
  BY <1>1, PersistenceInvariant, PTL

\* Retained reports stay consecutive although a power loss takes the buffer
\* back to an earlier state.
THEOREM ConsecutiveAcrossRestart == PersistenceSpec => []RetainedConsecutive
<1>1. PersistenceInv => RetainedConsecutive
  BY DEF PersistenceInv
<1> QED
  BY <1>1, PersistenceInvariant, PTL

\* The ring restore() builds encodes to the image it was built from.
LEMMA RestoreEncodesBack ==
  ASSUME NEW img, Sound(img), RestoreQueue(img)
  PROVE  EncodedState' = img
<1> DEFINE n == Len(img.entries)
<1>1. /\ Capacity \in Nat \ {0} /\ n \in 0..Capacity /\ n \in Nat
      /\ img.entries \in Seq(Slot)
  BY RuntimeAssumption DEF Sound, Image
<1>2. /\ slots' = [i \in 0..(Capacity - 1) |->
                    IF i < n THEN img.entries[i + 1] ELSE EmptySlot]
      /\ head' = 0 /\ count' = n /\ delivery_offset' = img.cursor
      /\ next_entry_number' = img.next_entry /\ sequence_number' = img.sq
      /\ dropped_reports' = img.dropped /\ replay_gap' = img.gap
  BY DEF RestoreQueue, Rebuilt
<1> HIDE DEF n
<1>3. ASSUME NEW i \in 1..n
      PROVE  slots'[(head' + (i - 1)) % Capacity] = img.entries[i]
  <2>1. /\ i - 1 \in 0..(Capacity - 1) /\ i - 1 < n /\ i - 1 + 1 = i
        /\ (0 + (i - 1)) % Capacity = i - 1
    BY <1>1
  <2> QED
    BY <1>2, <2>1
<1>4. EncodedState'.entries = [i \in 1..n |-> slots'[(head' + (i - 1)) % Capacity]]
  BY <1>2 DEF EncodedState, At, Physical
<1>5. EncodedState'.entries = [i \in 1..n |-> img.entries[i]]
  BY <1>3, <1>4
<1>6. EncodedState'.entries = img.entries
  BY <1>1, <1>5, SequenceIsFunction DEF n
<1>7. EncodedState' = [entries |-> EncodedState'.entries, next_entry |-> img.next_entry,
                       sq |-> img.sq, dropped |-> img.dropped, gap |-> img.gap,
                       cursor |-> img.cursor]
  BY <1>2 DEF EncodedState
<1>8. img = [entries |-> img.entries, next_entry |-> img.next_entry, sq |-> img.sq,
             dropped |-> img.dropped, gap |-> img.gap, cursor |-> img.cursor]
  BY DEF Sound, Image
<1> QED
  BY <1>6, <1>7, <1>8

\* For every buffer size, slot sizes and counter width, a restart that finds an
\* image brings back exactly the queue that was saved (reports, cursor, counters
\* and gap mark) when its reports fit, and an empty one when they do not.
THEOREM RestartRecoversSaved == PersistenceSpec => RecoveredAsSaved
<1>1. ASSUME PersistenceInv, Restart, saved # NoImage
      PROVE  WholeOrNothing
  <2>1. Sound(saved)
    BY <1>1 DEF PersistenceInv, SavedSound
  <2>2. CASE FitsItsSlots(saved)
    <3>1. RestoreQueue(saved)
      BY <1>1, <2>1, <2>2, FittingValid DEF Restart
    <3> QED
      BY <2>1, <2>2, <3>1, RestoreEncodesBack DEF WholeOrNothing
  <2>3. CASE ~FitsItsSlots(saved)
    <3>1. FreshQueue
      BY <1>1, <2>1, <2>3, FittingValid DEF Restart
    <3> QED
      BY <2>3, <3>1 DEF FreshQueue, WholeOrNothing
  <2> QED
    BY <2>2, <2>3
<1>2. PersistenceInv => [Restart /\ saved # NoImage => WholeOrNothing]_persistenceVars
  BY <1>1
<1> QED
  BY <1>2, PersistenceInvariant, PTL DEF RecoveredAsSaved

\* With slots of one size, nothing of a saved queue is ever refused.
THEOREM UniformSlotsRecover ==
  ASSUME UniformSlots
  PROVE  PersistenceSpec =>
           [][Restart /\ saved # NoImage => EncodedState' = saved]_persistenceVars
<1>1. ASSUME PersistenceInv, Restart, saved # NoImage
      PROVE  EncodedState' = saved
  <2>1. Sound(saved) /\ StateValid(saved)
    BY <1>1, FittingValid, UniformFits DEF PersistenceInv, SavedSound
  <2>2. RestoreQueue(saved)
    BY <1>1, <2>1 DEF Restart
  <2> QED
    BY <2>1, <2>2, RestoreEncodesBack
<1>2. PersistenceInv
        => [Restart /\ saved # NoImage => EncodedState' = saved]_persistenceVars
  BY <1>1
<1> QED
  BY <1>2, PersistenceInvariant, PTL

=============================================================================
