--------------------------- MODULE BrcbPersistence ---------------------------
(***************************************************************************)
(* The report buffer across a power loss: the runtime, the state codec     *)
(* that turns its queue into an image and back, and a checkpoint store,    *)
(* taken here as what CheckpointStore is shown to implement (StableImage): *)
(* one image that only a checkpoint replaces.  A checkpoint that fails may *)
(* or may not have replaced it; since nothing but a restart looks, saved   *)
(* is the image the next restart will find, decided when checkpoint()      *)
(* returns.                                                                *)
(*                                                                         *)
(* The codec writes the retained reports from the oldest on, whatever the  *)
(* ring position, and restore() rebuilds them at ring position 0 after     *)
(* checking the image; the schedule is not saved and the restored block is *)
(* disabled.  Byte layout, magic numbers, the legacy format and the        *)
(* fingerprint of the definition (the same before and after) are left out. *)
(***************************************************************************)
EXTENDS BrcbRuntime

CONSTANT NoImage

VARIABLE saved   \* the image in the checkpoint store

persistenceVars == <<brcbVars, saved>>

Image == [entries : Seq(Slot), next_entry : 1..EntryMax, sq : 0..(SqMod - 1),
          dropped : 0..(DropMod - 1), gap : BOOLEAN, cursor : 0..Capacity]

-----------------------------------------------------------------------------
(* MmsStaticBrcbStateCodec.                                                *)

\* Mutant: the slots are written in ring order instead of age order.
BugEncodeRingOrder ==
  [entries |-> [i \in 1..count |-> slots[i - 1]],
   next_entry |-> next_entry_number, sq |-> sequence_number,
   dropped |-> dropped_reports, gap |-> replay_gap, cursor |-> delivery_offset]

EncodedState ==
  [entries |-> [i \in 1..count |-> At(i - 1)],
   next_entry |-> next_entry_number, sq |-> sequence_number,
   dropped |-> dropped_reports, gap |-> replay_gap, cursor |-> delivery_offset]

\* The checks restore() makes before it changes the runtime.
StateValid(img) ==
  LET n == Len(img.entries)
  IN  /\ n <= Capacity
      /\ img.cursor <= n
      /\ img.next_entry # 0
      /\ \A i \in 1..n :
           /\ img.entries[i].occupied
           /\ img.entries[i].bytes \in 1..SlotSize[i - 1]
           /\ img.entries[i].entry # 0
           /\ i > 1 => img.entries[i].entry = NextEntryNumber(img.entries[i - 1].entry)
      /\ n # 0 => /\ img.next_entry = NextEntryNumber(img.entries[n].entry)
                  /\ img.sq = img.entries[n].sq

\* What initialize() leaves of the runtime, on which restore() builds.
FreshSchedule ==
  /\ optional_fields' \in OptionalSettings
  /\ trigger_options' \in TriggerSettings \ {{}}
  /\ integrity_period' \in IntegrityPeriods
  /\ enabled' = FALSE /\ pending' = NoPending /\ gi_pending' = FALSE
  /\ integrity_armed' = FALSE /\ integrity_due' = 0
  /\ plan' = NoPlan
  /\ now' = 0

FreshQueue ==
  /\ slots' = [i \in 0..(Capacity - 1) |-> EmptySlot]
  /\ head' = 0 /\ count' = 0 /\ delivery_offset' = 0
  /\ next_entry_number' = 1 /\ sequence_number' = 0
  /\ dropped_reports' = 0 /\ replay_gap' = FALSE

\* The queue rebuilt from an image, with the counter and cursor given apart.
Rebuilt(img, next_entry, cursor) ==
  /\ slots' = [i \in 0..(Capacity - 1) |->
                 IF i < Len(img.entries) THEN img.entries[i + 1] ELSE EmptySlot]
  /\ head' = 0 /\ count' = Len(img.entries) /\ delivery_offset' = cursor
  /\ next_entry_number' = next_entry /\ sequence_number' = img.sq
  /\ dropped_reports' = img.dropped /\ replay_gap' = img.gap

\* Mutant: the delivery cursor is not restored.
BugRestoreRewinds(img) == Rebuilt(img, img.next_entry, 0)

RestoreQueue(img) == Rebuilt(img, img.next_entry, img.cursor)

-----------------------------------------------------------------------------
PersistenceInit == RuntimeInit /\ saved = NoImage

\* checkpoint() when the image it wrote will be found again.
Checkpoint == saved' = EncodedState /\ UNCHANGED brcbVars

\* Power loss, then initialize() and restore(): an image that does not pass
\* its checks, or none at all, leaves the runtime as initialized.
Restart ==
  /\ FreshSchedule
  /\ IF saved # NoImage /\ StateValid(saved)
     THEN RestoreQueue(saved) ELSE FreshQueue
  /\ UNCHANGED saved

PersistenceNext ==
  \/ RuntimeNext /\ UNCHANGED saved
  \/ Checkpoint
  \/ Restart

PersistenceSpec == PersistenceInit /\ [][PersistenceNext]_persistenceVars

-----------------------------------------------------------------------------
(* Properties.                                                             *)

\* The reports of an image fit the slots restore() moves them to, which are
\* not the slots they were captured in once the ring has turned.
FitsItsSlots(img) ==
  \A i \in 1..Len(img.entries) : img.entries[i].bytes <= SlotSize[i - 1]

\* Whatever the ring looks like, the image encode() makes of it passes the
\* checks of restore(), provided the reports fit the slots they move to: with
\* slots of one size no checkpoint is ever refused when it is needed, and
\* with slots of different sizes only for that reason.
EncodedRestorable == FitsItsSlots(EncodedState) => StateValid(EncodedState)

\* The queue is the saved one, or if that does not fit an empty one.
WholeOrNothing ==
  IF FitsItsSlots(saved) THEN EncodedState' = saved
  ELSE /\ count' = 0 /\ next_entry_number' = 1 /\ delivery_offset' = 0
       /\ \A i \in 0..(Capacity - 1) : slots'[i] = EmptySlot

\* A power loss takes the queue back to a saved state as a whole or, if the
\* reports do not fit, to nothing: the restored ring encodes to the very image
\* it was restored from, with its cursor, its counters and its gap mark,
\* whatever ring position it was saved at, and a refused image leaves nothing
\* behind.
RecoveredAsSaved ==
  [][Restart /\ saved # NoImage => WholeOrNothing]_persistenceVars

=============================================================================
