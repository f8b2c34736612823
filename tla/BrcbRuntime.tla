----------------------------- MODULE BrcbRuntime -----------------------------
(***************************************************************************)
(* MmsStaticBrcbRuntime: the buffered report control block of the server.  *)
(* It has two halves.  The scheduler half collects event notifications     *)
(* inside a buffer-time window, remembers a requested general              *)
(* interrogation and an integrity deadline, and offers the most urgent one *)
(* as a capture plan.  The queue half is a ring of slots holding captured  *)
(* reports, with a delivery cursor: the entries before the cursor have     *)
(* been delivered and are kept for replay.                                 *)
(*                                                                         *)
(* The caller obtains a plan (next_due) and later hands it back (capture); *)
(* any other call may come in between.  The three 32-bit revision counters *)
(* exist only to be compared with the copies in the plan, so the model     *)
(* keeps, in plan.fresh, which of the pending and schedule counters have   *)
(* not been bumped since the plan was made.  A plan of any kind is refused *)
(* once the queue counter has moved, so bumping that one forgets the plan. *)
(*                                                                         *)
(* Widths are constants: EntryMax is the largest 64-bit entry number,      *)
(* SqMod the number of 8-bit sequence numbers, DropMod the number of       *)
(* values of the dropped-report counter, TimeMax the largest 64-bit        *)
(* millisecond.  TLC runs them small so that every wrap-around happens.    *)
(***************************************************************************)
EXTENDS Integers, FiniteSets, Sequences

CONSTANTS
  Capacity,          \* number of retained-report slots
  SlotSize,          \* the storage of each slot, which may differ
  ReportSizes,       \* reason -> the sizes a report of that reason may have
  Members,           \* members of the data set
  EventReasons,      \* the event reasons the application notifies
  EntryMax, SqMod, DropMod, TimeMax,
  BufferTime,        \* buffer_time_ms of the definition
  MinIntegrity,      \* minimum_integrity_period_ms
  TriggerSettings,   \* trigger options a client may write
  IntegrityPeriods,  \* integrity periods a client may write
  OptionalSettings   \* optional-field masks a client may write

Triggers == EventReasons \cup {"integrity", "general_interrogation"}

ASSUME RuntimeAssumption ==
  /\ Capacity \in Nat \ {0}
  /\ SlotSize \in [0..(Capacity - 1) -> Nat \ {0}]
  /\ ReportSizes \in [{"event", "integrity", "general_interrogation"} ->
                       SUBSET (Nat \ {0})]
  /\ EntryMax \in Nat /\ Capacity < EntryMax
  /\ SqMod \in Nat \ {0} /\ DropMod \in Nat \ {0}
  /\ TimeMax \in Nat \ {0} /\ BufferTime \in Nat /\ MinIntegrity \in Nat \ {0}
  /\ Members # {} /\ IsFiniteSet(Members)
  /\ EventReasons \subseteq {"data_change", "quality_change", "data_update"}
  /\ TriggerSettings # {} /\ TriggerSettings \subseteq SUBSET Triggers
  /\ IntegrityPeriods # {} /\ IntegrityPeriods \subseteq Nat
  /\ OptionalSettings # {}

VARIABLES
  slots, head, count, delivery_offset,           \* the ring and its cursor
  next_entry_number, sequence_number,
  dropped_reports, replay_gap,
  optional_fields, trigger_options, integrity_period,
  enabled, pending, gi_pending,                  \* the scheduler
  integrity_armed, integrity_due,
  plan,                                          \* the caller's capture plan
  now                                            \* the clock the caller passes in

queueVars == <<slots, head, count, delivery_offset, next_entry_number,
               sequence_number, dropped_reports, replay_gap>>
cursorOnly == <<slots, head, count, next_entry_number, sequence_number,
                dropped_reports, replay_gap>>
configVars == <<optional_fields, trigger_options, integrity_period>>
scheduleVars == <<enabled, pending, gi_pending, integrity_armed, integrity_due>>
runtimeVars == <<queueVars, configVars, scheduleVars, plan>>
brcbVars == <<runtimeVars, now>>

-----------------------------------------------------------------------------
(* Arithmetic of the source's widths.                                      *)

SaturatingAdd(base, delta) ==
  IF delta > TimeMax - base THEN TimeMax ELSE base + delta

NextSequenceNumber(n) == (n + 1) % SqMod

\* Mutants: the entry number does not wrap, or saturates instead of wrapping.
BugEntryNoWrap(n) == n + 1
BugEntrySaturates(n) == IF n = EntryMax THEN EntryMax ELSE n + 1

NextEntryNumber(n) == IF n = EntryMax THEN 1 ELSE n + 1

EffectiveIntegrityPeriod(p) ==
  IF p # 0 /\ p < MinIntegrity THEN MinIntegrity ELSE p

-----------------------------------------------------------------------------
(* The shapes of the state.                                                *)

NoMasks == [m \in Members |-> {}]
EmptySlot == [occupied |-> FALSE, entry |-> 0, sq |-> 0, bytes |-> 0,
              overflow |-> FALSE, masks |-> NoMasks]
NoPending == [active |-> FALSE, due |-> 0, masks |-> NoMasks]
Revisions == {"pending", "schedule"}
NoPlan == [reason |-> "none", entry |-> 0, sq |-> 0, overflow |-> FALSE,
           observed |-> 0, fresh |-> {}]

Masks == [Members -> SUBSET Triggers]
Slot == [occupied : BOOLEAN, entry : 0..EntryMax, sq : 0..(SqMod - 1),
         bytes : Nat, overflow : BOOLEAN, masks : Masks]
Pending == [active : BOOLEAN, due : 0..TimeMax, masks : Masks]
Plan == [reason : {"none", "event", "integrity", "general_interrogation"},
         entry : 0..EntryMax, sq : 0..(SqMod - 1), overflow : BOOLEAN,
         observed : 0..TimeMax, fresh : SUBSET Revisions]

\* Mutant: a logical position taken as a slot number.
BugPhysicalIgnoresHead(logical) == logical % Capacity
\* slots_[(head_ + logical) % slots_.size()]
Physical(logical) == (head + logical) % Capacity
At(logical) == slots[Physical(logical)]

Full == count = Capacity
\* Mutant: the overflow mark ignores that the oldest report was delivered.
BugOverflowingIgnoresCursor == Full
Overflowing == Full /\ delivery_offset = 0

\* The members an event report would carry.
PendingMembers == {m \in Members : pending.masks[m] # {}}

\* bump_revision: a plan made earlier no longer matches the counters in S.
Bump(S) ==
  plan' = IF "queue" \in S THEN NoPlan ELSE [plan EXCEPT !.fresh = @ \ S]

-----------------------------------------------------------------------------
RuntimeInit ==
  /\ slots = [i \in 0..(Capacity - 1) |-> EmptySlot]
  /\ head = 0 /\ count = 0 /\ delivery_offset = 0
  /\ next_entry_number = 1 /\ sequence_number = 0
  /\ dropped_reports = 0 /\ replay_gap = FALSE
  /\ optional_fields \in OptionalSettings
  /\ trigger_options \in TriggerSettings \ {{}}
  /\ integrity_period \in IntegrityPeriods
  /\ enabled = FALSE /\ pending = NoPending /\ gi_pending = FALSE
  /\ integrity_armed = FALSE /\ integrity_due = 0
  /\ plan = NoPlan
  /\ now = 0

-----------------------------------------------------------------------------
(* Configuration.  Every change forgets what was scheduled.                *)

SetEnabled(on) ==
  /\ enabled # on
  /\ enabled' = on
  /\ pending' = NoPending
  /\ gi_pending' = FALSE
  /\ integrity_due' = 0
  /\ integrity_armed' = (/\ on
                         /\ EffectiveIntegrityPeriod(integrity_period) # 0
                         /\ "integrity" \in trigger_options)
  /\ Bump({"pending", "schedule"})
  /\ UNCHANGED <<queueVars, configVars>>

\* What the three setters do to the schedule once their value changes.
ForgetSchedule ==
  /\ pending' = NoPending
  /\ gi_pending' = FALSE
  /\ integrity_due' = 0
  /\ integrity_armed' = FALSE
  /\ Bump({"pending", "schedule"})
  /\ UNCHANGED <<queueVars, enabled>>

SetOptionalFields(v) ==
  /\ ~enabled
  /\ v # optional_fields
  /\ optional_fields' = v
  /\ ForgetSchedule
  /\ UNCHANGED <<trigger_options, integrity_period>>

SetTriggerOptions(v) ==
  /\ ~enabled
  /\ v # trigger_options
  /\ trigger_options' = v
  /\ ForgetSchedule
  /\ UNCHANGED <<optional_fields, integrity_period>>

SetIntegrityPeriod(v) ==
  /\ ~enabled
  /\ v # integrity_period
  /\ integrity_period' = v
  /\ ForgetSchedule
  /\ UNCHANGED <<optional_fields, trigger_options>>

-----------------------------------------------------------------------------
(* Scheduling.                                                             *)

NotifyAccepted(reason) == enabled /\ reason \in trigger_options

\* Mutant: a second reason replaces the first instead of joining it.
BugNotifyReplaces(m, reason) ==
  /\ NotifyAccepted(reason)
  /\ pending' = [active |-> TRUE, due |-> SaturatingAdd(now, BufferTime),
                 masks  |-> [NoMasks EXCEPT ![m] = {reason}]]
  /\ Bump({"pending"})
  /\ UNCHANGED <<queueVars, configVars, enabled, gi_pending,
                 integrity_armed, integrity_due>>

\* The first event of a window fixes its end; later ones merge into it.
Notify(m, reason) ==
  /\ NotifyAccepted(reason)
  /\ pending' = [active |-> TRUE,
                 due    |-> IF pending.active THEN pending.due
                            ELSE SaturatingAdd(now, BufferTime),
                 masks  |-> [pending.masks EXCEPT ![m] = @ \cup {reason}]]
  /\ Bump({"pending"})
  /\ UNCHANGED <<queueVars, configVars, enabled, gi_pending,
                 integrity_armed, integrity_due>>

RequestGeneralInterrogation ==
  /\ enabled
  /\ "general_interrogation" \in trigger_options
  /\ ~gi_pending
  /\ gi_pending' = TRUE
  /\ Bump({"schedule"})
  /\ UNCHANGED <<queueVars, configVars, enabled, pending,
                 integrity_armed, integrity_due>>

EventDue == pending.active /\ PendingMembers # {} /\ now >= pending.due

\* Mutant: a requested interrogation is never offered.
BugPlanIgnoresInterrogation(due) ==
  IF ~EventDue THEN NoPlan
  ELSE [reason |-> "event", entry |-> next_entry_number,
        sq |-> NextSequenceNumber(sequence_number), overflow |-> Overflowing,
        observed |-> now, fresh |-> Revisions]

\* The plan next_due hands out when the integrity deadline is due.
PlanFor(due) ==
  LET reason ==
        CASE gi_pending -> "general_interrogation"
          [] ~gi_pending /\ EventDue -> "event"
          [] ~gi_pending /\ ~EventDue /\ integrity_armed
             /\ due # 0 /\ now >= due -> "integrity"
          [] OTHER -> "none"
  IN  IF reason = "none" THEN NoPlan
      ELSE [reason   |-> reason,
            entry    |-> next_entry_number,
            sq       |-> NextSequenceNumber(sequence_number),
            overflow |-> Overflowing,
            observed |-> now,
            fresh    |-> Revisions]

\* The integrity deadline is set by the first call after arming.
NextDue ==
  LET due == IF integrity_armed /\ integrity_due = 0
             THEN SaturatingAdd(now, EffectiveIntegrityPeriod(integrity_period))
             ELSE integrity_due
  IN  /\ enabled
      /\ integrity_due' = due
      /\ plan' = PlanFor(due)
      /\ UNCHANGED <<queueVars, configVars, enabled, pending, gi_pending,
                     integrity_armed>>

-----------------------------------------------------------------------------
(* Capture.                                                                *)

\* Mutant: the revisions copied into the plan are not compared.
BugPlanRevisionsIgnored ==
  /\ enabled
  /\ plan.reason # "none"
  /\ plan.entry = next_entry_number
  /\ plan.sq = NextSequenceNumber(sequence_number)
  /\ plan.overflow = Overflowing
  /\ plan.reason = "event" => pending.active /\ PendingMembers # {}
  /\ plan.reason = "general_interrogation" => gi_pending
  /\ plan.reason = "integrity" => integrity_armed

PlanAccepted ==
  /\ enabled
  /\ plan.reason # "none"
  /\ plan.entry = next_entry_number
  /\ plan.sq = NextSequenceNumber(sequence_number)
  /\ plan.overflow = Overflowing
  /\ plan.reason = "event" =>
       pending.active /\ PendingMembers # {} /\ "pending" \in plan.fresh
  /\ plan.reason \in {"integrity", "general_interrogation"} =>
       "schedule" \in plan.fresh
  /\ plan.reason = "general_interrogation" => gi_pending
  /\ plan.reason = "integrity" =>
       integrity_armed /\ integrity_due # 0 /\ plan.observed >= integrity_due

\* The slot the report is written to, and what it then holds.
Target == IF Full THEN head ELSE Physical(count)
CapturedSlot(bytes) ==
  [occupied |-> TRUE, entry |-> plan.entry, sq |-> plan.sq, bytes |-> bytes,
   overflow |-> plan.overflow,
   masks    |-> IF plan.reason = "event" THEN pending.masks
                ELSE [m \in Members |-> {plan.reason}]]

Enqueue(slot) ==
  /\ slots' = [slots EXCEPT ![Target] = slot]
  /\ IF Full
     THEN /\ head' = (head + 1) % Capacity
          /\ count' = count
          /\ delivery_offset' = IF delivery_offset = 0 THEN 0
                                ELSE delivery_offset - 1
          /\ dropped_reports' = IF delivery_offset = 0
                                THEN (dropped_reports + 1) % DropMod
                                ELSE dropped_reports
          /\ replay_gap' = (replay_gap \/ delivery_offset = 0)
     ELSE /\ count' = count + 1
          /\ UNCHANGED <<head, delivery_offset, dropped_reports, replay_gap>>
  /\ sequence_number' = slot.sq
  /\ next_entry_number' = NextEntryNumber(slot.entry)

\* What was planned is done: forget it, or re-arm it.
Rearm ==
  \/ /\ plan.reason = "event"
     /\ pending' = NoPending
     /\ Bump({"pending", "queue"})
     /\ UNCHANGED <<gi_pending, integrity_due, integrity_armed>>
  \/ /\ plan.reason = "general_interrogation"
     /\ gi_pending' = FALSE
     /\ Bump({"schedule", "queue"})
     /\ UNCHANGED <<pending, integrity_due, integrity_armed>>
  \/ /\ plan.reason = "integrity"
     /\ LET period == EffectiveIntegrityPeriod(integrity_period)
        IN  /\ integrity_due' = IF period = 0 THEN 0
                                ELSE SaturatingAdd(plan.observed, period)
            /\ integrity_armed' = (period # 0 /\ "integrity" \in trigger_options)
     /\ Bump({"schedule", "queue"})
     /\ UNCHANGED <<pending, gi_pending>>

\* A capture that fails (a stale plan, a member that cannot be read, a report
\* that does not fit the encode buffer or its slot) returns before it changes
\* anything: what was due stays due.
Capture ==
  /\ PlanAccepted
  /\ \E bytes \in ReportSizes[plan.reason] :
       bytes <= SlotSize[Target] /\ Enqueue(CapturedSlot(bytes))
  /\ Rearm
  /\ UNCHANGED <<configVars, enabled>>

-----------------------------------------------------------------------------
(* Delivery and replay.                                                    *)

\* front() also wants the bytes of a slot to fit it, as they always do.
HasFront == delivery_offset < count /\ At(delivery_offset).occupied
Front == At(delivery_offset)

\* Mutant: the cursor does not advance.
BugCommitStays(entry) ==
  /\ HasFront
  /\ Front.entry = entry
  /\ Bump({"queue"})
  /\ UNCHANGED <<queueVars, configVars, scheduleVars>>

CommitDelivery(entry) ==
  /\ HasFront
  /\ Front.entry = entry
  /\ delivery_offset' = delivery_offset + 1
  /\ Bump({"queue"})
  /\ UNCHANGED <<cursorOnly, configVars, scheduleVars>>

\* find_entry: the first logical index that holds the entry, if any.
FindEntry(entry) ==
  {i \in 0..(count - 1) : /\ At(i).occupied /\ At(i).entry = entry
                          /\ \A j \in 0..(i - 1) : At(j).entry # entry}

SetCursor(offset) ==
  /\ delivery_offset' = offset
  /\ Bump({"queue"})
  /\ UNCHANGED <<cursorOnly, configVars, scheduleVars>>

ReplayFrom(entry) == \E i \in FindEntry(entry) : SetCursor(i)

\* Mutant: resuming skips one report too many.
BugResumeSkips(entry) == \E i \in FindEntry(entry) : SetCursor(i + 2)

ResumeAfter(entry) == \E i \in FindEntry(entry) : SetCursor(i + 1)

RewindToOldest == SetCursor(0)

PurgeBuffer ==
  /\ slots' = [i \in 0..(Capacity - 1) |-> EmptySlot]
  /\ head' = 0 /\ count' = 0 /\ delivery_offset' = 0
  /\ replay_gap' = FALSE
  /\ Bump({"queue"})
  /\ UNCHANGED <<next_entry_number, sequence_number, dropped_reports,
                 configVars, scheduleVars>>

-----------------------------------------------------------------------------
AdvanceClock == now < TimeMax /\ now' = now + 1 /\ UNCHANGED runtimeVars

\* The calls of the report producer, and those of whoever drives the control block.
Producer ==
  \/ \E m \in Members, r \in EventReasons : Notify(m, r)
  \/ NextDue
  \/ Capture

Configure ==
  \/ \E on \in BOOLEAN : SetEnabled(on)
  \/ \E v \in OptionalSettings : SetOptionalFields(v)
  \/ \E v \in TriggerSettings : SetTriggerOptions(v)
  \/ \E v \in IntegrityPeriods : SetIntegrityPeriod(v)
  \/ RequestGeneralInterrogation

Consumer ==
  \/ \E e \in 1..EntryMax : CommitDelivery(e) \/ ReplayFrom(e) \/ ResumeAfter(e)
  \/ RewindToOldest
  \/ PurgeBuffer

RuntimeNext ==
  \/ Producer /\ UNCHANGED now
  \/ Configure /\ UNCHANGED now
  \/ Consumer /\ UNCHANGED now
  \/ AdvanceClock

RuntimeSpec == RuntimeInit /\ [][RuntimeNext]_brcbVars

-----------------------------------------------------------------------------
(* Properties.                                                             *)

\* Every variable keeps the width its C++ member has; the cursor never
\* passes the number of retained reports.
TypeOK ==
  /\ slots \in [0..(Capacity - 1) -> Slot]
  /\ head \in 0..(Capacity - 1)
  /\ count \in 0..Capacity
  /\ delivery_offset \in 0..count
  /\ next_entry_number \in 1..EntryMax
  /\ sequence_number \in 0..(SqMod - 1)
  /\ dropped_reports \in 0..(DropMod - 1)
  /\ replay_gap \in BOOLEAN
  /\ optional_fields \in OptionalSettings
  /\ trigger_options \in TriggerSettings
  /\ integrity_period \in IntegrityPeriods
  /\ enabled \in BOOLEAN
  /\ pending \in Pending
  /\ gi_pending \in BOOLEAN
  /\ integrity_armed \in BOOLEAN
  /\ integrity_due \in 0..TimeMax
  /\ plan \in Plan
  /\ now \in 0..TimeMax

\* The ring, read from the oldest report on, holds consecutive entry numbers
\* and consecutive sequence numbers that end where the counters stand, across
\* both wrap-arounds, overwriting, purging and re-enabling.  The state codec
\* refuses to restore an image without this, and EntryID lookup relies on it.
RetainedConsecutive ==
  /\ \A i \in 0..(count - 1) : At(i).occupied /\ At(i).entry # 0
  /\ \A i \in 1..(count - 1) :
       /\ At(i).entry = NextEntryNumber(At(i - 1).entry)
       /\ At(i).sq = NextSequenceNumber(At(i - 1).sq)
  /\ count # 0 =>
       /\ next_entry_number = NextEntryNumber(At(count - 1).entry)
       /\ sequence_number = At(count - 1).sq

\* An EntryID names at most one retained report, so resume_after and
\* replay_from cannot land on a different report with the same number.
EntryIdsUnique ==
  \A i, j \in 0..(count - 1) : At(i).entry = At(j).entry => i = j

Retained == {At(i).entry : i \in 0..(count - 1)}
Undelivered == {At(i).entry : i \in delivery_offset..(count - 1)}
Newest == At(count - 1)

\* A report that was never delivered leaves the ring in one of two ways only:
\* an explicit purge, or an overwrite that counts it, raises replay_gap and
\* marks the report that displaced it; a report is marked only for that.
NoSilentOverwrite ==
  [][count' # 0 =>
       LET lost == Undelivered \ Retained'
           captured == next_entry_number' # next_entry_number
       IN  /\ lost # {} => /\ captured /\ replay_gap'
                           /\ dropped_reports' = (dropped_reports + 1) % DropMod
                           /\ Cardinality(lost) = 1
           /\ captured => (Newest'.overflow <=> lost # {})]_brcbVars

\* While the block stays enabled, an accepted notification is not forgotten:
\* its member keeps its reasons until a retained report carries them, however
\* plans, GI, integrity captures and later notifications interleave.
AcceptedEventsSurvive ==
  [][enabled /\ enabled' =>
       \A m \in Members :
         \/ pending.masks[m] \subseteq pending'.masks[m]
         \/ /\ count' # 0 /\ Newest'.entry = next_entry_number
            /\ pending.masks[m] \subseteq Newest'.masks[m]]_brcbVars

\* A report is captured for something that is still due at that moment: a plan
\* made before the block was disabled, reconfigured, or already captured is
\* never turned into a report, and an event report waits for its window.
CaptureIsDue ==
  [][next_entry_number' # next_entry_number =>
       /\ enabled
       /\ \/ gi_pending /\ ~gi_pending'
          \/ EventDue /\ ~pending'.active
          \/ integrity_armed /\ integrity_due # 0 /\ now >= integrity_due
             /\ "integrity" \in trigger_options]_brcbVars

-----------------------------------------------------------------------------
(* The ring implements a plain log of reports.                             *)

Report == [entry : 1..EntryMax, overflow : BOOLEAN]
ReportOf(slot) == [entry |-> slot.entry, overflow |-> slot.overflow]
RetainedLog == [i \in 1..count |-> ReportOf(At(i - 1))]

Log == INSTANCE ReportLog WITH
         Succ <- NextEntryNumber,
         log <- RetainedLog, cursor <- delivery_offset, gap <- replay_gap

\* Whatever the ring indices do, the client of the block sees a bounded log
\* that only grows at its end, shrinks at its front, and records every loss.
RefinesReportLog == Log!LogSpec

=============================================================================
