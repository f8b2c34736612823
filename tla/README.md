# TLA+ verification of ARStack61850

ARStack61850 is a C++20 IEC 61850 stack: an MMS server for embedded targets, an
MMS client, GOOSE, sampled values and PTP. This directory models the parts of it
that carry state from one call to the next: the server's **buffered reporting**
(the BRCB: report queue, reservation, delivery, persistence), its
**select-before-operate control objects**, the **client control session** on the
other side of them, **GOOSE** publication and supervision over a faulty network,
and the **lock-free signal bank** of the sampled-value generator. TLC checks the
models on small instances, and TLAPS proves every safety property and every
refinement of them, for every ring size, counter width, timing
and number of threads. Liveness is left to TLC.

Paths below are relative to the repository root. `PROJECT.json` maps every
definition to its source lines.

## 1. Inventory

### Components, their state and operations

| Component | Source | State | Operations | Status |
|---|---|---|---|---|
| BRCB runtime | `src/mms/static_brcb_runtime.cpp` | ring of retained reports, cursor, entry and sequence counters, pending events, schedule, revisions | notify, next_due, capture, set_*, request GI, commit_delivery, replay/resume/rewind, purge | modelled |
| BRCB reservation | `src/mms/static_brcb_control.cpp` | owner, association, ResvTms, deadline | reserve, release, tick, on_association_closed, ownership gate | modelled |
| BRCB attributes | `src/mms/static_brcb_objects.cpp` | none of its own | attribute writes with implicit claim; reads | partly: the writes |
| BRCB delivery | `src/mms/static_brcb_connection.cpp` | entry staged between poll and commit | poll, commit_sent | modelled |
| Checkpoint store | `src/mms/static_brcb_checkpoint_store.cpp` | two flash banks with generations | checkpoint, restore | modelled |
| State codec | `src/mms/static_brcb_state_codec.cpp` | none of its own | encode, restore | modelled |
| Control objects | `src/mms/static_direct_control.cpp` | three shared atomics; per-association command and termination | Select, SelectWithValue, Oper, Cancel, termination, close | partly: the SBO models |
| Host loop | `tools/static_ied_server.cpp` | connections, threads | one worker per association: dispatch, notify, capture, poll, commit, close | partly: what drives the above |
| Client control | `src/control/*.cpp` | selection, control number, planner state | select, operate, cancel, wait for termination | modelled |
| Client association | `association_runtime*.cpp`, `invoke_router.cpp` | phase, invoke ids, three queues | connect, request/response, poll, report queue | partly: what the control session uses |
| GOOSE | `src/goose/*.cpp`, `apps/ied_simulator/src/IedGoosePublication.cpp`, the GOOSE monitor of the simulator | stNum, sqNum, schedule, dirty flag; supervisor baseline and deadline | start, publish, retransmit, change, stop; accept, expire, clear | modelled |
| SV live signal | `include/.../live_signal_state.hpp`, `live_signal_transaction.hpp` | four banks, reader pins; staged scenario | snapshot, publish; begin, commit, read back | partly: the bank |
| URCB server | `static_urcb_*.cpp`, `static_report_*.cpp` | reservation, pending events, schedule | as BRCB, without a queue | planned |
| Server connection | `connection_runtime*.cpp`, `static_dispatcher.cpp`, `static_server_session.cpp` | connection phase, negotiated limits | COTP, session, ACSE, initiate, requests, conclude | planned |
| Setting groups | `static_setting_group.cpp` | active and edit group, confirmation | select, write, confirm | planned |
| Client reporting | `report_subscription_runtime.cpp`, `rcb_failover.cpp`, `rcb_selection.cpp` | subscription phase, rollback steps | subscribe, receive, recover, fail over | planned |
| Multi-stream deployment | `apps/arstack_studio/src/M4*.cpp`, `DeviceController.cpp`, `DeviceIoWorker.cpp`, the board's `multi_profile_*` | upload transaction, scenario set, group stage, command queue; staged profiles | deploy, apply, start, stop, reconnect | planned |
| PTP control | `include/.../time_sync/*.hpp` | cancellation gate, role owners, clock lease | start, stop, finish | planned |
| Codecs, SCL, COMTRADE, pcap | `src/osi`, `src/acse`, `src/asn1`, ... | none between calls | encode, decode, parse | not planned |
| Other firmware, Qt applications | `embedded/`, `apps/` | tasks, user interface | | not planned |

### How the modelled parts interact

```
 application ──notify──▶ BRCB runtime ◀──encode/restore── state codec ◀──▶ checkpoint store
                          ▲      ▲
     ownership gate ──────┘      └── front / commit_delivery
            │                              │
   BRCB control ◀── attribute writes ── objects          BRCB delivery ──▶ connection ──▶ client
            ▲                                                  ▲
            └─ on_association_closed ── host loop ─────────────┘

 control planner ◀── control session ──Select/Oper/Cancel──▶ control object (selection atomics)
                          ▲                                          │
                          └── bounded report queue ◀── LastApplError, CommandTermination

 simulated values ──dirty──▶ GOOSE publisher ──frames──▶ network ──▶ GOOSE monitor (supervisor)

 operator commands ──publish──▶ signal bank ◀──snapshot── sample generators
```

The library is written for callers that interleave freely: a capture plan is
obtained in one call and redeemed in a later one; a report is framed in one call
and acknowledged in another; a reservation expires only when somebody calls in;
a checkpoint is seven device operations; a selection is two atomics that several
threads read and write one at a time; the answer to an Oper, an application error
about it and its termination travel separately; a GOOSE frame is judged against
the one before it, whichever that was; a snapshot is copied member by member
while a writer looks for a bank nobody reads. Those gaps are where the models
step.

### What makes it hard, and what is therefore checked

* *Wrap-around and a ring*: entry numbers, sequence numbers, ring head and
  cursor all wrap at different moments — `RetainedConsecutive`,
  `EntryIdsUnique`, `RefinesReportLog`.
* *Loss at a full queue*: the only legitimate loss is one the client can see —
  `NoSilentOverwrite`, and end to end `NoSilentSkip` of `BrcbServer`.
* *Stale plans*: `CaptureIsDue`, `AcceptedEventsSurvive`.
* *Delivery acknowledged late, reports that do not fit*: `FrontProgresses`,
  `InterrogationAnswered`.
* *Lost associations and lazy expiry*: `EnabledHasLiveOwner`,
  `ReservationHonoured`, `ReservationEnds`.
* *Power loss and failing flash*: `CommittedRecoverable`, `FallbackKept`,
  `EncodedRestorable`, `RecoveredAsSaved`, and the theorem
  `StoreImplementsStableImage`.
* *Threads on two atomics*: `OneOperatePerSelect`, `ClosedReleases`,
  `SelectAnswered`, and for a single-loop host `GrantHonoured`,
  `LoopSelectionTimesOut`.
* *A call that ends in an error, an exception, a time-out or a disconnection
  half-way*:
  `OperatesWhatWasAsked`, `OperatesTheSelection`, `PlannerAgrees`,
  `CompletedByOwnReport`.
* *Lost, doubled, late and reordered frames*: `ValidityAhead`,
  `NoFalseTimeout`, `ExpiryCountedOnce`, `NoSilentSkip` of `GooseLink`,
  `Converges`, `SilenceNoticed`.
* *Lock-free sharing*: `WholeSnapshot`, `PublishSucceeds`,
  `ImplementsRegister`.

`PROJECT.json` lists each hazard at its line, including those no property covers
yet.

## 2. Modules

| Module | Models | Notes |
|---|---|---|
| `ReportLog` | abstract: a bounded, numbered log with a cursor | implemented by `BrcbRuntime` |
| `BrcbRuntime` | `MmsStaticBrcbRuntime` | one action per public operation |
| `BrcbControl` | `MmsStaticBrcbControl` | extends `BrcbRuntime`; the gate is `Attempt` |
| `BrcbServer` | attribute writes, delivery, associations, host loop | extends `BrcbControl`; composes everything on the online path |
| `StableImage` | abstract: one atomically replaced image | implemented by `CheckpointStore` |
| `CheckpointStore` | `MmsStaticBrcbCheckpointStore` over a write-back device | one action per device operation |
| `BrcbPersistence` | state codec, over `BrcbRuntime` and a stable image | extends `BrcbRuntime` |
| `SboSelection` | select-before-operate of `static_direct_control` | one action per atomic access |
| `SignalRegister` | abstract: one atomic register | implemented by `SignalBank` |
| `SignalBank` | `SvLiveSignalBank` | one action per memory access |
| `GoosePublisher` | publisher session, schedule and runtime, under the publication model that drives them | one action per timer or user call |
| `GooseMonitor` | subscriber supervisor, under the monitor that drives it | one action per frame, timer or user call |
| `GooseLink` | both, over a network that loses, doubles and delays | extends `GoosePublisher`, instantiates `GooseMonitor` |
| `ControlPlanner` | the planner of the control session | operators on its state |
| `ControlSession` | `ControlSession` and the part of the association it uses | one action per exchange or wait |
| `ControlLink` | the session against a device | extends `ControlSession` |
| `*Proofs` | theorems about the module of that name | TLAPS |
| `MC*` | instances for TLC | |

Variables and operators keep the names of the members and functions they stand
for. `Bug...` definitions, each in front of the definition it replaces, are
plausible mistakes in that function; every property is known to fail under one.

### Abstractions

* **Reports** are their entry number, sequence number, overflow mark, size and,
  per member, the set of reasons. The size of a report is any of `ReportSizes` for
  its reason; it is compared with the storage of its slot at `capture` and at
  `restore`, and with `FrameLimit`, one number for the limits of an association
  that `poll` checks (MMS PDU, TPDU stream, workspace and response buffer). The
  bytes themselves, values and times of entry are left out. The
  codec does not save the time of entry, so a restored report has lost it; no
  property speaks of it.
* **Revisions**: the three 32-bit counters are only compared with the copies in
  a plan, so the plan records which of them have moved since. Their wrap after
  2^32 changes between two calls is not modelled.
* **Refused calls** that change nothing are not steps; so a capture or a poll
  that fails for a size leaves what it found. Calls that fail after
  changing something are: a refused write keeps its implicit claim, and a refused
  Select its control number.
* **Clock**: the host passes milliseconds in; `now` advances one unit at a time
  up to `TimeMax`, where `SaturatingAdd` saturates as the code does. GOOSE
  deadlines are the milliseconds left, so that its clock has no bound.
* **One block, several associations**: `BrcbServer` composes a control block
  shared by its associations, as the library is meant to be used and as its
  reservation rules presuppose. In `static_ied_server` each worker builds its own
  model, which is the case of a single association.
* **Flash** is external: a read returns what was written last, a power loss
  leaves each field of an unsynchronised bank old, new or torn, a failed
  operation may have been carried out in part. CRC32 is taken to tell the images
  at hand apart.
* **Restart**: `FreshSchedule` lets the configuration of the definition differ
  from the one before, which allows more than one firmware does.
* **Atomics** interleave sequentially consistently; the weaker orders of the
  code (acquire/release on several variables) may allow more. A snapshot copies
  one member of the scenario per step.
* **Commands** of the server are compared as wholes (value, origin, number, Test,
  Check). Malformed commands change nothing; direct control needs no selection.
* **Control sequences** of the client are a value and a control number, which is
  what its comparisons and its correlation tell apart. There is one association
  and one object; the device is any that answers each request positively or
  negatively, deselects and reports when it likes. That an answer is a Reject or
  does not decode, or that a report does not, is decided where the transport reads
  it (`AnswerThrows`, `ReportThrows`): the call ends in an exception and the
  association stays up. The observer `unsettled` remembers such an exception until
  `clear_selection` or an accepted selection follows.
* **GOOSE** data sets are one value, of which one cannot be represented; the
  monitor follows one stream; the network keeps a frame at most `NetDelay` if it
  is not delayed by a fault.

## 3. Runs

| Run | Instance | What it shows |
|---|---|---|
| `brcb_runtime` | ring of 2, 2 members, entries 1..3, sequence numbers mod 3, buffer window 1, integrity period 1 | every call in every order: the ring is a log, ids are unique, losses are marked, no stale capture, no forgotten event |
| `brcb_server` | 2 clients, ring of 2 with slots of sizes 2 and 1, entries 1..3, events of sizes 1 and 2 of which one client can be sent only the small ones, a peer that vanishes | a client that resumes by EntryID misses nothing unmarked; reporting never runs for nobody |
| `brcb_live` | 2 clients, ring of 1, events, integrity period 1 and interrogations, ResvTms 0 and 1; the interrogation report is too large for one client | a report that fits is delivered or overwritten; an interrogation that fits is captured although events and integrity compete; expiry makes progress; reservations hold until they end |
| `checkpoint_store` | 3 images, generations 1..5, faults up to the image sync | a power loss anywhere leaves the acknowledged image or a newer attempt |
| `checkpoint_commit_fault` | violation | see findings |
| `brcb_persistence` | ring of 2 with slots of different sizes, entries 1..3, reports of sizes 1 and 2 | what is encoded is accepted and restored as a whole, unless a report does not fit the slot it moves to; then the queue is empty |
| `sbo_selection` | 2 associations, enhanced model, a normal and a Test command, hosts with threads and with one loop | one Oper per Select; closing releases; every Select is answered; for one loop, grants are honoured and expire |
| `sbo_immortal` | violation | see findings |
| `signal_bank` | 2 readers, 4 banks, 2 members, generations up to 4 | snapshots are whole, publishing never fails, the bank is a register |
| `goose_link` | 2 streams, 2 changes, stNum mod 5, sqNum up to 3, delays 3 to 8, timer and network each late by up to 1, 2 network faults | frames stay valid, no false timeout before a fault, skips are marked, the monitor converges and notices silence once |
| `goose_second_start` | violation | see findings |
| `control_link` | 2 values, control numbers 1..2, report queue of 2, the four control models | an Oper carries what was asked for and what was selected; planner and session agree unless an exception is unsettled; old reports complete nothing |

**Why the bounds are enough.** Every counter wraps at least once within its
bound: entry numbers exceed the ring by one, the smallest distance at which two
retained reports could collide; generations 1..5 are the smallest range (the
width must be even, with room on both sides) in which the wrapped comparison
differs from the plain one; a GOOSE publisher starts at state number 4 of 5 and
makes two changes; control numbers wrap at the third command. A ring of 2 has an
oldest and a newest report; a ring of 1 overwrites at every capture. Two owners
give contention. One unit of time separates before and after a deadline. The GOOSE
times 3 and 8 make the schedule double once and then meet its maximum. A unit of
time stands for the 10 ms of the publishing timer, which is why the lateness of one
unit goes with a MinTime of three. The time to live never saturates: a delay is at
most the largest `int`, half of what the time to live can hold, and
the lemma `PreparedLasts` shows for all widths that the saturating branch of
`prepare_next_delay` is never taken. Two faults of the network are
enough to lose a frame and delay another. Two readers are what the generator has,
and four banks are one more than they and the published one can hold. The report
queue of 2 fills and drops its oldest. The clock of `sbo_selection` allows one
expiry; the proofs of its safety properties have no such bound. `brcb_live`
has a ring of one slot, which keeps it within reach with all three capture reasons;
that slot takes every report, so that a capture which fails for its size happens in
`brcb_runtime`, `brcb_server` and `brcb_persistence`, and a poll that fails for it
in `brcb_server` and `brcb_live`.

**Deadlock** is checked in `signal_bank` and `control_link`, whose programs always
have a next step. Elsewhere it is not: when clocks and counters have reached their
bounds and every association or stream is closed, nothing is left to do.

**Fairness.** `FairServerSpec` assumes that the host keeps calling: the worker
loop of `tools/static_ied_server.cpp` (`serve_connection`) polls, commits and
captures in every iteration (a poll or a capture that fails for a size is not
enabled, and fairness promises nothing of it), time passes, and the tick that expires a
reservation runs on the next access to the block. Clients and the application
owe nothing, so a client that never enables or never reads is a behaviour of the
model. `FairSelectionSpec` assumes only that a thread inside a call goes on; it
does not assume that its compare-and-exchange ever succeeds. `LinkFairness` of
GOOSE assumes that time passes, that the Qt timers of publisher and monitor run,
and that a frame which is not lost arrives; the number of faults is bounded, so
they end.

### Findings

* **A failed last sync costs the last good image.** If only the final `sync` of
  `checkpoint()` fails, the new bank reads back as newest although it may not be
  durable. The next checkpoint then erases the bank that holds the acknowledged
  image (`static_brcb_checkpoint_store.cpp:273`), and a power loss leaves
  nothing. This is why `checkpoint_store` injects faults only up to the footer.
* **A selection that never expires.** `release_selection` gives the owner up and
  clears the deadline afterwards (`static_direct_control.cpp:172`, likewise 204).
  A thread that claims in between loses its own deadline, and deadline 0 never
  expires. The same pair of atomics lets a renewal (line 189) be granted after an
  eviction, so that two associations are told they are selected: this is why
  `GrantHonoured` speaks of a host with one loop, which `sbo_selection` shows not
  to be exposed.
* **A change lost when a second stream starts.** Starting a GOOSE stream clears
  the dirty flag (`apps/ied_simulator/src/IedGoosePublication.cpp:436`) although a
  change may still wait for the timer. A stream that already runs then goes on
  retransmitting the old values, against what
  `apps/ied_simulator/UX_PERFORMANCE_PLAN.md:127-129` describes.

Met while modelling, and not runs of their own:

* `docs/RCB_REPORTING_REFERENCE.md:389-390` says that "retained report capture
  continues" for a lost association. The code disables the block
  (`static_brcb_control.cpp:286`), and a disabled block refuses events.
* A CommandTermination that arrives after its command has timed out may complete
  the next command: a report tagged with the object is not compared by control
  number (`PORT_STATUS.md:37` describes the correlation). `CompletedByOwnReport`
  therefore exempts the numbers of commands whose wait has given up.
* **A rejected command wedges the control session.** An MMS Reject, or an answer
  that does not decode, makes `MmsAssociationControlTransport` throw while the
  association stays up (`mms_association_control_transport.cpp:66-70, 176-177`).
  `select_with_value` and `operate` do not clear the selection then
  (`control_session.cpp:376, 508-520`; only a cancelled transport is caught), so the
  planner stays selected or waiting. Where the session holds nothing, every later
  Select and Operate is refused and there is nothing to cancel, until the user
  disconnects: `MmsControlController` keeps the session. Where the session still
  holds an earlier selection, the planner may hold a later one of another value;
  once the control number has wrapped round to that of the earlier one, the planner
  agrees to an Oper that carries the earlier value. `PlannerAgrees`,
  `OperatesWhatWasAsked` and `OperatesTheSelection` therefore speak of the time
  when no exception is unsettled; TLC refutes each of them without that reserve.
* **A report that does not fit** the association that polls stays at the cursor:
  `poll` fails on it every time and the host goes on, so the reports behind it wait
  until a full ring overwrites it or an association with larger limits takes over. A
  general interrogation whose report does not fit its slot stays pending likewise,
  and since it comes first, events and integrity reports wait with it.
* **Slots of different sizes** are allowed by `initialize()`, but `restore()` moves
  the reports to the slots of their age and refuses an image that does not fit
  (`static_brcb_state_codec.cpp:311-317`). The hosts of the repository use slots of
  one size, for which nothing is ever refused (`UniformSlotsRestorable`).
* **A MinTime of up to 10 ms** makes the period of the publishing timer MinTime
  itself (`IedGoosePublication.cpp:515-519`). A deadline may then be served late by
  as much as the time to live outlasts it, and with a network that is not always
  equally fast a running stream may time out at the monitor.
* After a selection has expired on the client, a Select is refused until an
  Operate or Cancel has cleared it.

## 4. Proofs

| Theorem | Says | For every |
|---|---|---|
| `RuntimeTypeCorrect` | `RuntimeSpec => []TypeOK` | ring size, counter width, configuration |
| `RetainedAlwaysConsecutive` | `RuntimeSpec => []RetainedConsecutive` | ring size, counter width |
| `EntryIdsAlwaysUnique` | `RuntimeSpec => []EntryIdsUnique` | the same |
| `NeverSilentOverwrite` | `RuntimeSpec => NoSilentOverwrite` | the same |
| `CaptureAlwaysDue` | `RuntimeSpec => CaptureIsDue` | clock, buffer window, integrity period |
| `AcceptedEventsAlwaysSurvive` | `RuntimeSpec => AcceptedEventsSurvive` | number of members, ring size |
| `RingImplementsLog` | `RuntimeSpec => RefinesReportLog` | ring size, counter width |
| `ServerTypeCorrect` | `ServerSpec => []ServerTypeOK` | number of clients and associations |
| `ServerImplementsRuntime` | `ServerSpec => RuntimeSpec` | the same |
| `EnabledAlwaysOwned` | `ServerSpec => []EnabledHasLiveOwner` | the same |
| `ReservationAlwaysHonoured` | `ServerSpec => ReservationHonoured` | the same, and ResvTms |
| `NeverSilentSkip` | `ServerSpec => NoSilentSkip`, if `OneAssociation` | number of clients, ring size |
| `EncodedAlwaysRestorable` | `PersistenceSpec => []EncodedRestorable` | ring size, slot sizes, counter width, number of power losses |
| `ConsecutiveAcrossRestart` | `PersistenceSpec => []RetainedConsecutive` | the same |
| `RestartRecoversSaved` | `PersistenceSpec => RecoveredAsSaved` | the same |
| `UniformSlotsRestorable` | `restore()` accepts every encoded and every saved image, if `UniformSlots` | ring size, counter width, number of power losses |
| `UniformSlotsRecover` | every restart recovers exactly what was saved, if `UniformSlots` | the same |
| `StoreTypeCorrect` | `StoreSpec => []StoreTypeOK`, if `FaultsBeforeCommit` | set of images, range of generations |
| `CommittedAlwaysRecoverable` | `StoreSpec => []CommittedRecoverable`, if `FaultsBeforeCommit` | the same |
| `FallbackAlwaysKept` | `StoreSpec => []FallbackKept`, if `FaultsBeforeCommit` | the same |
| `StoreImplementsStableImage` | `StoreSpec => ImplementsStableImage`, if `FaultsBeforeCommit` | the same |
| `SelectionTypeCorrect` | `SelectionSpec => []SelectionTypeOK` | number of threads, time-outs, retries |
| `ClosedAlwaysReleases` | `SelectionSpec => []ClosedReleases` | number of threads |
| `AlwaysOneOperatePerSelect` | `SelectionSpec => []OneOperatePerSelect` | number of threads |
| `GrantAlwaysHonoured` | `SelectionSpec => []GrantHonoured` | number of associations of one loop, time-out |
| `LoopSelectionAlwaysTimesOut` | `SelectionSpec => []LoopSelectionTimesOut` | the same |
| `SnapshotAlwaysWhole` | `BankSpec => []WholeSnapshot` | number of readers, banks and members |
| `PublishAlwaysSucceeds` | `BankSpec => PublishSucceeds` | the same |
| `BankImplementsRegister` | `BankSpec => ImplementsRegister` | the same |
| `ValidityAlwaysAhead` | `LinkSpec => []ValidityAhead` | retransmission times, integer width, number of streams |
| `ExpiryAlwaysCountedOnce` | `LinkSpec => []ExpiryCountedOnce` | network and number of faults |
| `NeverFalseTimeout` | `LinkSpec => []NoFalseTimeout`, whose premise is `ShortLateness` | retransmission times, delay and lateness |
| `NeverSilentStateSkip` | `OneRound => (LinkSpec => NoSilentSkip)` | network, number of faults, range of stNum |
| `ControlAlwaysTyped` | `ControlLinkSpec => []ControlTypeOK` | range of control numbers, queue length |
| `AlwaysOperatesWhatWasAsked` | `ControlLinkSpec => []OperatesWhatWasAsked` | set of values, device, model |
| `AlwaysOperatesTheSelection` | `ControlLinkSpec => []OperatesTheSelection` | the same |
| `PlannerAlwaysAgrees` | `ControlLinkSpec => []PlannerAgrees` | the same |
| `AlwaysCompletedByOwnReport` | `ControlLinkSpec => CompletedByOwnReport` | the same, and every queue and wire |

The assumptions on the constants are the named `ASSUME`s of the modules:
`RuntimeAssumption` (ring smaller than the range of entry numbers, counters not
empty), `ServerAssumption`, `StoreAssumption`, `SelectionAssumption`,
`BankAssumption`, `PublisherAssumption` and `LinkAssumption` (times and integer
ranges as the code's types have them) and the `ControlAssumption` of either
control. Five theorems or groups of theorems have a hypothesis of their own, which
the passing runs satisfy too, except for `UniformSlots`:

* `FaultsBeforeCommit`: the flash backend may fail at every operation up to the
  sync of the image, not at the footer and the last sync. Without it
  `CommittedRecoverable` is false, as `checkpoint_commit_fault` shows.
* `OneAssociation`: the client whose reports are followed has one association, which
  it may lose and open again. With two at once TLC finds a silent skip: a report that
  was polled on one association is committed after the client has resumed through
  the other, and moves the cursor once more. The client had received that report,
  but not after the entry it resumed from.
* `OneRound`: the value changes of a run do not take stNum once round its range. A
  monitor that misses a whole round sees the number it expects.
* `UniformSlots`: every slot of the ring has the same storage.
* `ShortLateness`: the delay of the network and the lateness of the publishing timer
  are together below the shortest delay. The timer of the code gives that for a
  MinTime above its 10 ms period, if the network is fast enough, and not below.

What each proof rests on:

* **Ring.** `RetainedConsecutive` is inductive together with `TypeOK`. Only
  `Capture` writes a slot; `EnqueueGrows` and `EnqueueShifts` say what it does to
  the reports by age, with the modular ring arithmetic confined to
  `PhysicalUnrolled` and `RingInjective`. The rest is about `Consecutive`, which
  does not mention the ring. That the numbers of neighbours follow each other does
  not say that distant ones differ, and induction over the distance is out of
  reach: `NumberedBack` therefore gives the number of each report in closed form,
  by its distance from the newest, and is inductive itself. With it numbers are
  unique, an overwrite loses exactly one report, and the ring is a log.
* **Plans.** `PlanKnows` says what a plan still vouches for when it is redeemed: an
  event plan whose events have not changed since was made after their window had
  closed, and the integrity timer is armed only while the trigger option is set.
* **Server.** `ServerImplementsRuntime` shows that every action of the composition
  is one step of the runtime, or none, so that the theorems about the runtime hold
  of the server. `LiveOwner` ties the reservation to an open association of its
  owner, through claims, releases, expiry and closing; `EnabledHasLiveOwner` and
  `ReservationHonoured` follow. The end-to-end property needs `StagedIsLast` (what
  is on its way to the client is what it got last) and `CursorFollows` (the cursor
  stands on that report or on the next one, captured or not, or has a report with
  the overflow mark ahead).
* **Persistence.** `PersistenceInv` adds to the ring's invariant that the image in
  the store is sound: well-typed, passing every check of `restore()` but that of the
  sizes, and of reports that fitted some slot; and that a report in the ring fits
  its slot (`InItsSlot`). `FittingValid` says that the sizes then decide alone.
  `EncodedSound` establishes soundness at a checkpoint, `RestoreConsistent` uses it
  after a power loss, and `RestoreEncodesBack` shows that encoding what was restored
  gives the image back. That the store keeps one image is `StoreImplementsStableImage`.
* **Checkpoint store.** `StoreInv` names the bank to keep. The keeper holds the
  acknowledged image whatever a power loss does to it (`Kept`); whatever may
  survive in the other bank is refused, or is of the generation before
  (`OthersOlder`), until the last two stages, where it may be the complete new
  image; `Progress` follows the call through its seven operations. The comparison
  of generations that wrap is only ever made between neighbours, which is why the
  proof needs no more of it than `NextGeneration`.
* **Selection.** None of the properties is inductive by itself. `SelectionInv` adds,
  for every association, `OwnerKnows` (a call that has passed its ownership check,
  or an association registered as owner, was granted the selection or is on its way
  to being told) and `ReleasedKnows` (an association that is closed, or past the
  release of its closing call, is not the owner and no step of another association
  can make it so). For a host with one loop, `LoopInv` adds
  that at most one call is under way (`OneMover`), that a grant still running names
  the owner (`GrantKnows`), that owner and deadline agree between calls
  (`DeadlineKnows`), and what a call has found out at each access (`CallKnows`).
* **Signal bank.** `BankInv` says what a pinned bank may still be: a reader that
  has passed its recheck holds a bank the writer cannot choose, so its members
  keep coming from one publish. The same invariant carries the refinement: a
  publish takes effect when the active index is stored, and a snapshot at its
  recheck. `ReadersUsedUp` counts the scan of `publish()`: the banks found pinned
  and the readers that could still be met are together no more than the readers.
* **GOOSE.** `ScheduleInv` ties the time left to the next retransmission to the
  time to live that was advertised, and `FlagsAgree` ties the expiry flags of the
  monitor to what has been counted. `Quiet` follows the followed stream as long as
  the network has not failed: the deadline of the monitor lies after the arrival of
  the next frame, or of one that is on its way already. `Numbered` gives the stNum
  of each state of a session, on the wire and in the monitor, in closed form.
* **Control.** `ControlInv` is `ControlTypeOK`, `WireInv` (what is on the wire is
  what the session is waiting for) and `KnownInv` (what the device has confirmed
  is what session and planner hold, while no exception is unsettled). Three
  properties follow from it.
  `CompletedByOwnReport` also needs `DueInv`, which accounts for every report that
  can still come: outside an exchange only about the selection that is held or a
  command that was given up (`Held`), once the device has taken a request about that
  request (`Running`), and after a Cancel about nothing new.

The less obvious of these invariants were checked by TLC before they were proved:
`SelectionInv` with three threads, `DueInv` on the instance of `control_link`.

**Only model-checked**: liveness (`FrontProgresses`, `ReservationEnds`,
`InterrogationAnswered`, `SelectAnswered`, `Converges`, `SilenceNoticed`), since
fairness and `ENABLED` are outside the prover. The violations of the findings are
counterexamples of TLC.

## 5. Not modelled

Encoders and decoders (MMS, ACSE, OSI, ASN.1, GOOSE and SV frames), SCL and
COMTRADE parsing, packet capture and the user interfaces: they keep no protocol
state between calls, or are input and output around parts that are modelled or
planned. They make up most of the repository's lines, which is why the modelled
share of it is small. The PTP servo is arithmetic on 64-bit nanoseconds, beyond
the reach of TLC. Read errors that hide the newest bank and the reuse of entry ids
captured after the last checkpoint are listed as hazards without a property.

## 6. Plan

In this order; each item is a module, its runs and, where named, its theorems.

1. **Multi-stream deployment**: the Studio host, its command queue, the serial
   line and the board; `ready`, `verified`, `running` and `stopped` on the host
   mean what they say on the board. With it, `SvScenarioTransaction` over the
   signal bank.
2. **URCB runtime and report session**, sharing the scheduler ideas of
   `BrcbRuntime`; **setting groups**; **server connection phases**.
3. **Client reporting**: subscription, rollback and failover; the rest of the
   client association (invoke identifiers, router, batch).
4. **PTP cancellation gate** (`PtpControlCancellationGate`): a STOP that lands
   anywhere is drained before the slot is free. **Sample-counter supervision** as
   a pure algorithm.
