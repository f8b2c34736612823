------------------------------ MODULE BrcbServer ------------------------------
(***************************************************************************)
(* The buffered report control block as its clients meet it: attribute     *)
(* writes (static_brcb_objects), report delivery over a connection         *)
(* (static_brcb_connection), the control block's ownership rules and the   *)
(* runtime underneath, together with the application that notifies events  *)
(* and the loop that captures and sends reports.                           *)
(*                                                                         *)
(* A report is framed and handed to the transport by poll; commit_sent     *)
(* follows later, and anything may happen in between: a capture that       *)
(* overwrites the report, a write, the loss of the association.  The peer  *)
(* may be gone before the server notices (broken); what is sent then is    *)
(* lost although it is committed.                                          *)
(***************************************************************************)
EXTENDS BrcbControl

CONSTANTS
  FrameLimit, \* association -> the largest report its PDU size, workspace and
              \* frame buffer let through
  Watched,    \* the owner whose received reports are observed, or None
  Breakable   \* associations whose peer may vanish unnoticed

ASSUME ServerAssumption ==
  /\ FrameLimit \in [Associations -> Nat]
  /\ Watched \in Owners \cup {None} /\ Breakable \subseteq Associations

VARIABLES
  open,       \* established associations
  broken,     \* those whose peer has vanished unnoticed
  staged,     \* association -> the entry polled and not yet committed
  last_got,   \* the last entry number the watched owner received (observer)
  tracked     \* whether the cursor follows last_got (observer)

connectionVars == <<open, broken, staged>>
observerVars == <<last_got, tracked>>
serverVars == <<brcbVars, controlVars, connectionVars, observerVars>>

ServerInit ==
  /\ ControlInit
  /\ open = {} /\ broken = {}
  /\ staged = [a \in Associations |-> 0]
  /\ last_got = 0
  /\ tracked = FALSE

-----------------------------------------------------------------------------
(* Associations.                                                           *)

Open(a) ==
  /\ a \notin open
  /\ open' = open \cup {a}
  /\ UNCHANGED <<runtimeVars, controlVars, broken, staged, observerVars, now>>

Break(a) ==
  /\ a \in (open \ broken) \cap Breakable
  /\ broken' = broken \cup {a}
  /\ UNCHANGED <<runtimeVars, controlVars, open, staged, observerVars, now>>

Close(a) ==
  /\ a \in open
  /\ open' = open \ {a}
  /\ broken' = broken \ {a}
  /\ staged' = [staged EXCEPT ![a] = 0]
  /\ OnAssociationClosed(a)
  /\ UNCHANGED <<observerVars, now>>

-----------------------------------------------------------------------------
(* Attribute writes.  A write to a block nobody holds claims it first       *)
(* (ensure_claimed), and keeps the claim even if the write then fails.  An  *)
(* expired reservation is not enabled (EnabledHasLiveOwner), so the tick    *)
(* inside the claim has no reporting to stop.                               *)

Claimed(a) ==
  \/ Free /\ Claim(a, 0)
  \/ OwnsLiveAssociation(a) /\ UNCHANGED controlVars

Request(a) == a \in open \ broken /\ UNCHANGED <<connectionVars, last_got, now>>

WriteRptEna(a, on) ==
  /\ Request(a) /\ UNCHANGED tracked
  /\ IF Free /\ ~on THEN Tick
     ELSE Claimed(a) /\ SetReportEnabled(on)

WriteConfiguration(a) ==
  /\ Request(a) /\ UNCHANGED tracked
  /\ Claimed(a)
  /\ \/ \E v \in OptionalSettings : ControlSetOptionalFields(v)
     \/ \E v \in TriggerSettings : ControlSetTriggerOptions(v)
     \/ \E v \in IntegrityPeriods : ControlSetIntegrityPeriod(v)

WriteGI(a) ==
  /\ Request(a) /\ UNCHANGED tracked
  /\ Claimed(a) /\ ControlGeneralInterrogation

WritePurgeBuf(a) ==
  /\ Request(a)
  /\ Claimed(a) /\ ControlPurgeBuffer
  /\ tracked' = (tracked /\ enabled)

\* Mutant: EntryID positions the cursor one report after the one to resume with.
BugWriteEntryIDSkips(a, e) ==
  /\ Request(a)
  /\ Claimed(a)
  /\ Attempt(~enabled /\ FindEntry(e) # {},
             \E i \in FindEntry(e) :
               SetCursor(IF i + 2 > count THEN count ELSE i + 2))
  /\ tracked' = IF enabled \/ FindEntry(e) = {} THEN tracked
                ELSE OwnerOf[a] = Watched /\ e = last_got

\* All zeros rewinds to the oldest retained report, anything else resumes
\* after the report it names.
WriteEntryID(a, e) ==
  /\ Request(a)
  /\ Claimed(a)
  /\ IF e = 0 THEN ControlRewindToOldest ELSE ControlResumeAfter(e)
  /\ tracked' = IF enabled \/ (e # 0 /\ FindEntry(e) = {}) THEN tracked
                ELSE OwnerOf[a] = Watched /\ e # 0 /\ e = last_got

\* No attribute reaches replay_from; a host may call it for the owner.
HostReplayFrom(a, e) ==
  /\ Request(a)
  /\ OwnsLiveAssociation(a) /\ UNCHANGED controlVars
  /\ ControlReplayFrom(e)
  /\ tracked' = IF enabled \/ FindEntry(e) = {} THEN tracked
                ELSE OwnerOf[a] = Watched /\ e = last_got

WriteResvTms(a, seconds) ==
  /\ Request(a) /\ UNCHANGED tracked
  /\ IF seconds # 0 THEN Reserve(a, seconds)
     ELSE IF Free THEN Tick
     ELSE Release(a)

-----------------------------------------------------------------------------
(* Delivery.                                                               *)

\* poll: frame the front report and hand it to the transport.  A report that
\* cannot be framed for this association is not staged, and stays in front.
Poll(a) ==
  /\ a \in open
  /\ staged[a] = 0
  /\ enabled
  /\ OwnsLiveAssociation(a)
  /\ HasFront
  /\ Front.bytes <= FrameLimit[a]
  /\ staged' = [staged EXCEPT ![a] = Front.entry]
  /\ IF a \notin broken /\ OwnerOf[a] = Watched
     THEN tracked' = TRUE /\ last_got' = Front.entry
     ELSE tracked' = FALSE /\ UNCHANGED last_got
  /\ UNCHANGED <<runtimeVars, controlVars, open, broken, now>>

\* commit_sent: every condition of poll is checked again, and the entry that
\* was sent must still be the front one.
CommitSent(a) ==
  /\ a \in open
  /\ staged[a] # 0
  /\ staged' = [staged EXCEPT ![a] = 0]
  /\ Attempt(/\ enabled /\ OwnsLiveAssociation(a)
             /\ HasFront /\ Front.entry = staged[a],
             CommitDelivery(staged[a]))
  /\ tracked' = (tracked /\ (delivery_offset' # delivery_offset => OwnerOf[a] = Watched))
  /\ UNCHANGED <<controlVars, open, broken, last_got, now>>

\* A poll, a read or a denied request that finds the reservation expired.
ExpireReservation ==
  /\ open # {}
  /\ Tick
  /\ UNCHANGED <<connectionVars, observerVars, now>>

Application ==
  /\ \E m \in Members, r \in EventReasons : Notify(m, r)
  /\ UNCHANGED <<controlVars, connectionVars, observerVars, now>>

PlanStep ==
  NextDue /\ UNCHANGED <<controlVars, connectionVars, observerVars, now>>

CaptureStep ==
  Capture /\ UNCHANGED <<controlVars, connectionVars, observerVars, now>>

Clock == AdvanceClock /\ UNCHANGED <<controlVars, connectionVars, observerVars>>

-----------------------------------------------------------------------------
ServerNext ==
  \/ \E a \in Associations :
       \/ Open(a) \/ Break(a) \/ Close(a)
       \/ \E on \in BOOLEAN : WriteRptEna(a, on)
       \/ WriteConfiguration(a) \/ WriteGI(a) \/ WritePurgeBuf(a)
       \/ \E e \in 0..EntryMax : WriteEntryID(a, e)
       \/ \E e \in 1..EntryMax : HostReplayFrom(a, e)
       \/ \E s \in ResvSeconds : WriteResvTms(a, s)
       \/ Poll(a) \/ CommitSent(a)
  \/ ExpireReservation \/ Application \/ PlanStep \/ CaptureStep \/ Clock

\* The server's own loop keeps polling, committing and capturing, and a member
\* of the data set can be read sooner or later; clients and the application
\* owe nothing.
ServerFairness ==
  /\ \A a \in Associations : WF_serverVars(Poll(a)) /\ WF_serverVars(CommitSent(a))
  /\ WF_serverVars(ExpireReservation) /\ WF_serverVars(Clock)
  /\ WF_serverVars(PlanStep) /\ WF_serverVars(CaptureStep)

ServerSpec == ServerInit /\ [][ServerNext]_serverVars
FairServerSpec == ServerSpec /\ ServerFairness

-----------------------------------------------------------------------------
(* Properties.                                                             *)

\* The type of the state.
ServerTypeOK ==
  /\ TypeOK
  /\ reserved \in BOOLEAN /\ owner_connected \in BOOLEAN
  /\ owner \in Owners \cup {None} /\ association \in Associations \cup {None}
  /\ resv_tms \in ResvSeconds /\ expires_at \in 0..TimeMax
  /\ open \subseteq Associations /\ broken \subseteq open
  /\ staged \in [Associations -> 0..EntryMax]
  /\ last_got \in 0..EntryMax /\ tracked \in BOOLEAN

\* Reporting is enabled only for a reservation whose owner is connected
\* through an association that is still established: no sequence of closing,
\* expiring, releasing and reclaiming leaves the block running for nobody.
EnabledHasLiveOwner ==
  enabled => /\ reserved /\ owner_connected
             /\ association \in open /\ OwnerOf[association] = owner

\* A client that lost its association keeps its block until its ResvTms has
\* run out: nobody else becomes owner, and cursor, retained reports and
\* configuration stay as it left them.
ReservationHonoured ==
  [][(reserved /\ ~owner_connected /\ ~Expired) =>
       /\ owner' = owner
       /\ UNCHANGED <<slots, delivery_offset, configVars>>]_serverVars

Receives(a) ==
  OwnerOf[a] = Watched /\ staged[a] = 0 /\ staged'[a] # 0 /\ a \notin broken

OverflowMarkAhead == \E i \in delivery_offset..(count - 1) : At(i).overflow

\* A client whose cursor follows what it received last, either because it
\* stayed connected or because it resumed after that entry, next receives
\* that entry again or the one after it; if reports in between were
\* overwritten, a report marked with buffer overflow is still coming.
NoSilentSkip ==
  [][\A a \in Associations :
       Receives(a) /\ tracked =>
         \/ staged'[a] \in {last_got, NextEntryNumber(last_got)}
         \/ OverflowMarkAhead]_serverVars

\* While the block stays enabled, the report at the cursor is delivered or
\* overwritten, never stuck behind a failed commit; only one that the owner's
\* association cannot frame may stay where it is and keep back the others.
FrontProgresses ==
  \A e \in 1..EntryMax :
    (enabled /\ HasFront /\ Front.entry = e) ~>
      \/ ~enabled \/ e \notin Undelivered
      \/ Front.entry = e /\ Front.bytes > FrameLimit[association]

\* A lost client's reservation ends: it is reclaimed or it expires.
ReservationEnds ==
  (reserved /\ ~owner_connected /\ open # {}) ~>
    (~reserved \/ owner_connected \/ open = {})

\* A requested general interrogation is captured, however event and integrity
\* reports compete with it, unless reporting stops; only one whose report may
\* not fit the slot that is next can be put off, and it is offered first for
\* as long as that lasts.
InterrogationAnswered ==
  gi_pending ~>
    \/ ~gi_pending
    \/ \E bytes \in ReportSizes["general_interrogation"] : bytes > SlotSize[Target]

=============================================================================
