----------------------------- MODULE BrcbControl -----------------------------
(***************************************************************************)
(* MmsStaticBrcbControl: who may drive the buffered report control block.  *)
(* A client is known by a stable owner identity and by the association it  *)
(* speaks through.  The first client to write claims the block; a client   *)
(* that reserved it with ResvTms > 0 keeps it for that many seconds after  *)
(* its association is lost and may reclaim it through a new association.   *)
(*                                                                         *)
(* Expiry is lazy: nothing runs when the time comes, the next call of any  *)
(* kind ticks first.                                                       *)
(***************************************************************************)
EXTENDS BrcbRuntime

CONSTANTS
  Associations,      \* association identifiers
  OwnerOf,           \* the stable owner identity behind each association
  ResvSeconds,       \* ResvTms values a client may write (0 releases)
  Second,            \* clock ticks in a second
  None

Owners == {OwnerOf[a] : a \in Associations}

ASSUME ControlAssumption ==
  /\ IsFiniteSet(Associations)
  /\ OwnerOf = [a \in Associations |-> OwnerOf[a]]
  /\ None \notin Associations /\ None \notin Owners
  /\ ResvSeconds \subseteq Nat /\ 0 \in ResvSeconds
  /\ Second \in Nat \ {0}

VARIABLES reserved, owner, association, owner_connected, resv_tms, expires_at

controlVars == <<reserved, owner, association, owner_connected, resv_tms, expires_at>>

ControlInit ==
  /\ RuntimeInit
  /\ reserved = FALSE /\ owner = None /\ association = None
  /\ owner_connected = FALSE /\ resv_tms = 0 /\ expires_at = 0

-----------------------------------------------------------------------------
SameOwner(a) == reserved /\ owner = OwnerOf[a]

OwnsLiveAssociation(a) == SameOwner(a) /\ owner_connected /\ association = a

ClearReservation ==
  /\ reserved' = FALSE /\ owner' = None /\ association' = None
  /\ owner_connected' = FALSE /\ resv_tms' = 0 /\ expires_at' = 0

Disable == IF enabled THEN SetEnabled(FALSE) ELSE UNCHANGED runtimeVars

\* Mutant: the connection test is inverted.
BugExpiredNeedsConnection ==
  reserved /\ owner_connected /\ resv_tms # 0 /\ now >= expires_at

Expired == reserved /\ ~owner_connected /\ resv_tms # 0 /\ now >= expires_at

\* What every call does first; also the whole effect of a call that is then denied.
Tick == Expired /\ Disable /\ ClearReservation

\* As a client meets it after the tick, the block belongs to nobody.
Free == ~reserved \/ Expired

Claim(a, seconds) ==
  /\ reserved' = TRUE /\ owner' = OwnerOf[a] /\ association' = a
  /\ owner_connected' = TRUE
  /\ resv_tms' = seconds /\ expires_at' = 0

\* Mutant: the owner identity is not compared when a reservation is renewed.
BugReserveAnyOwner(a, seconds) ==
  /\ Free \/ (owner_connected => association = a)
  /\ IF Expired THEN Disable ELSE UNCHANGED runtimeVars
  /\ Claim(a, seconds)

\* A free block is claimed; the owner renews its reservation, or reclaims it
\* through a new association once the old one is lost.
Reserve(a, seconds) ==
  /\ Free \/ (SameOwner(a) /\ (owner_connected => association = a))
  /\ IF Expired THEN Disable ELSE UNCHANGED runtimeVars
  /\ Claim(a, seconds)

Release(a) ==
  /\ OwnsLiveAssociation(a)
  /\ ~enabled
  /\ ClearReservation
  /\ UNCHANGED runtimeVars

\* Mutant: a lost association leaves reporting enabled.
BugClosedKeepsEnabled(a) ==
  IF OwnsLiveAssociation(a)
  THEN /\ UNCHANGED runtimeVars
       /\ IF resv_tms = 0 THEN ClearReservation
          ELSE /\ association' = None /\ owner_connected' = FALSE
               /\ expires_at' = SaturatingAdd(now, resv_tms * Second)
               /\ UNCHANGED <<reserved, owner, resv_tms>>
  ELSE IF Expired THEN Tick
  ELSE UNCHANGED <<runtimeVars, controlVars>>

\* The loss of the association that holds the block disables reporting and
\* either gives the block up or starts the reservation timer.
OnAssociationClosed(a) ==
  IF OwnsLiveAssociation(a)
  THEN /\ Disable
       /\ IF resv_tms = 0 THEN ClearReservation
          ELSE /\ association' = None /\ owner_connected' = FALSE
               /\ expires_at' = SaturatingAdd(now, resv_tms * Second)
               /\ UNCHANGED <<reserved, owner, resv_tms>>
  ELSE IF Expired THEN Tick
  ELSE UNCHANGED <<runtimeVars, controlVars>>

-----------------------------------------------------------------------------
(* What a client whose claim was accepted does with the runtime.  A call    *)
(* the runtime refuses changes nothing.                                     *)

Attempt(accepted, action) ==
  IF accepted THEN action ELSE UNCHANGED runtimeVars

SetReportEnabled(on) == Attempt(enabled # on, SetEnabled(on))

ControlSetOptionalFields(v) ==
  Attempt(~enabled /\ v # optional_fields, SetOptionalFields(v))

ControlSetTriggerOptions(v) ==
  Attempt(~enabled /\ v # trigger_options, SetTriggerOptions(v))

ControlSetIntegrityPeriod(v) ==
  Attempt(~enabled /\ v # integrity_period, SetIntegrityPeriod(v))

ControlGeneralInterrogation ==
  Attempt(/\ enabled /\ ~gi_pending
          /\ "general_interrogation" \in trigger_options,
          RequestGeneralInterrogation)

ControlReplayFrom(e) == Attempt(~enabled /\ FindEntry(e) # {}, ReplayFrom(e))

ControlResumeAfter(e) == Attempt(~enabled /\ FindEntry(e) # {}, ResumeAfter(e))

ControlRewindToOldest == Attempt(~enabled, RewindToOldest)

ControlPurgeBuffer == Attempt(~enabled, PurgeBuffer)

=============================================================================
