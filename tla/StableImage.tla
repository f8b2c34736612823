----------------------------- MODULE StableImage -----------------------------
(***************************************************************************)
(* What a checkpoint store promises, without banks, headers or syncs: it   *)
(* holds one acknowledged image; an attempt that has not been acknowledged *)
(* may or may not replace it when power is lost, and nothing else can.     *)
(***************************************************************************)
CONSTANTS Images, NoImage

VARIABLES
  committed,   \* the image of the last acknowledged checkpoint
  attempts     \* images of the unacknowledged attempts made since

stableVars == <<committed, attempts>>

StableInit == committed = NoImage /\ attempts = {}

Attempt(image) == attempts' = attempts \cup {image} /\ UNCHANGED committed

Acknowledge == \E image \in attempts : committed' = image /\ attempts' = {}

\* Power is lost, and on restart exactly one candidate is found.
Recover == committed' \in attempts \cup {committed} /\ attempts' = {}

StableNext == (\E image \in Images : Attempt(image)) \/ Acknowledge \/ Recover

StableSpec == StableInit /\ [][StableNext]_stableVars

=============================================================================
