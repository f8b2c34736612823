--------------------------- MODULE SignalRegister ---------------------------
(***************************************************************************)
(* What SvLiveSignalBank promises its users: one register holding the      *)
(* scenario published last, numbered by its generation.  A publish         *)
(* replaces it at one instant; a snapshot returns what the register held   *)
(* at one instant between its call and its return.                         *)
(***************************************************************************)
EXTENDS Integers

CONSTANTS Readers, Contents, Default, None

VARIABLES
  latest,   \* the scenario published last
  answer    \* reader -> what its snapshot has settled on, None before that

registerVars == <<latest, answer>>

RegisterInit ==
  /\ latest = [data |-> Default, generation |-> 0]
  /\ answer = [r \in Readers |-> None]

Publish ==
  /\ \E s \in Contents : latest' = [data |-> s, generation |-> latest.generation + 1]
  /\ UNCHANGED answer

\* The instant at which the snapshot of r takes effect.
Settle(r) ==
  /\ answer[r] = None
  /\ answer' = [answer EXCEPT ![r] = latest]
  /\ UNCHANGED latest

Return(r) ==
  /\ answer[r] # None
  /\ answer' = [answer EXCEPT ![r] = None]
  /\ UNCHANGED latest

RegisterNext == Publish \/ \E r \in Readers : Settle(r) \/ Return(r)

RegisterSpec == RegisterInit /\ [][RegisterNext]_registerVars

=============================================================================
