--------------------------- MODULE CheckpointStore ---------------------------
(***************************************************************************)
(* MmsStaticBrcbCheckpointStore: two banks used as an A/B journal.  A bank *)
(* holds a header, the state image and a footer; header and footer repeat  *)
(* the generation and the image's length and CRC.  checkpoint() runs       *)
(* erase - sync - header - image - sync - footer - sync on the bank that   *)
(* is not the newest valid one; restore() loads the newest valid bank.     *)
(*                                                                         *)
(* The storage backend is external and modelled from how it is used:       *)
(* cached is what read() returns, and outcome[b][f] is the set of contents *)
(* field f of bank b may have after a power loss.  Erasing and writing add *)
(* to that set (a torn field reads as blank: its CRC or magic fails), only *)
(* a successful sync shrinks it to what is cached.                         *)
(*                                                                         *)
(* The CRC and length of an image are represented by the image itself: the *)
(* model assumes that CRC32 tells the images at hand apart.                *)
(***************************************************************************)
EXTENDS Integers

CONSTANTS
  Images,       \* encoded runtime states
  NoImage,      \* erased flash
  GenMax,       \* largest 64-bit generation
  FaultPoints   \* the backend operations that may report failure

Banks == {0, 1}
Fields == {"header", "payload", "footer"}
Stages == {"erase", "sync_erase", "header", "payload", "sync_image", "footer",
           "sync_commit"}

ASSUME StoreAssumption ==
  /\ NoImage \notin Images
  /\ GenMax \in Nat /\ GenMax >= 5 /\ GenMax % 2 = 1
  /\ FaultPoints \subseteq Stages

VARIABLES
  cached, outcome,
  stage, target, generation, image,   \* the checkpoint() call in progress
  committed, attempts, previous       \* what callers were told (observer)

deviceVars == <<cached, outcome>>
callVars == <<target, generation, image>>
storeVars == <<deviceVars, stage, callVars, committed, attempts, previous>>

NoTag == [gen |-> 0, image |-> NoImage]
ErasedBank == [header |-> NoTag, payload |-> NoImage, footer |-> NoTag]

Tag == [gen : 0..GenMax, image : Images \cup {NoImage}]
Bank == [header : Tag, payload : Images \cup {NoImage}, footer : Tag]

StoreInit ==
  /\ cached = [b \in Banks |-> ErasedBank]
  /\ outcome = [b \in Banks |-> [f \in Fields |-> {ErasedBank[f]}]]
  /\ stage = "idle" /\ target = 0 /\ generation = 0 /\ image = NoImage
  /\ committed = NoImage /\ attempts = {} /\ previous = NoImage

-----------------------------------------------------------------------------
(* Reading the banks.                                                      *)

\* inspect_bank
Valid(bank) ==
  /\ bank.header.gen # 0
  /\ bank.header = bank.footer
  /\ bank.payload # NoImage /\ bank.payload = bank.header.image

ValidBanks(mem) == {b \in Banks : Valid(mem[b])}

\* Mutant: generations compared as plain numbers.
BugGenerationNewerPlain(left, right) == left > right
GenerationNewer(left, right) ==
  left # right /\ (left - right) % (GenMax + 1) < (GenMax + 1) \div 2

NextGeneration(current) ==
  IF current = 0 \/ current = GenMax THEN 1 ELSE current + 1

Newest(mem, usable) ==
  IF usable = Banks
  THEN IF GenerationNewer(mem[1].header.gen, mem[0].header.gen) THEN 1 ELSE 0
  ELSE CHOOSE b \in usable : TRUE

CurrentGeneration(mem) ==
  IF ValidBanks(mem) = {} THEN 0 ELSE mem[Newest(mem, ValidBanks(mem))].header.gen

\* Mutant: the first bank is rewritten whenever it is the older or the only one.
BugTargetReusesOnly(mem) ==
  IF ValidBanks(mem) = Banks THEN 1 - Newest(mem, Banks) ELSE 0

TargetBank(mem) ==
  IF ValidBanks(mem) = {} THEN 0 ELSE 1 - Newest(mem, ValidBanks(mem))

\* The image restore() loads when the banks in unreadable fail to read.
Restored(mem, unreadable) ==
  LET usable == ValidBanks(mem) \ unreadable
  IN  IF usable = {} THEN NoImage ELSE mem[Newest(mem, usable)].payload

-----------------------------------------------------------------------------
(* checkpoint().                                                           *)

\* Both banks are inspected and the call fixes what it will write.  A bank
\* that cannot be read ends the call before anything is changed.
BeginCheckpoint(img) ==
  /\ stage = "idle"
  /\ target' = TargetBank(cached)
  /\ generation' = NextGeneration(CurrentGeneration(cached))
  /\ image' = img
  /\ attempts' = attempts \cup {img}
  /\ stage' = "erase"
  /\ UNCHANGED <<deviceVars, committed, previous>>

\* The call goes on to the next operation, or returns storage_failure.
Proceed(next) ==
  stage' = next /\ UNCHANGED <<callVars, committed, attempts, previous>>
Fail ==
  /\ stage \in FaultPoints
  /\ stage' = "idle"
  /\ UNCHANGED <<callVars, committed, attempts, previous>>

\* An erase that fails may have erased part of the bank.
Erase ==
  /\ stage = "erase"
  /\ outcome' = [outcome EXCEPT ![target] =
                   [f \in Fields |-> @[f] \cup {ErasedBank[f]}]]
  /\ \/ /\ Proceed("sync_erase")
        /\ cached' = [cached EXCEPT ![target] = ErasedBank]
     \/ /\ Fail
        /\ \E gone \in SUBSET Fields :
             cached' = [cached EXCEPT ![target] =
                          [f \in Fields |-> IF f \in gone THEN ErasedBank[f] ELSE @[f]]]

\* Write v to a field; a write that fails leaves the field old, torn or new.
Put(f, v, next) ==
  /\ stage = f
  /\ outcome' = [outcome EXCEPT ![target][f] = @ \cup {v, ErasedBank[f]}]
  /\ \/ Proceed(next) /\ cached' = [cached EXCEPT ![target][f] = v]
     \/ /\ Fail
        /\ \E w \in {cached[target][f], ErasedBank[f], v} :
             cached' = [cached EXCEPT ![target][f] = w]

WriteHeader == Put("header", [gen |-> generation, image |-> image], "payload")
WritePayload == Put("payload", image, "sync_image")
WriteFooter == Put("footer", [gen |-> generation, image |-> image], "sync_commit")

\* A sync that fails promises nothing about what is durable.
Synchronized ==
  /\ outcome' = [b \in Banks |-> [f \in Fields |-> {cached[b][f]}]]
  /\ UNCHANGED cached

SyncErase ==
  /\ stage = "sync_erase"
  /\ (Synchronized /\ Proceed("header")) \/ (Fail /\ UNCHANGED deviceVars)

SyncImage ==
  /\ stage = "sync_image"
  /\ (Synchronized /\ Proceed("footer")) \/ (Fail /\ UNCHANGED deviceVars)

\* The last sync acknowledges the checkpoint.
SyncCommit ==
  /\ stage = "sync_commit"
  /\ \/ /\ Synchronized
        /\ stage' = "idle"
        /\ committed' = image /\ attempts' = {} /\ previous' = committed
        /\ UNCHANGED callVars
     \/ Fail /\ UNCHANGED deviceVars

-----------------------------------------------------------------------------
(* Power loss at any moment, and the restart that follows.                 *)

BankOutcomes(b) ==
  {[header |-> h, payload |-> p, footer |-> f] :
     h \in outcome[b]["header"], p \in outcome[b]["payload"], f \in outcome[b]["footer"]}

PowerLoss ==
  {[b \in Banks |-> IF b = 0 THEN x ELSE y] :
     x \in BankOutcomes(0), y \in BankOutcomes(1)}

Restart ==
  \E mem \in PowerLoss :
    /\ cached' = mem
    /\ outcome' = [b \in Banks |-> [f \in Fields |-> {mem[b][f]}]]
    /\ stage' = "idle"
    /\ committed' = Restored(mem, {})
    /\ attempts' = {}
    /\ previous' = NoImage
    /\ UNCHANGED callVars

StoreNext ==
  \/ \E img \in Images : BeginCheckpoint(img)
  \/ Erase \/ SyncErase \/ WriteHeader \/ WritePayload \/ SyncImage
  \/ WriteFooter \/ SyncCommit
  \/ Restart

StoreSpec == StoreInit /\ [][StoreNext]_storeVars

-----------------------------------------------------------------------------
(* Properties.                                                             *)

\* The type of the state.
StoreTypeOK ==
  /\ cached \in [Banks -> Bank]
  /\ outcome \in [Banks -> [Fields -> SUBSET (Tag \cup Images \cup {NoImage})]]
  /\ stage \in Stages \cup {"idle"}
  /\ target \in Banks /\ generation \in 0..GenMax /\ image \in Images \cup {NoImage}
  /\ committed \in Images \cup {NoImage} /\ attempts \subseteq Images
  /\ previous \in Images \cup {NoImage}

\* "The previous committed bank is kept intact as the recovery fallback"
\* (static_brcb_checkpoint_store.hpp): at every moment, inside a checkpoint()
\* call or after one that failed, whatever a power loss leaves of the two
\* banks restores to the last acknowledged image or to one attempted since;
\* never to an older one, to nothing, or to a mixture.
CommittedRecoverable ==
  \A mem \in PowerLoss : Restored(mem, {}) \in attempts \cup {committed}

\* Once two checkpoints have been acknowledged and none was tried since, either
\* bank may become unreadable and restore() still finds an acknowledged image.
FallbackKept ==
  (attempts = {} /\ previous # NoImage) =>
    \A mem \in PowerLoss, b \in Banks : Restored(mem, {b}) \in {committed, previous}

\* Banks, generations and syncs together behave like one atomically replaced
\* image.
Stable == INSTANCE StableImage
ImplementsStableImage == Stable!StableSpec

=============================================================================
