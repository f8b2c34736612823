------------------------ MODULE CheckpointStoreProofs ------------------------
(***************************************************************************)
(* The A/B journal never loses an acknowledged image: while one bank is    *)
(* being rewritten the other one keeps the image, fully synchronized, and  *)
(* nothing a power loss can leave in the bank being rewritten is taken for *)
(* newer until the whole new image is durable.  The theorems hold for      *)
(* backends that fail no later than the sync of the image; what a failing  *)
(* commit does is shown by the run checkpoint_commit_fault.                *)
(***************************************************************************)
EXTENDS CheckpointStore, TLAPS

\* The backend may fail at every operation up to the sync of the image.
FaultsBeforeCommit == FaultPoints \cap {"footer", "sync_commit"} = {}

\* What inspect_bank accepts, field by field.
Accepted(h, p, f) == h.gen # 0 /\ h = f /\ p # NoImage /\ p = h.image

NewTag == [gen |-> generation, image |-> image]

\* What is in the banks: what is cached may always survive, and every field
\* has contents of its kind.
DeviceOK ==
  /\ cached \in [Banks -> [Fields -> Tag \cup Images \cup {NoImage}]]
  /\ outcome \in [Banks -> [Fields -> SUBSET (Tag \cup Images \cup {NoImage})]]
  /\ \A b \in Banks :
       /\ outcome[b]["header"] \subseteq Tag /\ outcome[b]["footer"] \subseteq Tag
       /\ outcome[b]["payload"] \subseteq Images \cup {NoImage}
       /\ \A f \in Fields : cached[b][f] \in outcome[b][f]

CallOK ==
  /\ stage \in Stages \cup {"idle"}
  /\ target \in Banks /\ generation \in 0..GenMax /\ image \in Images \cup {NoImage}
  /\ committed \in Images \cup {NoImage} /\ attempts \subseteq Images
  /\ stage # "idle" => image \in attempts

Settled(b) == \A f \in Fields : outcome[b][f] = {cached[b][f]}

\* The generation of the acknowledged image, which bank k holds; 0 before the
\* first one.
KeptGeneration(k) == IF committed = NoImage THEN 0 ELSE cached[k].header.gen

\* Bank k holds the acknowledged image and nothing a power loss does changes
\* that.  Before the first one, the second bank holds nothing.
Kept(k) ==
  IF committed = NoImage
  THEN k = 1 /\ \A h \in outcome[k]["header"], p \in outcome[k]["payload"],
                   f \in outcome[k]["footer"] : ~Accepted(h, p, f)
  ELSE /\ Settled(k)
       /\ Accepted(cached[k].header, cached[k].payload, cached[k].footer)
       /\ cached[k].payload = committed

\* Whatever survives in the other bank is refused or is the generation before.
OthersOlder(k) ==
  \A h \in outcome[1 - k]["header"], p \in outcome[1 - k]["payload"],
     f \in outcome[1 - k]["footer"] :
    Accepted(h, p, f) => committed # NoImage /\ KeptGeneration(k) = NextGeneration(h.gen)

\* How far the call in progress has come in the other bank.
Progress(k) ==
  LET t == 1 - k IN
  /\ stage = "sync_erase" => \A f \in Fields : cached[t][f] = ErasedBank[f]
  /\ stage \in {"header", "payload", "sync_image", "footer"} =>
       outcome[t]["footer"] = {NoTag}
  /\ stage \in {"payload", "sync_image"} => cached[t].header = NewTag
  /\ stage = "sync_image" => cached[t].payload = image
  /\ stage \in {"footer", "sync_commit"} =>
       outcome[t]["header"] = {NewTag} /\ outcome[t]["payload"] = {image}
  /\ stage = "sync_commit" =>
       outcome[t]["footer"] \subseteq {NoTag, NewTag} /\ cached[t].footer = NewTag

\* Bank k is the one to keep.
Keeper(k) ==
  /\ Kept(k)
  /\ stage # "idle" => target = 1 - k /\ generation = NextGeneration(KeptGeneration(k))
  /\ stage \notin {"footer", "sync_commit"} => OthersOlder(k)
  /\ Progress(k)

\* When two checkpoints are acknowledged and none is under way, the other bank
\* holds the previous one.
FallbackHeld(k) ==
  attempts = {} /\ previous # NoImage =>
    /\ stage = "idle" /\ committed # NoImage
    /\ Settled(1 - k)
    /\ Accepted(cached[1 - k].header, cached[1 - k].payload, cached[1 - k].footer)
    /\ cached[1 - k].payload = previous

StoreInv == DeviceOK /\ CallOK /\ \E k \in Banks : Keeper(k) /\ FallbackHeld(k)

-----------------------------------------------------------------------------
(* Generations and banks.                                                  *)

LEMMA BankFacts ==
  \A k \in Banks : /\ 1 - k \in Banks /\ 1 - k # k /\ 1 - (1 - k) = k
                   /\ Banks = {k, 1 - k}
BY DEF Banks

\* The generation after n is newer than n and n is not newer, also where the
\* counter wraps from its largest value to 1.
LEMMA NextIsNewer ==
  ASSUME NEW n \in 1..GenMax
  PROVE  /\ NextGeneration(n) \in 1..GenMax
         /\ GenerationNewer(NextGeneration(n), n)
         /\ ~GenerationNewer(n, NextGeneration(n))
<1> DEFINE N == GenMax + 1
<1>1. GenMax \in Nat /\ GenMax >= 5 /\ N \in Nat /\ N >= 6
  BY StoreAssumption
<1>2. N \div 2 \in Nat /\ N \div 2 > 2 /\ N \div 2 <= N - 2
  BY <1>1
<1>3. CASE n = GenMax
  <2>1. NextGeneration(n) = 1 /\ 1 - n = 2 - N /\ n - 1 = N - 2
    BY <1>1, <1>3 DEF NextGeneration
  <2>2. (2 - N) % N = 2 /\ (N - 2) % N = N - 2
    BY <1>1
  <2> HIDE DEF N
  <2>3. (1 - n) % N = 2 /\ (n - 1) % N = N - 2 /\ 1 # n
    BY <1>1, <1>3, <2>1, <2>2
  <2>4. NextGeneration(n) \in 1..GenMax
    BY <1>1, <2>1
  <2>5. GenerationNewer(1, n) <=> 2 < N \div 2
    BY <2>3 DEF GenerationNewer, N
  <2>6. GenerationNewer(n, 1) <=> N - 2 < N \div 2
    BY <2>3 DEF GenerationNewer, N
  <2> QED
    BY <1>1, <1>2, <2>1, <2>4, <2>5, <2>6
<1>4. CASE n # GenMax
  <2>1. NextGeneration(n) = n + 1 /\ (n + 1) - n = 1 /\ n - (n + 1) = -1
    BY <1>1, <1>4 DEF NextGeneration
  <2>2. 1 % N = 1 /\ (-1) % N = N - 1
    BY <1>1
  <2> HIDE DEF N
  <2>3. ((n + 1) - n) % N = 1 /\ (n - (n + 1)) % N = N - 1 /\ n # n + 1
    BY <2>1, <2>2
  <2>4. n + 1 \in 1..GenMax
    BY <1>1, <1>4
  <2>5. GenerationNewer(n + 1, n) <=> 1 < N \div 2
    BY <2>3 DEF GenerationNewer, N
  <2>6. GenerationNewer(n, n + 1) <=> N - 1 < N \div 2
    BY <2>3 DEF GenerationNewer, N
  <2> QED
    BY <1>1, <1>2, <2>1, <2>4, <2>5, <2>6
<1> QED
  BY <1>3, <1>4

\* inspect_bank looks at the three fields of a bank.
LEMMA ValidIsAccepted ==
  ASSUME NEW bank
  PROVE  Valid(bank) <=> Accepted(bank.header, bank.payload, bank.footer)
BY DEF Valid, Accepted

\* If a bank is valid and the other one is refused or of the generation before,
\* it is the newest, restore() loads it and the next checkpoint spares it.
LEMMA NewestFound ==
  ASSUME NEW mem, NEW k \in Banks, Valid(mem[k]),
         Valid(mem[1 - k]) => /\ mem[1 - k].header.gen \in 1..GenMax
                              /\ mem[k].header.gen = NextGeneration(mem[1 - k].header.gen)
  PROVE  /\ Newest(mem, ValidBanks(mem)) = k
         /\ Restored(mem, {}) = mem[k].payload
         /\ TargetBank(mem) = 1 - k
         /\ CurrentGeneration(mem) = mem[k].header.gen
<1>1. 1 - k \in Banks /\ 1 - k # k /\ Banks = {k, 1 - k}
  BY BankFacts
<1>2. ValidBanks(mem) # {}
  BY DEF ValidBanks
<1>3. Newest(mem, ValidBanks(mem)) = k
  <2>1. CASE Valid(mem[1 - k])
    <3>1. ValidBanks(mem) = Banks
      BY <1>1, <2>1 DEF ValidBanks
    <3>2. /\ GenerationNewer(mem[k].header.gen, mem[1 - k].header.gen)
          /\ ~GenerationNewer(mem[1 - k].header.gen, mem[k].header.gen)
      BY <2>1, NextIsNewer
    <3>3. k = 1 \/ (k = 0 /\ 1 - k = 1)
      BY DEF Banks
    <3>4. CASE k = 1
      BY <3>1, <3>2, <3>4 DEF Newest
    <3>5. CASE k = 0
      BY <3>1, <3>2, <3>5 DEF Newest
    <3> QED
      BY <3>3, <3>4, <3>5
  <2>2. CASE ~Valid(mem[1 - k])
    <3>1. ValidBanks(mem) = {k} /\ {k} # Banks
      BY <1>1, <2>2 DEF ValidBanks
    <3> QED
      BY <3>1 DEF Newest
  <2> QED
    BY <2>1, <2>2
<1>4. ValidBanks(mem) \ {} = ValidBanks(mem)
  OBVIOUS
<1> QED
  BY <1>2, <1>3, <1>4 DEF Restored, TargetBank, CurrentGeneration

\* With no valid bank, nothing is restored and the first bank is written.
LEMMA NothingFound ==
  ASSUME NEW mem, \A b \in Banks : ~Valid(mem[b])
  PROVE  Restored(mem, {}) = NoImage /\ TargetBank(mem) = 0 /\ CurrentGeneration(mem) = 0
<1>1. ValidBanks(mem) = {} /\ ValidBanks(mem) \ {} = {}
  BY DEF ValidBanks
<1> QED
  BY <1>1 DEF Restored, TargetBank, CurrentGeneration

-----------------------------------------------------------------------------
(* What a power loss leaves.                                               *)

\* Every field of a bank that survives is one of its possible contents.
LEMMA SurvivingFields ==
  ASSUME NEW mem \in PowerLoss, NEW b \in Banks
  PROVE  /\ mem[b].header \in outcome[b]["header"]
         /\ mem[b].payload \in outcome[b]["payload"]
         /\ mem[b].footer \in outcome[b]["footer"]
         /\ mem[b] = [header |-> mem[b].header, payload |-> mem[b].payload,
                      footer |-> mem[b].footer]
<1>1. PICK x \in BankOutcomes(0), y \in BankOutcomes(1) :
        mem = [c \in Banks |-> IF c = 0 THEN x ELSE y]
  BY DEF PowerLoss
<1>2. mem[b] \in BankOutcomes(b)
  BY <1>1 DEF Banks
<1>3. PICK h \in outcome[b]["header"], p \in outcome[b]["payload"],
           f \in outcome[b]["footer"] : mem[b] = [header |-> h, payload |-> p, footer |-> f]
  BY <1>2 DEF BankOutcomes
<1> QED
  BY <1>3

\* A generation that inspect_bank accepts is in the counter's range.
LEMMA AcceptedGeneration ==
  ASSUME NEW h \in Tag, NEW p, NEW f, Accepted(h, p, f)
  PROVE  h.gen \in 1..GenMax
BY StoreAssumption DEF Tag, Accepted

\* What restore() finds: the acknowledged image, or the image whose footer was
\* being written, or nothing where nothing was ever acknowledged.
Found(mem, k) ==
  \/ /\ committed # NoImage /\ Valid(mem[k]) /\ mem[k].payload = committed
     /\ Restored(mem, {}) = committed
     /\ Valid(mem[1 - k]) => mem[k].header.gen = NextGeneration(mem[1 - k].header.gen)
  \/ /\ stage \in {"footer", "sync_commit"} /\ Valid(mem[1 - k])
     /\ mem[1 - k].payload = image /\ Restored(mem, {}) = image
     /\ Valid(mem[k]) => mem[1 - k].header.gen = NextGeneration(mem[k].header.gen)
  \/ /\ committed = NoImage /\ Restored(mem, {}) = NoImage /\ k = 1
     /\ \A b \in Banks : ~Valid(mem[b])

LEMMA WhatIsFound ==
  ASSUME DeviceOK, CallOK, NEW k \in Banks, Keeper(k), NEW mem \in PowerLoss
  PROVE  Found(mem, k)
<1> DEFINE o == mem[1 - k]
<1>1. 1 - k \in Banks /\ 1 - k # k /\ Banks = {k, 1 - k} /\ 1 - (1 - k) = k
  BY BankFacts
<1>2. /\ o.header \in outcome[1 - k]["header"] /\ o.payload \in outcome[1 - k]["payload"]
      /\ o.footer \in outcome[1 - k]["footer"]
      /\ mem[k].header \in outcome[k]["header"] /\ mem[k].payload \in outcome[k]["payload"]
      /\ mem[k].footer \in outcome[k]["footer"]
  BY <1>1, SurvivingFields
<1>3. o.header \in Tag /\ mem[k].header \in Tag
  BY <1>1, <1>2 DEF DeviceOK
<1>4. \A b \in Banks : Valid(mem[b]) => mem[b].header.gen \in 1..GenMax
  BY <1>1, <1>3, ValidIsAccepted, AcceptedGeneration
<1>5. committed # NoImage =>
        /\ Valid(mem[k]) /\ mem[k].payload = committed
        /\ mem[k].header = cached[k].header
  <2>1. SUFFICES ASSUME committed # NoImage
                 PROVE  /\ Valid(mem[k]) /\ mem[k].payload = committed
                        /\ mem[k].header = cached[k].header
    OBVIOUS
  <2>2. /\ Settled(k) /\ cached[k].payload = committed
        /\ Accepted(cached[k].header, cached[k].payload, cached[k].footer)
    BY <2>1 DEF Keeper, Kept
  <2>3. /\ mem[k].header = cached[k].header /\ mem[k].payload = cached[k].payload
        /\ mem[k].footer = cached[k].footer
    BY <1>2, <2>2 DEF Settled, Fields
  <2> QED
    BY <2>2, <2>3, ValidIsAccepted
<1>6. committed = NoImage => k = 1 /\ ~Valid(mem[k])
  BY <1>2, ValidIsAccepted DEF Keeper, Kept
<1>7. CASE stage \notin {"footer", "sync_commit"}
  <2>1. Valid(o) => /\ committed # NoImage
                    /\ cached[k].header.gen = NextGeneration(o.header.gen)
    BY <1>2, <1>7, ValidIsAccepted DEF Keeper, OthersOlder, KeptGeneration
  <2>2. CASE committed # NoImage
    BY <1>1, <1>4, <1>5, <2>1, <2>2, NewestFound DEF Found
  <2>3. CASE committed = NoImage
    <3>1. \A b \in Banks : ~Valid(mem[b])
      BY <1>1, <1>6, <2>1, <2>3
    <3> QED
      BY <1>6, <2>3, <3>1, NothingFound DEF Found
  <2> QED
    BY <2>2, <2>3
<1>8. CASE stage \in {"footer", "sync_commit"}
  <2>1. /\ o.header = NewTag /\ o.payload = image
        /\ generation = NextGeneration(KeptGeneration(k))
    BY <1>2, <1>8 DEF Keeper, Progress
  <2>2. CASE Valid(o)
    <3>1. o.header.gen = generation
      BY <2>1 DEF NewTag
    <3>2. Valid(mem[k]) => o.header.gen = NextGeneration(mem[k].header.gen)
      BY <1>5, <1>6, <2>1, <3>1 DEF KeptGeneration
    <3>3. Restored(mem, {}) = o.payload
      BY <1>1, <1>4, <2>2, <3>2, NewestFound
    <3> QED
      BY <1>8, <2>1, <2>2, <3>2, <3>3 DEF Found
  <2>3. CASE ~Valid(o) /\ committed # NoImage
    BY <1>1, <1>4, <1>5, <2>3, NewestFound DEF Found
  <2>4. CASE ~Valid(o) /\ committed = NoImage
    <3>1. \A b \in Banks : ~Valid(mem[b])
      BY <1>1, <1>6, <2>4
    <3> QED
      BY <1>6, <2>4, <3>1, NothingFound DEF Found
  <2> QED
    BY <2>2, <2>3, <2>4
<1> QED
  BY <1>7, <1>8

\* The invariant says that every survivor restores to the acknowledged image or
\* to one attempted since.
LEMMA InvRecoverable ==
  ASSUME StoreInv
  PROVE  CommittedRecoverable
<1>1. PICK k \in Banks : Keeper(k)
  BY DEF StoreInv
<1>2. ASSUME NEW mem \in PowerLoss
      PROVE  Restored(mem, {}) \in attempts \cup {committed}
  <2>1. Found(mem, k)
    BY <1>1, WhatIsFound DEF StoreInv
  <2>2. stage \in {"footer", "sync_commit"} => image \in attempts
    BY DEF StoreInv, CallOK
  <2> QED
    BY <2>1, <2>2 DEF Found
<1> QED
  BY <1>2 DEF CommittedRecoverable

\* It also says that either bank alone restores to one of the last two images.
LEMMA InvFallback ==
  ASSUME StoreInv
  PROVE  FallbackKept
<1>1. PICK k \in Banks : Keeper(k) /\ FallbackHeld(k)
  BY DEF StoreInv
<1>2. SUFFICES ASSUME attempts = {}, previous # NoImage,
                      NEW mem \in PowerLoss, NEW b \in Banks
               PROVE  Restored(mem, {b}) \in {committed, previous}
  BY DEF FallbackKept
<1>3. /\ 1 - k \in Banks /\ Banks = {k, 1 - k} /\ 1 - b \in Banks /\ 1 - b # b
      /\ Banks = {b, 1 - b}
  BY BankFacts
<1>4. /\ Settled(k) /\ Settled(1 - k)
      /\ Accepted(cached[k].header, cached[k].payload, cached[k].footer)
      /\ Accepted(cached[1 - k].header, cached[1 - k].payload, cached[1 - k].footer)
      /\ cached[k].payload = committed /\ cached[1 - k].payload = previous
  BY <1>1, <1>2 DEF Keeper, Kept, FallbackHeld
<1>5. \A c \in Banks : /\ Settled(c)
                       /\ Accepted(cached[c].header, cached[c].payload, cached[c].footer)
                       /\ cached[c].payload \in {committed, previous}
  BY <1>3, <1>4
<1>6. \A c \in Banks : Valid(mem[c]) /\ mem[c].payload \in {committed, previous}
  <2>1. TAKE c \in Banks
  <2>2. /\ mem[c].header \in outcome[c]["header"] /\ mem[c].payload \in outcome[c]["payload"]
        /\ mem[c].footer \in outcome[c]["footer"]
    BY SurvivingFields
  <2>3. /\ mem[c].header = cached[c].header /\ mem[c].payload = cached[c].payload
        /\ mem[c].footer = cached[c].footer
    BY <1>5, <2>2 DEF Settled, Fields
  <2> QED
    BY <1>5, <2>3, ValidIsAccepted
<1>7. ValidBanks(mem) \ {b} = {1 - b} /\ {1 - b} # Banks
  BY <1>3, <1>6 DEF ValidBanks
<1>8. Restored(mem, {b}) = mem[1 - b].payload
  BY <1>7 DEF Restored, Newest
<1> QED
  BY <1>3, <1>6, <1>8

-----------------------------------------------------------------------------
(* What the backend operations do to the banks.                            *)

LEMMA ErasedFields ==
  /\ ErasedBank["header"] = NoTag /\ ErasedBank["payload"] = NoImage
  /\ ErasedBank["footer"] = NoTag
  /\ NoTag \in Tag /\ NoTag.gen = 0
BY StoreAssumption DEF ErasedBank, NoTag, Tag

\* Contents of a field's kind.
Kind(f) == IF f = "payload" THEN Images \cup {NoImage} ELSE Tag

LEMMA KindFacts ==
  /\ \A f \in Fields : ErasedBank[f] \in Kind(f)
  /\ \A f \in Fields : Kind(f) \subseteq Tag \cup Images \cup {NoImage}
  /\ DeviceOK <=>
       /\ cached \in [Banks -> [Fields -> Tag \cup Images \cup {NoImage}]]
       /\ outcome \in [Banks -> [Fields -> SUBSET (Tag \cup Images \cup {NoImage})]]
       /\ \A b \in Banks, f \in Fields :
            outcome[b][f] \subseteq Kind(f) /\ cached[b][f] \in outcome[b][f]
<1>1. /\ \A f \in Fields : ErasedBank[f] \in Kind(f)
      /\ \A f \in Fields : Kind(f) \subseteq Tag \cup Images \cup {NoImage}
  BY ErasedFields DEF Kind, Fields
<1>2. \A b \in Banks :
        (\A f \in Fields : outcome[b][f] \subseteq Kind(f)) <=>
          /\ outcome[b]["header"] \subseteq Tag /\ outcome[b]["footer"] \subseteq Tag
          /\ outcome[b]["payload"] \subseteq Images \cup {NoImage}
  BY DEF Kind, Fields
<1> QED
  BY <1>1, <1>2 DEF DeviceOK

\* A step that changes the banks field by field within their kinds keeps them
\* well-formed.
LEMMA DeviceKept ==
  ASSUME NEW c, NEW o,
         cached' = c, outcome' = o,
         c \in [Banks -> [Fields -> Tag \cup Images \cup {NoImage}]],
         o \in [Banks -> [Fields -> SUBSET (Tag \cup Images \cup {NoImage})]],
         \A b \in Banks, f \in Fields : o[b][f] \subseteq Kind(f) /\ c[b][f] \in o[b][f]
  PROVE  DeviceOK'
<1>1. \A b \in Banks :
        /\ o[b]["header"] \subseteq Tag /\ o[b]["footer"] \subseteq Tag
        /\ o[b]["payload"] \subseteq Images \cup {NoImage}
  BY DEF Kind, Fields
<1> QED
  BY <1>1 DEF DeviceOK

\* A write adds the value and the torn field to what may survive of one field.
LEMMA PutEffect ==
  ASSUME DeviceOK, target \in Banks, NEW f \in Fields, NEW v \in Kind(f), NEW next,
         Put(f, v, next)
  PROVE  /\ DeviceOK'
         /\ \A b \in Banks, g \in Fields :
              /\ outcome'[b][g] = IF b = target /\ g = f
                                  THEN outcome[b][g] \cup {v, ErasedBank[f]}
                                  ELSE outcome[b][g]
              /\ ~(b = target /\ g = f) => cached'[b][g] = cached[b][g]
         /\ stage' = next \/ Fail
         /\ ~Fail => stage' = next /\ cached'[target][f] = v
<1> DEFINE V == Tag \cup Images \cup {NoImage}
<1>1. /\ cached \in [Banks -> [Fields -> V]] /\ outcome \in [Banks -> [Fields -> SUBSET V]]
      /\ \A b \in Banks, g \in Fields :
           outcome[b][g] \subseteq Kind(g) /\ cached[b][g] \in outcome[b][g]
      /\ v \in V /\ ErasedBank[f] \in V /\ ErasedBank[f] \in Kind(f)
  BY KindFacts
<1>2. outcome' = [outcome EXCEPT ![target][f] = @ \cup {v, ErasedBank[f]}]
  BY DEF Put
<1>3. /\ outcome' \in [Banks -> [Fields -> SUBSET V]]
      /\ \A b \in Banks, g \in Fields :
           outcome'[b][g] = IF b = target /\ g = f
                            THEN outcome[b][g] \cup {v, ErasedBank[f]}
                            ELSE outcome[b][g]
  BY <1>1, <1>2
<1>4. PICK w \in {cached[target][f], ErasedBank[f], v} :
        /\ cached' = [cached EXCEPT ![target][f] = w]
        /\ Fail \/ (Proceed(next) /\ w = v)
  BY DEF Put
<1>5. w \in V
  BY <1>1, <1>4
<1>6. /\ cached' \in [Banks -> [Fields -> V]]
      /\ \A b \in Banks, g \in Fields :
           cached'[b][g] = IF b = target /\ g = f THEN w ELSE cached[b][g]
  BY <1>1, <1>4, <1>5
<1>7. \A b \in Banks, g \in Fields :
        outcome'[b][g] \subseteq Kind(g) /\ cached'[b][g] \in outcome'[b][g]
  <2>1. TAKE b \in Banks, g \in Fields
  <2>2. /\ outcome'[b][g] = IF b = target /\ g = f THEN outcome[b][g] \cup {v, ErasedBank[f]}
                            ELSE outcome[b][g]
        /\ cached'[b][g] = IF b = target /\ g = f THEN w ELSE cached[b][g]
        /\ outcome[b][g] \subseteq Kind(g) /\ cached[b][g] \in outcome[b][g]
    BY <1>1, <1>3, <1>6
  <2>3. CASE b = target /\ g = f
    BY <1>1, <1>4, <2>2, <2>3
  <2> QED
    BY <2>2, <2>3
<1>8. DeviceOK'
  BY <1>3, <1>6, <1>7, DeviceKept
<1>9. stage' = next \/ Fail
  BY <1>4 DEF Proceed
<1>10. ~Fail => stage' = next /\ cached'[target][f] = v
  BY <1>4, <1>6 DEF Proceed
<1> QED
  BY <1>3, <1>6, <1>8, <1>9, <1>10

\* An erase adds blank fields to what may survive of one bank.
LEMMA EraseEffect ==
  ASSUME DeviceOK, target \in Banks, Erase
  PROVE  /\ DeviceOK'
         /\ \A b \in Banks, g \in Fields :
              /\ outcome'[b][g] = IF b = target THEN outcome[b][g] \cup {ErasedBank[g]}
                                  ELSE outcome[b][g]
              /\ b # target => cached'[b][g] = cached[b][g]
         /\ stage' \in {"idle", "sync_erase"}
         /\ stage' = "sync_erase" => \A g \in Fields : cached'[target][g] = ErasedBank[g]
<1> DEFINE V == Tag \cup Images \cup {NoImage}
<1>1. /\ cached \in [Banks -> [Fields -> V]] /\ outcome \in [Banks -> [Fields -> SUBSET V]]
      /\ \A b \in Banks, g \in Fields :
           outcome[b][g] \subseteq Kind(g) /\ cached[b][g] \in outcome[b][g]
      /\ \A g \in Fields : ErasedBank[g] \in V /\ ErasedBank[g] \in Kind(g)
  BY KindFacts
<1>2. outcome' = [outcome EXCEPT ![target] =
                    [f \in Fields |-> @[f] \cup {ErasedBank[f]}]]
  BY DEF Erase
<1>3. /\ outcome' \in [Banks -> [Fields -> SUBSET V]]
      /\ \A b \in Banks, g \in Fields :
           outcome'[b][g] = IF b = target THEN outcome[b][g] \cup {ErasedBank[g]}
                            ELSE outcome[b][g]
  BY <1>1, <1>2
<1>4. CASE Proceed("sync_erase") /\ cached' = [cached EXCEPT ![target] = ErasedBank]
  <2>1. ErasedBank \in [Fields -> V]
    BY <1>1 DEF ErasedBank, Fields
  <2>2. /\ cached' \in [Banks -> [Fields -> V]]
        /\ \A b \in Banks, g \in Fields :
             cached'[b][g] = IF b = target THEN ErasedBank[g] ELSE cached[b][g]
    BY <1>1, <1>4, <2>1
  <2>3. \A b \in Banks, g \in Fields :
          outcome'[b][g] \subseteq Kind(g) /\ cached'[b][g] \in outcome'[b][g]
    <3>1. TAKE b \in Banks, g \in Fields
    <3>2. /\ outcome'[b][g] = IF b = target THEN outcome[b][g] \cup {ErasedBank[g]}
                              ELSE outcome[b][g]
          /\ cached'[b][g] = IF b = target THEN ErasedBank[g] ELSE cached[b][g]
          /\ outcome[b][g] \subseteq Kind(g) /\ cached[b][g] \in outcome[b][g]
          /\ ErasedBank[g] \in Kind(g)
      BY <1>1, <1>3, <2>2
    <3> QED
      BY <3>2
  <2>4. DeviceOK'
    BY <1>3, <2>2, <2>3, DeviceKept
  <2> QED
    BY <1>3, <1>4, <2>2, <2>4 DEF Proceed
<1>5. ASSUME Fail, NEW gone \in SUBSET Fields,
             cached' = [cached EXCEPT ![target] =
                          [f \in Fields |-> IF f \in gone THEN ErasedBank[f] ELSE @[f]]]
      PROVE  /\ DeviceOK' /\ stage' = "idle"
             /\ \A b \in Banks, g \in Fields : b # target => cached'[b][g] = cached[b][g]
  <2>2. /\ cached' \in [Banks -> [Fields -> V]]
        /\ \A b \in Banks, g \in Fields :
             cached'[b][g] = IF b = target /\ g \in gone THEN ErasedBank[g] ELSE cached[b][g]
    BY <1>1, <1>5
  <2>3. \A b \in Banks, g \in Fields :
          outcome'[b][g] \subseteq Kind(g) /\ cached'[b][g] \in outcome'[b][g]
    <3>1. TAKE b \in Banks, g \in Fields
    <3>2. /\ outcome'[b][g] = IF b = target THEN outcome[b][g] \cup {ErasedBank[g]}
                              ELSE outcome[b][g]
          /\ cached'[b][g] = IF b = target /\ g \in gone THEN ErasedBank[g] ELSE cached[b][g]
          /\ outcome[b][g] \subseteq Kind(g) /\ cached[b][g] \in outcome[b][g]
          /\ ErasedBank[g] \in Kind(g)
      BY <1>1, <1>3, <2>2
    <3> QED
      BY <3>2
  <2>4. DeviceOK'
    BY <1>3, <2>2, <2>3, DeviceKept
  <2> QED
    BY <1>5, <2>2, <2>4 DEF Fail
<1> QED
  BY <1>3, <1>4, <1>5 DEF Erase

\* A sync leaves what is cached as the only outcome.
LEMMA SyncEffect ==
  ASSUME DeviceOK, Synchronized
  PROVE  /\ DeviceOK' /\ cached' = cached
         /\ \A b \in Banks, g \in Fields : outcome'[b][g] = {cached[b][g]}
<1> DEFINE V == Tag \cup Images \cup {NoImage}
<1>1. /\ cached \in [Banks -> [Fields -> V]]
      /\ \A b \in Banks, g \in Fields :
           outcome[b][g] \subseteq Kind(g) /\ cached[b][g] \in outcome[b][g]
  BY KindFacts
<1>2. outcome' = [b \in Banks |-> [f \in Fields |-> {cached[b][f]}]] /\ cached' = cached
  BY DEF Synchronized
<1>3. \A b \in Banks, g \in Fields : outcome'[b][g] = {cached[b][g]}
  BY <1>2
<1>4. outcome' \in [Banks -> [Fields -> SUBSET V]]
  BY <1>1, <1>2
<1>5. DeviceOK'
  BY <1>1, <1>2, <1>3, <1>4, DeviceKept
<1> QED
  BY <1>2, <1>3, <1>5

-----------------------------------------------------------------------------
(* Every operation keeps a keeper.                                         *)

\* The keeper's bank stays as it is when its outcomes only shrink.
LEMMA KeptStays ==
  ASSUME NEW k \in Banks, Kept(k), committed' = committed,
         \A f \in Fields : /\ outcome'[k][f] \subseteq outcome[k][f]
                           /\ cached'[k][f] = cached[k][f]
                           /\ cached'[k][f] \in outcome'[k][f]
  PROVE  Kept(k)' /\ KeptGeneration(k)' = KeptGeneration(k)
<1>1. "header" \in Fields /\ "payload" \in Fields /\ "footer" \in Fields
  BY DEF Fields
<1>2. /\ cached'[k].header = cached[k].header /\ cached'[k].payload = cached[k].payload
      /\ cached'[k].footer = cached[k].footer
  BY <1>1
<1>3. KeptGeneration(k)' = KeptGeneration(k)
  BY <1>2 DEF KeptGeneration
<1>4. CASE committed = NoImage
  <2>1. /\ outcome'[k]["header"] \subseteq outcome[k]["header"]
        /\ outcome'[k]["payload"] \subseteq outcome[k]["payload"]
        /\ outcome'[k]["footer"] \subseteq outcome[k]["footer"]
    BY <1>1
  <2>2. \A h \in outcome[k]["header"], p \in outcome[k]["payload"],
           f \in outcome[k]["footer"] : ~Accepted(h, p, f)
    BY <1>4 DEF Kept
  <2>3. k = 1
    BY <1>4 DEF Kept
  <2> QED
    BY <1>3, <1>4, <2>1, <2>2, <2>3 DEF Kept
<1>5. CASE committed # NoImage
  <2>1. /\ \A f \in Fields : outcome[k][f] = {cached[k][f]}
        /\ Accepted(cached[k].header, cached[k].payload, cached[k].footer)
        /\ cached[k].payload = committed
    BY <1>5 DEF Kept, Settled
  <2>2. \A f \in Fields : outcome'[k][f] = {cached'[k][f]}
    BY <2>1
  <2> QED
    BY <1>2, <1>3, <1>5, <2>1, <2>2 DEF Kept, Settled
<1> QED
  BY <1>4, <1>5

\* Blank fields never make a bank acceptable, so the other bank stays older
\* when its outcomes shrink or blank fields join them.
LEMMA OlderStays ==
  ASSUME NEW k \in Banks, OthersOlder(k), committed' = committed,
         KeptGeneration(k)' = KeptGeneration(k),
         \A f \in Fields : outcome'[1 - k][f] \subseteq outcome[1 - k][f] \cup {ErasedBank[f]}
  PROVE  OthersOlder(k)'
<1>1. SUFFICES ASSUME NEW h \in outcome'[1 - k]["header"], NEW p \in outcome'[1 - k]["payload"],
                      NEW f \in outcome'[1 - k]["footer"], Accepted(h, p, f)
               PROVE  committed # NoImage /\ KeptGeneration(k) = NextGeneration(h.gen)
  BY DEF OthersOlder
<1>2. h # NoTag /\ f # NoTag /\ p # NoImage
  BY <1>1, ErasedFields DEF Accepted
<1>3. /\ h \in outcome[1 - k]["header"] /\ p \in outcome[1 - k]["payload"]
      /\ f \in outcome[1 - k]["footer"]
  BY <1>1, <1>2, ErasedFields DEF Fields
<1> QED
  BY <1>1, <1>3 DEF OthersOlder

\* A bank without a footer is not acceptable.
LEMMA OlderWithoutFooter ==
  ASSUME NEW k \in Banks, outcome'[1 - k]["footer"] = {NoTag}
  PROVE  OthersOlder(k)'
BY ErasedFields DEF OthersOlder, Accepted

\* checkpoint() chooses the bank that is not the keeper and the generation
\* after the keeper's.
LEMMA BeginKeeps ==
  ASSUME DeviceOK, CallOK, NEW k \in Banks, Keeper(k), NEW img \in Images,
         BeginCheckpoint(img)
  PROVE  DeviceOK' /\ CallOK' /\ Keeper(k)' /\ FallbackHeld(k)'
<1>1. 1 - k \in Banks /\ 1 - k # k /\ Banks = {k, 1 - k}
  BY BankFacts
<1>2. /\ stage = "idle" /\ stage' = "erase" /\ UNCHANGED deviceVars
      /\ target' = TargetBank(cached) /\ image' = img
      /\ generation' = NextGeneration(CurrentGeneration(cached))
      /\ attempts' = attempts \cup {img} /\ committed' = committed
  BY DEF BeginCheckpoint
<1>3. \A b \in Banks :
        /\ cached[b].header \in outcome[b]["header"] /\ cached[b].payload \in outcome[b]["payload"]
        /\ cached[b].footer \in outcome[b]["footer"] /\ cached[b].header \in Tag
  BY DEF DeviceOK, Fields
<1>4. Valid(cached[1 - k]) => /\ committed # NoImage
                              /\ cached[1 - k].header.gen \in 1..GenMax
                              /\ cached[k].header.gen = NextGeneration(cached[1 - k].header.gen)
  <2>1. SUFFICES ASSUME Valid(cached[1 - k])
                 PROVE  /\ committed # NoImage
                        /\ cached[1 - k].header.gen \in 1..GenMax
                        /\ cached[k].header.gen = NextGeneration(cached[1 - k].header.gen)
    OBVIOUS
  <2>2. Accepted(cached[1 - k].header, cached[1 - k].payload, cached[1 - k].footer)
    BY <2>1, ValidIsAccepted
  <2>3. OthersOlder(k)
    BY <1>2 DEF Keeper
  <2> QED
    BY <1>1, <1>3, <2>2, <2>3, AcceptedGeneration DEF OthersOlder, KeptGeneration
<1>5. /\ target' = 1 - k
      /\ CurrentGeneration(cached) = KeptGeneration(k)
      /\ KeptGeneration(k) \in 0..GenMax
  <2>1. CASE committed = NoImage
    <3>1. k = 1 /\ ~Valid(cached[k])
      BY <1>3, <2>1, ValidIsAccepted DEF Keeper, Kept
    <3>2. \A b \in Banks : ~Valid(cached[b])
      BY <1>1, <1>4, <2>1, <3>1
    <3> QED
      BY <1>2, <2>1, <3>1, <3>2, NothingFound, StoreAssumption DEF KeptGeneration
  <2>2. CASE committed # NoImage
    <3>1. Accepted(cached[k].header, cached[k].payload, cached[k].footer)
      BY <2>2 DEF Keeper, Kept
    <3>2. Valid(cached[k]) /\ cached[k].header.gen \in 1..GenMax
      BY <1>3, <3>1, ValidIsAccepted, AcceptedGeneration
    <3>3. TargetBank(cached) = 1 - k /\ CurrentGeneration(cached) = cached[k].header.gen
      BY <1>4, <3>2, NewestFound
    <3>4. cached[k].header.gen \in 0..GenMax
      BY <3>2, StoreAssumption
    <3> QED
      BY <1>2, <2>2, <3>3, <3>4 DEF KeptGeneration
  <2> QED
    BY <2>1, <2>2
<1>6. generation' \in 0..GenMax
  BY <1>2, <1>5, StoreAssumption DEF NextGeneration
<1>7. DeviceOK' /\ CallOK'
  BY <1>1, <1>2, <1>5, <1>6 DEF DeviceOK, CallOK, deviceVars, Stages
<1>8. Kept(k)' /\ KeptGeneration(k)' = KeptGeneration(k) /\ OthersOlder(k)'
  BY <1>2 DEF Keeper, Kept, Settled, KeptGeneration, OthersOlder, deviceVars
<1>9. Progress(k)'
  BY <1>2 DEF Progress
<1>10. generation' = NextGeneration(KeptGeneration(k)')
  BY <1>2, <1>5, <1>8
<1>11. Keeper(k)'
  BY <1>2, <1>5, <1>8, <1>9, <1>10 DEF Keeper
<1> QED
  BY <1>2, <1>7, <1>11 DEF FallbackHeld

\* What is common to the operations of a call before its end.
LEMMA CallGoesOn ==
  ASSUME CallOK, NEW k \in Banks, Keeper(k), stage # "idle",
         UNCHANGED <<callVars, committed, attempts, previous>>,
         stage' \in Stages \cup {"idle"}
  PROVE  /\ CallOK' /\ FallbackHeld(k)' /\ NewTag' = NewTag
         /\ target = 1 - k /\ target \in Banks /\ k # target /\ target' = target
         /\ Kept(k)' /\ KeptGeneration(k)' = KeptGeneration(k)
            => (stage' # "idle" => target' = 1 - k
                                   /\ generation' = NextGeneration(KeptGeneration(k)'))
<1>1. 1 - k \in Banks /\ 1 - k # k
  BY BankFacts
<1>2. target = 1 - k /\ generation = NextGeneration(KeptGeneration(k))
  BY DEF Keeper
<1>3. image \in attempts
  BY DEF CallOK
<1>4. UNCHANGED <<target, generation, image, committed, attempts, previous>>
  BY DEF callVars
<1> QED
  BY <1>1, <1>2, <1>3, <1>4 DEF CallOK, FallbackHeld, NewTag

\* A failed or finished erase, header, image, footer and the syncs between them
\* leave the keeper alone.
LEMMA EraseKeeps ==
  ASSUME DeviceOK, CallOK, NEW k \in Banks, Keeper(k), Erase
  PROVE  DeviceOK' /\ CallOK' /\ Keeper(k)' /\ FallbackHeld(k)'
<1>1. stage = "erase" /\ UNCHANGED <<callVars, committed, attempts, previous>>
  BY DEF Erase, Proceed, Fail
<1>2. /\ target \in Banks /\ target = 1 - k /\ k # target
  BY <1>1, BankFacts DEF Keeper
<1>3. /\ DeviceOK'
      /\ \A b \in Banks, g \in Fields :
           /\ outcome'[b][g] = IF b = target THEN outcome[b][g] \cup {ErasedBank[g]}
                               ELSE outcome[b][g]
           /\ b # target => cached'[b][g] = cached[b][g]
      /\ stage' \in {"idle", "sync_erase"}
      /\ stage' = "sync_erase" => \A g \in Fields : cached'[target][g] = ErasedBank[g]
  BY <1>2, EraseEffect
<1>4. CallOK' /\ FallbackHeld(k)' /\ committed' = committed
  BY <1>1, <1>3, CallGoesOn DEF Stages
<1>5. \A f \in Fields : /\ outcome'[k][f] \subseteq outcome[k][f]
                        /\ cached'[k][f] = cached[k][f]
                        /\ cached'[k][f] \in outcome'[k][f]
  BY <1>2, <1>3 DEF DeviceOK
<1>6. Kept(k)' /\ KeptGeneration(k)' = KeptGeneration(k)
  BY <1>4, <1>5, KeptStays DEF Keeper
<1>7. \A f \in Fields : outcome'[1 - k][f] \subseteq outcome[1 - k][f] \cup {ErasedBank[f]}
  BY <1>2, <1>3
<1>8. OthersOlder(k)'
  BY <1>1, <1>4, <1>6, <1>7, OlderStays DEF Keeper
<1>9. Progress(k)'
  BY <1>2, <1>3 DEF Progress
<1> QED
  BY <1>1, <1>3, <1>4, <1>6, <1>8, <1>9, CallGoesOn DEF Keeper, Stages

LEMMA WriteKeeps ==
  ASSUME DeviceOK, CallOK, NEW k \in Banks, Keeper(k), FaultsBeforeCommit,
         WriteHeader \/ WritePayload \/ WriteFooter
  PROVE  DeviceOK' /\ CallOK' /\ Keeper(k)' /\ FallbackHeld(k)'
<1>1. /\ UNCHANGED <<callVars, committed, attempts, previous>>
      /\ stage \in {"header", "payload", "footer"}
      /\ stage' \in Stages \cup {"idle"}
  BY DEF WriteHeader, WritePayload, WriteFooter, Put, Proceed, Fail, Stages
<1>2. /\ target \in Banks /\ target = 1 - k /\ k # target
      /\ CallOK' /\ FallbackHeld(k)' /\ NewTag' = NewTag /\ image' = image
      /\ committed' = committed
  BY <1>1, CallGoesOn DEF callVars
<1>3. NewTag \in Tag /\ image \in Images \cup {NoImage}
  BY DEF NewTag, Tag, CallOK
<1>4. PICK f \in Fields, v \in Tag \cup Images \cup {NoImage}, next \in Stages :
        /\ v \in Kind(f) /\ Put(f, v, next) /\ stage = f
        /\ \/ f = "header" /\ v = NewTag /\ next = "payload"
           \/ f = "payload" /\ v = image /\ next = "sync_image"
           \/ f = "footer" /\ v = NewTag /\ next = "sync_commit"
  <2>1. CASE WriteHeader
    BY <1>3, <2>1 DEF WriteHeader, Put, Kind, Fields, Stages, NewTag
  <2>2. CASE WritePayload
    BY <1>3, <2>2 DEF WritePayload, Put, Kind, Fields, Stages, NewTag
  <2>3. CASE WriteFooter
    BY <1>3, <2>3 DEF WriteFooter, Put, Kind, Fields, Stages, NewTag
  <2> QED
    BY <2>1, <2>2, <2>3
<1>5. /\ DeviceOK'
      /\ \A b \in Banks, g \in Fields :
           /\ outcome'[b][g] = IF b = target /\ g = f
                               THEN outcome[b][g] \cup {v, ErasedBank[f]}
                               ELSE outcome[b][g]
           /\ ~(b = target /\ g = f) => cached'[b][g] = cached[b][g]
      /\ stage' = next \/ Fail
      /\ ~Fail => stage' = next /\ cached'[target][f] = v
  BY <1>2, <1>4, PutEffect
<1>6. \A g \in Fields : /\ outcome'[k][g] \subseteq outcome[k][g]
                        /\ cached'[k][g] = cached[k][g]
                        /\ cached'[k][g] \in outcome'[k][g]
  BY <1>2, <1>5 DEF DeviceOK
<1>7. Kept(k)' /\ KeptGeneration(k)' = KeptGeneration(k)
  BY <1>2, <1>6, KeptStays DEF Keeper
<1>8. outcome[target]["footer"] = {NoTag}
  BY <1>1, <1>2 DEF Keeper, Progress
<1>9. CASE stage # "footer"
  <2>1. f # "footer"
    BY <1>4, <1>9
  <2>2. outcome'[target]["footer"] = {NoTag}
    BY <1>2, <1>5, <1>8, <2>1 DEF Fields
  <2>3. OthersOlder(k)'
    BY <1>2, <2>2, OlderWithoutFooter
  <2>4. Progress(k)'
    <3>1. CASE Fail
      BY <3>1 DEF Fail, Progress
    <3>2. CASE ~Fail /\ f = "header"
      BY <1>2, <1>4, <1>5, <2>2, <3>2 DEF Progress
    <3>3. CASE ~Fail /\ f = "payload"
      <4>1. cached[target].header = NewTag /\ cached'[target].header = cached[target].header
        BY <1>2, <1>4, <1>5, <3>3 DEF Keeper, Progress, Fields
      <4> QED
        BY <1>2, <1>4, <1>5, <2>2, <3>3, <4>1 DEF Progress
    <3> QED
      BY <1>4, <2>1, <3>1, <3>2, <3>3
  <2> QED
    BY <1>1, <1>2, <1>5, <1>7, <2>3, <2>4, CallGoesOn DEF Keeper
<1>10. CASE stage = "footer"
  <2>1. ~Fail /\ f = "footer" /\ v = NewTag /\ next = "sync_commit"
    BY <1>4, <1>10 DEF Fail, FaultsBeforeCommit
  <2>2. stage' = "sync_commit" /\ cached'[target].footer = NewTag
    BY <1>5, <2>1
  <2>3. /\ outcome'[target]["footer"] \subseteq {NoTag, NewTag}
        /\ outcome'[target]["header"] = outcome[target]["header"]
        /\ outcome'[target]["payload"] = outcome[target]["payload"]
    <3>1. /\ "header" \in Fields /\ "payload" \in Fields /\ "footer" \in Fields
          /\ "header" # f /\ "payload" # f
      BY <2>1 DEF Fields
    <3>2. /\ outcome'[target]["header"] = outcome[target]["header"]
          /\ outcome'[target]["payload"] = outcome[target]["payload"]
      BY <1>2, <1>5, <3>1
    <3>3. outcome'[target]["footer"] = outcome[target]["footer"] \cup {v, ErasedBank[f]}
      BY <1>2, <1>5, <2>1, <3>1
    <3>4. ErasedBank[f] = NoTag
      BY <2>1, ErasedFields
    <3> QED
      BY <1>8, <2>1, <3>2, <3>3, <3>4
  <2>4. outcome[target]["header"] = {NewTag} /\ outcome[target]["payload"] = {image}
    BY <1>2, <1>10 DEF Keeper, Progress
  <2>5. Progress(k)'
    BY <1>2, <2>2, <2>3, <2>4 DEF Progress
  <2> QED
    BY <1>1, <1>2, <1>5, <1>7, <2>2, <2>5, CallGoesOn DEF Keeper
<1> QED
  BY <1>9, <1>10

LEMMA SyncKeeps ==
  ASSUME DeviceOK, CallOK, NEW k \in Banks, Keeper(k), SyncErase \/ SyncImage
  PROVE  DeviceOK' /\ CallOK' /\ Keeper(k)' /\ FallbackHeld(k)'
<1>1. /\ UNCHANGED <<callVars, committed, attempts, previous>>
      /\ stage \in {"sync_erase", "sync_image"}
      /\ stage' \in Stages \cup {"idle"}
  BY DEF SyncErase, SyncImage, Proceed, Fail, Stages
<1>2. /\ target \in Banks /\ target = 1 - k /\ k # target
      /\ CallOK' /\ FallbackHeld(k)' /\ NewTag' = NewTag /\ image' = image
      /\ committed' = committed
  BY <1>1, CallGoesOn DEF callVars
<1>3. CASE Fail /\ UNCHANGED deviceVars
  <2>1. DeviceOK' /\ stage' = "idle" /\ UNCHANGED <<cached, outcome>>
    BY <1>3 DEF deviceVars, DeviceOK, Fail
  <2>2. Kept(k)' /\ KeptGeneration(k)' = KeptGeneration(k) /\ OthersOlder(k)'
    BY <1>1, <1>2, <2>1 DEF Keeper, Kept, Settled, KeptGeneration, OthersOlder
  <2>3. Progress(k)'
    BY <2>1 DEF Progress
  <2> QED
    BY <1>2, <2>1, <2>2, <2>3 DEF Keeper
<1>4. CASE Synchronized /\ stage' # "idle"
  <2>1. /\ DeviceOK' /\ cached' = cached
        /\ \A b \in Banks, g \in Fields : outcome'[b][g] = {cached[b][g]}
    BY <1>4, SyncEffect
  <2>2. \A b \in Banks, g \in Fields : cached[b][g] \in outcome[b][g]
    BY DEF DeviceOK
  <2>3. Kept(k)' /\ KeptGeneration(k)' = KeptGeneration(k)
    BY <1>2, <2>1, <2>2, KeptStays DEF Keeper
  <2>4. /\ outcome'[target]["header"] = {cached[target].header}
        /\ outcome'[target]["payload"] = {cached[target].payload}
        /\ outcome'[target]["footer"] = {cached[target].footer}
        /\ cached[target].footer \in outcome[target]["footer"]
    BY <1>2, <2>1, <2>2 DEF Fields
  <2>5. CASE stage = "sync_erase"
    <3>1. stage' = "header"
      BY <1>4, <2>5 DEF SyncErase, SyncImage, Proceed, Fail
    <3>2. outcome'[target]["footer"] = {NoTag}
      BY <1>2, <2>4, <2>5, ErasedFields DEF Keeper, Progress, Fields
    <3>3. Progress(k)'
      BY <1>2, <3>1, <3>2 DEF Progress
    <3> QED
      BY <1>1, <1>2, <2>1, <2>3, <3>2, <3>3, CallGoesOn, OlderWithoutFooter DEF Keeper
  <2>6. CASE stage = "sync_image"
    <3>1. stage' = "footer"
      BY <1>4, <2>6 DEF SyncErase, SyncImage, Proceed, Fail
    <3>2. /\ outcome'[target]["footer"] = {NoTag} /\ outcome'[target]["header"] = {NewTag}
          /\ outcome'[target]["payload"] = {image}
      BY <1>2, <2>4, <2>6 DEF Keeper, Progress
    <3>3. Progress(k)'
      BY <1>2, <3>1, <3>2 DEF Progress
    <3> QED
      BY <1>1, <1>2, <2>1, <2>3, <3>1, <3>3, CallGoesOn DEF Keeper
  <2> QED
    BY <1>1, <2>5, <2>6
<1> QED
  BY <1>3, <1>4 DEF SyncErase, SyncImage, Proceed

\* The generation after any is not zero.
LEMMA NextNotZero ==
  ASSUME NEW n \in 0..GenMax
  PROVE  NextGeneration(n) # 0
BY StoreAssumption DEF NextGeneration

\* The last sync makes the rewritten bank the keeper, and the old keeper the
\* fallback.
LEMMA CommitKeeps ==
  ASSUME DeviceOK, CallOK, NEW k \in Banks, Keeper(k), FaultsBeforeCommit, SyncCommit
  PROVE  DeviceOK' /\ CallOK' /\ Keeper(1 - k)' /\ FallbackHeld(1 - k)'
<1> DEFINE t == 1 - k
<1>1. t \in Banks /\ t # k /\ 1 - t = k
  BY BankFacts
<1>2. /\ stage = "sync_commit" /\ Synchronized /\ stage' = "idle" /\ committed' = image
      /\ attempts' = {} /\ previous' = committed /\ UNCHANGED callVars
  BY DEF SyncCommit, Fail, FaultsBeforeCommit
<1>3. image \in attempts /\ image \in Images /\ image # NoImage
  BY <1>2, StoreAssumption DEF CallOK
<1>4. /\ DeviceOK' /\ cached' = cached
      /\ \A b \in Banks, g \in Fields : outcome'[b][g] = {cached[b][g]}
  BY <1>2, SyncEffect
<1>5. CallOK'
  BY <1>2, <1>3 DEF CallOK, callVars
<1>6. cached[t].header = NewTag /\ cached[t].payload = image /\ cached[t].footer = NewTag
  <2>1. /\ outcome[t]["header"] = {NewTag} /\ outcome[t]["payload"] = {image}
        /\ cached[t].footer = NewTag
    BY <1>2 DEF Keeper, Progress
  <2>2. cached[t].header \in outcome[t]["header"] /\ cached[t].payload \in outcome[t]["payload"]
    BY <1>1 DEF DeviceOK, Fields
  <2> QED
    BY <2>1, <2>2
<1>7. generation = NextGeneration(KeptGeneration(k)) /\ NewTag.gen = generation
      /\ NewTag.image = image
  BY <1>2 DEF Keeper, NewTag
<1>8. KeptGeneration(k) \in 0..GenMax
  <2>1. cached[k].header \in Tag
    BY DEF DeviceOK, Fields
  <2> QED
    BY <2>1, StoreAssumption DEF KeptGeneration, Tag
<1>9. Accepted(cached[t].header, cached[t].payload, cached[t].footer)
  BY <1>3, <1>6, <1>7, <1>8, NextNotZero DEF Accepted
<1> HIDE DEF t
<1>10. Settled(t)' /\ Settled(k)'
  BY <1>1, <1>4 DEF Settled
<1>11. Kept(t)' /\ KeptGeneration(t)' = generation
  BY <1>2, <1>3, <1>4, <1>6, <1>7, <1>9, <1>10 DEF Kept, KeptGeneration
<1>12. Accepted(cached[k].header, cached[k].payload, cached[k].footer) =>
         committed # NoImage /\ generation = NextGeneration(cached[k].header.gen)
  <2>1. /\ cached[k].header \in outcome[k]["header"] /\ cached[k].payload \in outcome[k]["payload"]
        /\ cached[k].footer \in outcome[k]["footer"]
    BY DEF DeviceOK, Fields
  <2> QED
    BY <1>7, <2>1 DEF Keeper, Kept, KeptGeneration
<1>13. OthersOlder(t)'
  <2>1. /\ outcome'[k]["header"] = {cached[k].header}
        /\ outcome'[k]["payload"] = {cached[k].payload}
        /\ outcome'[k]["footer"] = {cached[k].footer}
    BY <1>4 DEF Fields
  <2> QED
    BY <1>1, <1>2, <1>3, <1>11, <1>12, <2>1 DEF OthersOlder
<1>14. Progress(t)'
  BY <1>2 DEF Progress
<1>15. Keeper(t)'
  BY <1>2, <1>11, <1>13, <1>14 DEF Keeper
<1>16. FallbackHeld(t)'
  <2>1. committed # NoImage =>
          /\ Accepted(cached[k].header, cached[k].payload, cached[k].footer)
          /\ cached[k].payload = committed
    BY DEF Keeper, Kept
  <2> QED
    BY <1>1, <1>2, <1>3, <1>4, <1>10, <2>1 DEF FallbackHeld
<1> QED
  BY <1>4, <1>5, <1>15, <1>16 DEF t

\* After a power loss the bank that is restored is the keeper.
LEMMA RestartKeeps ==
  ASSUME DeviceOK, CallOK, NEW k \in Banks, Keeper(k), Restart
  PROVE  DeviceOK' /\ CallOK' /\ \E j \in Banks : Keeper(j)' /\ FallbackHeld(j)'
<1>1. PICK mem \in PowerLoss :
        /\ cached' = mem
        /\ outcome' = [b \in Banks |-> [f \in Fields |-> {mem[b][f]}]]
        /\ stage' = "idle" /\ committed' = Restored(mem, {}) /\ attempts' = {}
        /\ previous' = NoImage /\ UNCHANGED callVars
  BY DEF Restart
<1>2. 1 - k \in Banks /\ 1 - k # k /\ Banks = {k, 1 - k} /\ 1 - (1 - k) = k
  BY BankFacts
<1>3. \A b \in Banks :
        /\ mem[b].header \in Tag /\ mem[b].footer \in Tag
        /\ mem[b].payload \in Images \cup {NoImage}
  BY SurvivingFields DEF DeviceOK
<1>4. \A b \in Banks :
        mem[b] = [header |-> mem[b].header, payload |-> mem[b].payload,
                  footer |-> mem[b].footer]
  BY SurvivingFields
<1>5. DeviceOK'
  <2> DEFINE V == Tag \cup Images \cup {NoImage}
             o == [b \in Banks |-> [f \in Fields |-> {mem[b][f]}]]
  <2>1. \A b \in Banks, f \in Fields : mem[b][f] \in Kind(f)
    BY <1>3 DEF Kind, Fields
  <2>2. \A b \in Banks : mem[b] \in [Fields -> V]
    <3>1. TAKE b \in Banks
    <3>2. mem[b].header \in V /\ mem[b].payload \in V /\ mem[b].footer \in V
      BY <1>3
    <3> HIDE DEF V
    <3>3. \A h \in V, p \in V, f \in V :
            [header |-> h, payload |-> p, footer |-> f] \in [Fields -> V]
      BY DEF Fields
    <3>4. PICK h \in V, p \in V, f \in V :
            mem[b] = [header |-> h, payload |-> p, footer |-> f]
      BY <1>4, <3>2, Zenon
    <3>5. [header |-> h, payload |-> p, footer |-> f] \in [Fields -> V]
      BY <3>3
    <3> QED
      BY <3>4, <3>5
  <2>4. mem \in [Banks -> [Fields -> V]]
    <3>1. mem = [c \in Banks |-> mem[c]]
      BY DEF PowerLoss
    <3> QED
      BY <2>2, <3>1
  <2>5. o \in [Banks -> [Fields -> SUBSET V]]
    BY <2>1, KindFacts
  <2>6. \A b \in Banks, f \in Fields : o[b][f] \subseteq Kind(f) /\ mem[b][f] \in o[b][f]
    BY <2>1
  <2> QED
    BY <1>1, <2>4, <2>5, <2>6, DeviceKept
<1>6. Found(mem, k)
  BY WhatIsFound
<1>7. CallOK'
  <2>1. image \in Images \cup {NoImage} /\ committed \in Images \cup {NoImage}
    BY DEF CallOK
  <2>2. Restored(mem, {}) \in Images \cup {NoImage}
    BY <1>6, <2>1 DEF Found
  <2> QED
    BY <1>1, <2>2 DEF CallOK, callVars
<1>8. \A b \in Banks :
        /\ \A f \in Fields : outcome'[b][f] = {mem[b][f]}
        /\ outcome'[b]["header"] = {mem[b].header} /\ outcome'[b]["payload"] = {mem[b].payload}
        /\ outcome'[b]["footer"] = {mem[b].footer}
        /\ Settled(b)'
  BY <1>1 DEF Settled, Fields
<1>9. ASSUME NEW j \in Banks, Valid(mem[j]), committed' = mem[j].payload,
             Valid(mem[1 - j]) => mem[j].header.gen = NextGeneration(mem[1 - j].header.gen)
      PROVE  Keeper(j)' /\ FallbackHeld(j)'
  <2>1. 1 - j \in Banks
    BY BankFacts
  <2>2. Accepted(mem[j].header, mem[j].payload, mem[j].footer) /\ mem[j].payload # NoImage
    BY <1>9, ValidIsAccepted DEF Valid
  <2>3. Kept(j)' /\ KeptGeneration(j)' = mem[j].header.gen
    BY <1>1, <1>8, <1>9, <2>2 DEF Kept, KeptGeneration
  <2>4. OthersOlder(j)'
    BY <1>1, <1>8, <1>9, <2>1, <2>2, <2>3, ValidIsAccepted DEF OthersOlder
  <2>5. Progress(j)'
    BY <1>1 DEF Progress
  <2> QED
    BY <1>1, <2>3, <2>4, <2>5 DEF Keeper, FallbackHeld
<1>10. CASE /\ committed # NoImage /\ Valid(mem[k]) /\ mem[k].payload = committed
            /\ Restored(mem, {}) = committed
            /\ Valid(mem[1 - k]) => mem[k].header.gen = NextGeneration(mem[1 - k].header.gen)
  <2>1. Keeper(k)' /\ FallbackHeld(k)'
    BY <1>1, <1>9, <1>10
  <2> QED
    BY <1>5, <1>7, <2>1
<1>11. CASE /\ Valid(mem[1 - k]) /\ mem[1 - k].payload = image
            /\ Restored(mem, {}) = image
            /\ Valid(mem[k]) => mem[1 - k].header.gen = NextGeneration(mem[k].header.gen)
  <2>1. Keeper(1 - k)' /\ FallbackHeld(1 - k)'
    BY <1>1, <1>2, <1>9, <1>11
  <2> QED
    BY <1>2, <1>5, <1>7, <2>1
<1>12. CASE /\ Restored(mem, {}) = NoImage /\ k = 1
            /\ \A b \in Banks : ~Valid(mem[b])
  <2>1. \A b \in Banks : ~Accepted(mem[b].header, mem[b].payload, mem[b].footer)
    BY <1>12, ValidIsAccepted
  <2>2. Kept(k)'
    BY <1>1, <1>8, <1>12, <2>1 DEF Kept
  <2>3. OthersOlder(k)'
    BY <1>2, <1>8, <2>1 DEF OthersOlder
  <2>4. Progress(k)'
    BY <1>1 DEF Progress
  <2>5. Keeper(k)' /\ FallbackHeld(k)'
    BY <1>1, <2>2, <2>3, <2>4 DEF Keeper, FallbackHeld
  <2> QED
    BY <1>5, <1>7, <2>5
<1> QED
  BY <1>6, <1>10, <1>11, <1>12 DEF Found

-----------------------------------------------------------------------------
(* The theorems.                                                           *)

LEMMA StoreStep ==
  ASSUME FaultsBeforeCommit, StoreInv, [StoreNext]_storeVars
  PROVE  StoreInv'
<1>1. PICK k \in Banks : Keeper(k) /\ FallbackHeld(k)
  BY DEF StoreInv
<1>2. DeviceOK /\ CallOK /\ 1 - k \in Banks
  BY BankFacts DEF StoreInv
<1>3. ASSUME NEW img \in Images, BeginCheckpoint(img)
      PROVE  StoreInv'
  BY <1>1, <1>2, <1>3, BeginKeeps DEF StoreInv
<1>4. CASE Erase
  BY <1>1, <1>2, <1>4, EraseKeeps DEF StoreInv
<1>5. CASE WriteHeader \/ WritePayload \/ WriteFooter
  BY <1>1, <1>2, <1>5, WriteKeeps DEF StoreInv
<1>6. CASE SyncErase \/ SyncImage
  BY <1>1, <1>2, <1>6, SyncKeeps DEF StoreInv
<1>7. CASE SyncCommit
  BY <1>1, <1>2, <1>7, CommitKeeps DEF StoreInv
<1>8. CASE Restart
  BY <1>1, <1>2, <1>8, RestartKeeps DEF StoreInv
<1>9. CASE UNCHANGED storeVars
  <2>1. UNCHANGED <<cached, outcome, stage, target, generation, image, committed,
                    attempts, previous>>
    BY <1>9 DEF storeVars, deviceVars, callVars
  <2>2. DeviceOK' /\ CallOK'
    BY <1>2, <2>1 DEF DeviceOK, CallOK
  <2>3. Keeper(k)'
    BY <1>1, <2>1 DEF Keeper, Kept, Settled, OthersOlder, KeptGeneration, Progress, NewTag
  <2>4. FallbackHeld(k)'
    BY <1>1, <2>1 DEF FallbackHeld, Settled
  <2> QED
    BY <2>2, <2>3, <2>4 DEF StoreInv
<1> QED
  BY <1>3, <1>4, <1>5, <1>6, <1>7, <1>8, <1>9 DEF StoreNext

LEMMA StoreInitial ==
  ASSUME StoreInit
  PROVE  StoreInv
<1> DEFINE V == Tag \cup Images \cup {NoImage}
<1>1. /\ cached = [b \in Banks |-> ErasedBank]
      /\ outcome = [b \in Banks |-> [f \in Fields |-> {ErasedBank[f]}]]
      /\ stage = "idle" /\ target = 0 /\ generation = 0 /\ image = NoImage
      /\ committed = NoImage /\ attempts = {} /\ previous = NoImage
  BY DEF StoreInit
<1>2. \A b \in Banks, f \in Fields :
        cached[b][f] = ErasedBank[f] /\ outcome[b][f] = {ErasedBank[f]}
  BY <1>1
<1>3. ErasedBank \in [Fields -> V]
  BY ErasedFields DEF ErasedBank, Fields
<1>4. DeviceOK
  <2>1. cached \in [Banks -> [Fields -> V]]
    BY <1>1, <1>3
  <2>2. outcome \in [Banks -> [Fields -> SUBSET V]]
    BY <1>1, <1>3
  <2> QED
    BY <1>2, <2>1, <2>2, KindFacts
<1>5. CallOK
  BY <1>1, StoreAssumption DEF CallOK, Banks
<1>6. \A b \in Banks : outcome[b]["footer"] = {NoTag}
  BY <1>2, ErasedFields DEF Fields
<1>7. 1 \in Banks /\ 1 - 1 \in Banks
  BY DEF Banks
<1>8. Kept(1) /\ OthersOlder(1)
  BY <1>1, <1>6, <1>7, ErasedFields DEF Kept, OthersOlder, Accepted
<1>9. Progress(1)
  BY <1>1 DEF Progress
<1>10. Keeper(1) /\ FallbackHeld(1)
  BY <1>1, <1>8, <1>9 DEF Keeper, FallbackHeld
<1> QED
  BY <1>4, <1>5, <1>7, <1>10 DEF StoreInv

LEMMA StoreInvariant ==
  ASSUME FaultsBeforeCommit
  PROVE  StoreSpec => []StoreInv
<1>1. StoreInit => StoreInv
  BY StoreInitial
<1>2. StoreInv /\ [StoreNext]_storeVars => StoreInv'
  BY StoreStep
<1> QED
  BY <1>1, <1>2, PTL DEF StoreSpec

\* Whatever a power loss leaves of them, the banks hold fields of their kinds,
\* and the call in progress one of its stages, a bank and a generation in range.
THEOREM StoreTypeCorrect ==
  ASSUME FaultsBeforeCommit
  PROVE  StoreSpec => []StoreTypeOK
<1> DEFINE Typed == previous \in Images \cup {NoImage}
<1>1. StoreInit => Typed
  BY DEF StoreInit
<1>2. StoreInv /\ Typed /\ [StoreNext]_storeVars => Typed'
  <2> SUFFICES ASSUME StoreInv, Typed, [StoreNext]_storeVars PROVE Typed'
    OBVIOUS
  <2>1. previous' \in {previous, committed, NoImage}
    BY DEF StoreNext, BeginCheckpoint, Erase, SyncErase, WriteHeader, WritePayload, SyncImage,
       WriteFooter, SyncCommit, Restart, Put, Proceed, Fail, storeVars
  <2> QED
    BY <2>1 DEF StoreInv, CallOK
<1>3. StoreInv /\ Typed => StoreTypeOK
  <2> SUFFICES ASSUME StoreInv, Typed PROVE StoreTypeOK
    OBVIOUS
  <2>1. ASSUME NEW b \in Banks PROVE cached[b] \in Bank
    <3>1. /\ cached[b] \in [Fields -> Tag \cup Images \cup {NoImage}]
          /\ cached[b]["header"] \in Tag /\ cached[b]["footer"] \in Tag
          /\ cached[b]["payload"] \in Images \cup {NoImage}
      BY DEF StoreInv, DeviceOK, Fields
    <3> QED
      BY <3>1 DEF Bank, Fields
  <2>2. cached \in [Banks -> Bank]
    BY <2>1 DEF StoreInv, DeviceOK
  <2> QED
    BY <2>2 DEF StoreTypeOK, StoreInv, DeviceOK, CallOK
<1> QED
  BY <1>1, <1>2, <1>3, StoreInvariant, PTL DEF StoreSpec

\* For any images and any generation width, and a power loss at any moment, also
\* after any number of failed calls: what survives in the banks restores to the
\* last acknowledged image or to one attempted since.
THEOREM CommittedAlwaysRecoverable ==
  ASSUME FaultsBeforeCommit
  PROVE  StoreSpec => []CommittedRecoverable
<1>1. StoreInv => CommittedRecoverable
  BY InvRecoverable
<1> QED
  BY <1>1, StoreInvariant, PTL

\* With two acknowledged checkpoints and none tried since, the loss of either
\* bank leaves one of the two images.
THEOREM FallbackAlwaysKept ==
  ASSUME FaultsBeforeCommit
  PROVE  StoreSpec => []FallbackKept
<1>1. StoreInv => FallbackKept
  BY InvFallback
<1> QED
  BY <1>1, StoreInvariant, PTL

\* Banks, generations and syncs implement one atomically replaced image, which
\* is what BrcbPersistence builds on.
THEOREM StoreImplementsStableImage ==
  ASSUME FaultsBeforeCommit
  PROVE  StoreSpec => ImplementsStableImage
<1>1. StoreInit => Stable!StableInit
  BY DEF StoreInit, Stable!StableInit
<1>2. ASSUME StoreInv, [StoreNext]_storeVars
      PROVE  [Stable!StableNext]_(Stable!stableVars)
  <2>1. ASSUME NEW img \in Images, BeginCheckpoint(img)
        PROVE  Stable!StableNext
    BY <2>1 DEF BeginCheckpoint, Stable!StableNext, Stable!Attempt
  <2>2. CASE SyncCommit
    <3>1. committed' = image /\ attempts' = {} /\ stage # "idle"
      BY <2>2 DEF SyncCommit, Fail, FaultsBeforeCommit
    <3>2. image \in attempts
      BY <1>2, <3>1 DEF StoreInv, CallOK
    <3> QED
      BY <3>1, <3>2 DEF Stable!StableNext, Stable!Acknowledge
  <2>3. CASE Restart
    <3>1. PICK mem \in PowerLoss : committed' = Restored(mem, {}) /\ attempts' = {}
      BY <2>3 DEF Restart
    <3>2. Restored(mem, {}) \in attempts \cup {committed}
      BY <1>2, InvRecoverable DEF CommittedRecoverable
    <3> QED
      BY <3>1, <3>2 DEF Stable!StableNext, Stable!Recover
  <2>4. CASE \/ Erase \/ SyncErase \/ WriteHeader \/ WritePayload \/ SyncImage
             \/ WriteFooter \/ UNCHANGED storeVars
    <3>1. UNCHANGED <<committed, attempts>>
      BY <2>4 DEF Erase, SyncErase, WriteHeader, WritePayload, SyncImage, WriteFooter,
         Put, Proceed, Fail, storeVars
    <3> QED
      BY <3>1 DEF Stable!stableVars
  <2> QED
    BY <1>2, <2>1, <2>2, <2>3, <2>4 DEF StoreNext
<1>3. StoreInv /\ [StoreNext]_storeVars => [Stable!StableNext]_(Stable!stableVars)
  BY <1>2
<1> QED
  BY <1>1, <1>3, StoreInvariant, PTL
     DEF StoreSpec, ImplementsStableImage, Stable!StableSpec

=============================================================================
