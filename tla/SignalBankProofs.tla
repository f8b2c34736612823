-------------------------- MODULE SignalBankProofs --------------------------
(***************************************************************************)
(* SignalBank is an atomic register, for any number of readers, banks,     *)
(* members and publishes.                                                  *)
(*                                                                         *)
(* The argument: the pin counts are exact (PinsCounted), so a bank the     *)
(* writer found unpinned has no reader past its second check; a reader     *)
(* that pins it later fails that check, since the bank is not active until *)
(* it is complete (WriterExclusive).  Hence what a reader copies does not  *)
(* change while it copies (CopyFaithful), and every bank the writer is not *)
(* working on holds one scenario (BanksWhole).                             *)
(*                                                                         *)
(* A publish finds a bank: each bank it finds pinned costs it a reader     *)
(* that cannot come back to a later one (ReadersUsedUp), and there are     *)
(* more banks than readers to spend.                                       *)
(***************************************************************************)
EXTENDS SignalBank, FiniteSetTheorems, TLAPS

Pinned == {"recheck", "copy", "unpin", "backout"}
Copying == {"copy", "unpin"}
Filling == writer.pc \in {"fill", "activate"}

BankTypes ==
  /\ banks \in [Banks -> Scenario]
  /\ reader_counts \in [Banks -> Int]
  /\ active_index \in Banks
  /\ pc \in [Readers -> Pinned \cup {"idle", "pin"}]
  /\ index \in [Readers -> Banks]
  /\ copy \in [Readers -> Scenario]
  /\ copied \in [Readers -> SUBSET Fields]
  /\ writer \in [pc : {"idle", "scan", "fill", "activate"}, request : Requests,
                 current : Banks, next : Banks, filled : SUBSET Fields]

Pins(b) == {r \in Readers : pc[r] \in Pinned /\ index[r] = b}

\* Every bank counts exactly the readers that have pinned it.
PinsCounted == \A b \in Banks : reader_counts[b] = Cardinality(Pins(b))

\* The bank being filled is not active, and no reader copies from it.
WriterExclusive ==
  /\ writer.pc # "idle" => writer.current = active_index
  /\ Filling => /\ writer.next # active_index
                /\ \A r \in Readers : pc[r] \in Copying => index[r] # writer.next

\* Every other bank holds one scenario; the one being filled is on its way.
BanksWhole ==
  /\ writer.pc = "scan" => writer.filled = {}
  /\ \A b \in Banks : (Filling /\ b = writer.next) \/ banks[b].data \in Contents
  /\ Filling => \A f \in writer.filled : banks[writer.next].data[f] = writer.request
  /\ writer.pc = "activate" =>
       /\ writer.filled = Fields
       /\ banks[writer.next].generation = banks[active_index].generation + 1

\* What has been copied is what the pinned bank still holds.
CopyFaithful ==
  \A r \in Readers :
    /\ pc[r] \notin Copying => copied[r] = {}
    /\ pc[r] = "copy" => \A f \in copied[r] : copy[r].data[f] = banks[index[r]].data[f]
    /\ pc[r] = "unpin" => copy[r] = banks[index[r]]

BankInv == BankTypes /\ PinsCounted /\ WriterExclusive /\ BanksWhole /\ CopyFaithful

-----------------------------------------------------------------------------
\* The initial state satisfies the invariant.
LEMMA BankInitEstablishes == BankInit => BankInv
<1> SUFFICES ASSUME BankInit PROVE BankInv
  OBVIOUS
<1> USE BankAssumption DEF BankInit
<1>1. 0 \in Banks /\ Initial \in Scenario /\ Initial.data \in Contents
  BY DEF Banks, Initial, Scenario, Contents
<1>2. BankTypes
  BY <1>1 DEF BankTypes, NoPublish, Pinned
<1>3. PinsCounted
  <2>1. \A b \in Banks : Pins(b) = {}
    BY DEF Pins, Pinned
  <2> QED
    BY <2>1, FS_EmptySet DEF PinsCounted
<1>4. WriterExclusive /\ BanksWhole /\ CopyFaithful
  BY <1>1 DEF WriterExclusive, BanksWhole, CopyFaithful, Filling, NoPublish, Copying
<1> QED
  BY <1>2, <1>3, <1>4 DEF BankInv

-----------------------------------------------------------------------------
(* Steps of snapshot().                                                    *)

\* A reader's step that moves no pin leaves the counts exact.
LEMMA PinsKept ==
  ASSUME BankTypes, PinsCounted, reader_counts' = reader_counts,
         \A r \in Readers : (pc'[r] \in Pinned <=> pc[r] \in Pinned)
                            /\ (pc[r] \in Pinned => index'[r] = index[r])
  PROVE  PinsCounted'
<1>1. \A b \in Banks : Pins(b)' = Pins(b)
  BY DEF Pins
<1> QED
  BY <1>1 DEF PinsCounted, BankTypes

\* Every access of snapshot() preserves the invariant.
LEMMA SnapshotPreserves ==
  ASSUME BankInv, NEW r \in Readers, Snapshot(r)
  PROVE  BankInv'
<1> USE DEF BankInv
<1>1. CASE LoadActive(r)
  <2>1. BankTypes'
    BY <1>1 DEF BankTypes, LoadActive, Goto, Pinned
  <2>2. PinsCounted'
    BY <1>1, PinsKept DEF LoadActive, Goto, BankTypes, Pinned
  <2>3. WriterExclusive' /\ BanksWhole' /\ CopyFaithful'
    BY <1>1 DEF LoadActive, Goto, BankTypes, WriterExclusive, BanksWhole,
                CopyFaithful, Filling, Copying
  <2> QED
    BY <2>1, <2>2, <2>3
<1>2. CASE PinBank(r)
  <2>1. BankTypes'
    BY <1>2 DEF BankTypes, PinBank, Goto, Pinned
  <2>2. PinsCounted'
    <3>1. r \notin Pins(index[r]) /\ Pins(index[r])' = Pins(index[r]) \cup {r}
      BY <1>2 DEF PinBank, Goto, Pins, Pinned, BankTypes
    <3>2. \A b \in Banks : b # index[r] => Pins(b)' = Pins(b)
      BY <1>2 DEF PinBank, Goto, Pins, Pinned, BankTypes
    <3>3. IsFiniteSet(Pins(index[r]))
      BY BankAssumption, FS_Subset DEF Pins
    <3>4. Cardinality(Pins(index[r])') = Cardinality(Pins(index[r])) + 1
      BY <3>1, <3>3, FS_AddElement
    <3> QED
      BY <1>2, <3>2, <3>4 DEF PinBank, PinsCounted, BankTypes
  <2>3. WriterExclusive' /\ BanksWhole' /\ CopyFaithful'
    BY <1>2 DEF PinBank, Goto, BankTypes, WriterExclusive, BanksWhole,
                CopyFaithful, Filling, Copying
  <2> QED
    BY <2>1, <2>2, <2>3
<1>3. CASE Recheck(r)
  <2>1. BankTypes'
    BY <1>3 DEF BankTypes, Recheck, Goto, Pinned
  <2>2. PinsCounted'
    BY <1>3, PinsKept DEF Recheck, Goto, BankTypes, Pinned
  <2>3. WriterExclusive' /\ BanksWhole' /\ CopyFaithful'
    BY <1>3 DEF Recheck, Goto, BankTypes, WriterExclusive, BanksWhole,
                CopyFaithful, Filling, Copying
  <2> QED
    BY <2>1, <2>2, <2>3
<1>4. ASSUME NEW f \in Fields, CopyField(r, f) PROVE BankInv'
  <2>1. BankTypes'
    <3>1. banks[index[r]].data[f] \in Requests /\ copy[r] \in Scenario
      BY DEF BankTypes, Scenario
    <3>2. copy' \in [Readers -> Scenario]
      BY <1>4, <3>1 DEF BankTypes, CopyField, Scenario
    <3>3. copied' \in [Readers -> SUBSET Fields]
      BY <1>4 DEF BankTypes, CopyField
    <3> QED
      BY <1>4, <3>2, <3>3 DEF BankTypes, CopyField
  <2>2. PinsCounted'
    BY <1>4, PinsKept DEF CopyField, BankTypes
  <2>3. WriterExclusive' /\ BanksWhole' 
    BY <1>4 DEF CopyField, BankTypes, WriterExclusive, BanksWhole, Filling, Copying
  <2>4. CopyFaithful'
    BY <1>4 DEF CopyField, BankTypes, CopyFaithful, Copying, Scenario
  <2> QED
    BY <2>1, <2>2, <2>3, <2>4
<1>5. CASE CopyGeneration(r)
  <2>1. BankTypes'
    BY <1>5 DEF BankTypes, CopyGeneration, Goto, Pinned, Scenario
  <2>2. PinsCounted'
    BY <1>5, PinsKept DEF CopyGeneration, Goto, BankTypes, Pinned
  <2>3. WriterExclusive' /\ BanksWhole'
    BY <1>5 DEF CopyGeneration, Goto, BankTypes, WriterExclusive, BanksWhole,
                Filling, Copying
  <2>4. copy'[r] = banks[index[r]]
    <3>1. \A f \in Fields : copy[r].data[f] = banks[index[r]].data[f]
      BY <1>5 DEF CopyGeneration, CopyFaithful
    <3>2. copy[r].data = banks[index[r]].data
      BY <3>1 DEF BankTypes, Scenario
    <3> QED
      BY <1>5, <3>2 DEF CopyGeneration, BankTypes, Scenario
  <2>5. CopyFaithful'
    BY <1>5, <2>4 DEF CopyGeneration, Goto, BankTypes, CopyFaithful, Copying
  <2> QED
    BY <2>1, <2>2, <2>3, <2>5
<1>6. CASE Unpin(r)
  <2> USE <1>6 DEF Unpin, Goto
  <2>a. 0 \in Banks /\ Initial \in Scenario /\ index[r] \in Banks
    BY BankAssumption DEF Banks, Initial, Scenario, BankTypes
  <2>b. reader_counts' \in [Banks -> Int]
    BY <2>a DEF BankTypes
  <2>c. pc' \in [Readers -> Pinned \cup {"idle", "pin"}]
    BY DEF BankTypes
  <2>d. index' \in [Readers -> Banks] /\ copy' \in [Readers -> Scenario]
    BY <2>a DEF BankTypes
  <2>1. BankTypes'
    BY <2>b, <2>c, <2>d DEF BankTypes
  <2>2. PinsCounted'
    <3>0. /\ pc[r] \in Pinned /\ pc'[r] \notin Pinned
          /\ \A q \in Readers \ {r} : pc'[q] = pc[q] /\ index'[q] = index[q]
      BY DEF BankTypes, Pinned
    <3>1. PICK own \in Banks : own = index[r]
      BY <2>a
    <3>2. r \in Pins(own) /\ Pins(own)' = Pins(own) \ {r}
      BY <3>0, <3>1 DEF Pins
    <3>3. \A b \in Banks : b # own => Pins(b)' = Pins(b)
      BY <3>0, <3>1 DEF Pins
    <3>4. IsFiniteSet(Pins(own))
      BY BankAssumption, FS_Subset DEF Pins
    <3>5. Cardinality(Pins(own)') = Cardinality(Pins(own)) - 1
      BY <3>2, <3>4, FS_RemoveElement
    <3> QED
      BY <3>1, <3>3, <3>5 DEF PinsCounted, BankTypes
  <2>3. WriterExclusive' /\ BanksWhole' /\ CopyFaithful'
    BY <1>6 DEF Unpin, Goto, BankTypes, WriterExclusive, BanksWhole,
                CopyFaithful, Filling, Copying
  <2> QED
    BY <2>1, <2>2, <2>3
<1> QED
  BY <1>1, <1>2, <1>3, <1>4, <1>5, <1>6 DEF Snapshot

-----------------------------------------------------------------------------
(* Steps of publish().                                                     *)

\* No access of publish() moves a pin.
LEMMA PublishKeepsPins ==
  ASSUME BankInv, PublishStep
  PROVE  PinsCounted' /\ UNCHANGED <<reader_counts, readerVars>>
<1>1. UNCHANGED <<reader_counts, readerVars>>
  BY DEF PublishStep, PublishBegin, Scan, FillField, Stamp, Activate
<1> QED
  BY <1>1, PinsKept DEF BankInv, readerVars

\* Every access of publish() preserves the invariant.
LEMMA PublishPreserves ==
  ASSUME BankInv, PublishStep
  PROVE  BankInv'
<1> USE DEF BankInv
<1>a. PinsCounted' /\ UNCHANGED <<reader_counts, pc, index, copy, copied>>
  BY PublishKeepsPins DEF readerVars
<1>1. ASSUME NEW s \in Requests, PublishBegin(s) PROVE BankInv'
  <2>1. BankTypes'
    BY <1>1, <1>a, BankAssumption DEF BankTypes, PublishBegin, Banks
  <2>2. WriterExclusive' /\ BanksWhole' /\ CopyFaithful'
    BY <1>1, <1>a DEF PublishBegin, BankTypes, WriterExclusive, BanksWhole,
                      CopyFaithful, Filling
  <2> QED
    BY <1>a, <2>1, <2>2
<1>2. CASE Scan
  <2>1. BankTypes'
    <3> DEFINE Calls == [pc : {"idle", "scan", "fill", "activate"}, request : Requests,
                         current : Banks, next : Banks, filled : SUBSET Fields]
    <3>1. NoPublish \in Calls
      BY BankAssumption DEF NoPublish, Banks
    <3>2. [writer EXCEPT !.pc = "fill"] \in Calls
      BY DEF BankTypes
    <3>3. writer.next + 1 \in Banks => [writer EXCEPT !.next = @ + 1] \in Calls
      BY DEF BankTypes
    <3>4. writer' \in Calls
      BY <1>2, <3>1, <3>2, <3>3 DEF Scan
    <3> QED
      BY <1>2, <1>a, <3>4 DEF BankTypes, Scan
  <2>2. Filling' => \A r \in Readers : pc[r] \notin Copying \/ index[r] # writer'.next
    <3> SUFFICES ASSUME Filling', NEW r \in Readers, pc[r] \in Copying,
                        index[r] = writer'.next
                 PROVE  FALSE
      OBVIOUS
    <3>1. writer'.next = writer.next /\ reader_counts[writer.next] = 0
          /\ writer.next \in Banks
      BY <1>2 DEF Scan, Filling, FreeBank, NoPublish, BankTypes
    <3>2. r \in Pins(writer.next)
      BY <3>1 DEF Pins, Copying, Pinned
    <3>3. IsFiniteSet(Pins(writer.next)) /\ Cardinality(Pins(writer.next)) = 0
      BY <3>1, BankAssumption, FS_Subset DEF Pins, PinsCounted
    <3> QED
      BY <3>2, <3>3, FS_EmptySet
  <2>3. WriterExclusive'
    BY <1>2, <1>a, <2>2 DEF Scan, BankTypes, WriterExclusive, Filling, FreeBank, NoPublish
  <2>4. BanksWhole' /\ CopyFaithful'
    BY <1>2, <1>a DEF Scan, BankTypes, BanksWhole, CopyFaithful, Filling, NoPublish
  <2> QED
    BY <1>a, <2>1, <2>3, <2>4
<1>3. ASSUME NEW f \in Fields, FillField(f) PROVE BankInv'
  <2>0. writer.pc = "fill" /\ Filling /\ writer.next \in Banks
        /\ writer.request \in Requests
    BY <1>3 DEF FillField, Filling, BankTypes
  <2>1. banks' \in [Banks -> Scenario]
    <3>1. PICK n \in Banks : n = writer.next
      BY <2>0
    <3>2. banks[n].data \in [Fields -> Requests] /\ banks[n].generation \in Nat
          /\ banks[n] = [data |-> banks[n].data, generation |-> banks[n].generation]
      BY <3>1 DEF BankTypes, Scenario
    <3>3. [banks[n].data EXCEPT ![f] = writer.request] \in [Fields -> Requests]
      BY <2>0, <3>2
    <3>4. [banks[n] EXCEPT !.data = [banks[n].data EXCEPT ![f] = writer.request]]
            \in Scenario
      BY <3>2, <3>3 DEF Scenario
    <3>5. banks' = [banks EXCEPT ![n] =
                      [banks[n] EXCEPT !.data = [banks[n].data EXCEPT ![f] = writer.request]]]
      BY <1>3, <3>1 DEF FillField
    <3> QED
      BY <3>4, <3>5 DEF BankTypes
  <2>2. BankTypes'
    BY <1>3, <1>a, <2>1 DEF FillField, BankTypes
  <2>3. /\ \A b \in Banks \ {writer.next} : banks'[b] = banks[b]
        /\ banks'[writer.next].data[f] = writer.request
        /\ \A g \in Fields \ {f} :
             banks'[writer.next].data[g] = banks[writer.next].data[g]
    BY <1>3, <2>0 DEF FillField, BankTypes, Scenario
  <2>4. /\ writer'.pc = writer.pc /\ writer'.next = writer.next
        /\ writer'.current = writer.current /\ writer'.request = writer.request
        /\ writer'.filled = writer.filled \cup {f}
        /\ active_index' = active_index
    BY <1>3 DEF FillField, BankTypes
  <2>5. WriterExclusive'
    BY <1>a, <2>0, <2>4 DEF WriterExclusive, Filling
  <2>6. BanksWhole'
    BY <2>0, <2>3, <2>4 DEF BanksWhole, Filling, BankTypes
  <2>7. CopyFaithful'
    BY <1>a, <2>0, <2>3 DEF CopyFaithful, WriterExclusive, Copying, BankTypes
  <2> QED
    BY <1>a, <2>2, <2>5, <2>6, <2>7
<1>4. CASE Stamp
  <2>0. writer.pc = "fill" /\ Filling /\ writer.next \in Banks /\ writer.filled = Fields
        /\ writer.current = active_index /\ writer.next # active_index
        /\ active_index \in Banks
    BY <1>4 DEF Stamp, Filling, BankTypes, WriterExclusive
  <2>1. banks' \in [Banks -> Scenario]
    <3>1. PICK n \in Banks : n = writer.next
      BY <2>0
    <3>2. banks[n] \in Scenario /\ banks[active_index].generation + 1 \in Nat
      BY <2>0 DEF BankTypes, Scenario
    <3>3. [banks[n] EXCEPT !.generation = banks[active_index].generation + 1] \in Scenario
      BY <3>2 DEF Scenario
    <3>4. banks' = [banks EXCEPT ![n] =
                      [banks[n] EXCEPT !.generation = banks[active_index].generation + 1]]
      BY <1>4, <2>0, <3>1 DEF Stamp
    <3> QED
      BY <3>3, <3>4 DEF BankTypes
  <2>2. BankTypes'
    BY <1>4, <1>a, <2>1 DEF Stamp, BankTypes
  <2>3. /\ \A b \in Banks \ {writer.next} : banks'[b] = banks[b]
        /\ banks'[writer.next].data = banks[writer.next].data
        /\ banks'[writer.next].generation = banks[active_index].generation + 1
    BY <1>4, <2>0 DEF Stamp, BankTypes, Scenario
  <2>4. /\ writer'.pc = "activate" /\ writer'.next = writer.next
        /\ writer'.current = writer.current /\ writer'.request = writer.request
        /\ writer'.filled = writer.filled
        /\ active_index' = active_index
    BY <1>4 DEF Stamp, BankTypes
  <2>5. WriterExclusive'
    BY <1>a, <2>0, <2>4 DEF WriterExclusive, Filling
  <2>6. BanksWhole'
    BY <2>0, <2>3, <2>4 DEF BanksWhole, Filling, BankTypes
  <2>7. CopyFaithful'
    BY <1>a, <2>0, <2>3 DEF CopyFaithful, WriterExclusive, Copying, BankTypes
  <2> QED
    BY <1>a, <2>2, <2>5, <2>6, <2>7
<1>5. CASE Activate
  <2>1. BankTypes'
    BY <1>5, <1>a, BankAssumption DEF Activate, BankTypes, NoPublish, Banks
  <2>2. banks[writer.next].data \in Contents
    <3>1. /\ \A f \in Fields : banks[writer.next].data[f] = writer.request
          /\ writer.request \in Requests
      BY <1>5 DEF Activate, BanksWhole, Filling, BankTypes
    <3>2. banks[writer.next].data = [f \in Fields |-> writer.request]
      BY <3>1 DEF BankTypes, Scenario
    <3> QED
      BY <3>1, <3>2 DEF Contents
  <2>3. BanksWhole'
    BY <1>5, <2>2 DEF Activate, BanksWhole, Filling, NoPublish
  <2>4. WriterExclusive' /\ CopyFaithful'
    BY <1>5, <1>a DEF Activate, WriterExclusive, CopyFaithful, Filling, NoPublish
  <2> QED
    BY <1>a, <2>1, <2>3, <2>4
<1> QED
  BY <1>1, <1>2, <1>3, <1>4, <1>5 DEF PublishStep

-----------------------------------------------------------------------------
\* The invariant holds in every reachable state.
LEMMA BankInvariant == BankSpec => []BankInv
<1>1. BankInit => BankInv
  BY BankInitEstablishes
<1>2. BankInv /\ [BankNext]_bankVars => BankInv'
  <2> SUFFICES ASSUME BankInv, [BankNext]_bankVars PROVE BankInv'
    OBVIOUS
  <2>1. CASE BankNext
    BY <2>1, SnapshotPreserves, PublishPreserves DEF BankNext
  <2>2. CASE UNCHANGED bankVars
    BY <2>2 DEF bankVars, readerVars, BankInv, BankTypes, PinsCounted, Pins,
                WriterExclusive, BanksWhole, CopyFaithful, Filling
  <2> QED
    BY <2>1, <2>2
<1> QED
  BY <1>1, <1>2, PTL DEF BankSpec

\* No snapshot is torn, for any number of readers and banks (WholeSnapshot):
\* what snapshot() returns is one published scenario.
THEOREM SnapshotAlwaysWhole == BankSpec => []WholeSnapshot
<1>1. BankInv => WholeSnapshot
  BY DEF BankInv, WholeSnapshot, CopyFaithful, BanksWhole, WriterExclusive,
         BankTypes, Copying
<1> QED
  BY <1>1, BankInvariant, PTL

-----------------------------------------------------------------------------
(* The refinement.                                                         *)

\* The answer of a reader that takes no step stands, as long as the bank it
\* copies from does.
LEMMA AnswerKept ==
  ASSUME NEW q \in Readers, pc'[q] = pc[q], index'[q] = index[q], copy'[q] = copy[q],
         pc[q] = "copy" => banks'[index[q]] = banks[index[q]]
  PROVE  Answer(q)' = Answer(q)
BY DEF Answer

\* publish() changes the register where it makes the new bank active, and
\* nowhere else; it changes no answer.
LEMMA PublishSimulates ==
  ASSUME BankInv, PublishStep
  PROVE  Register!Publish \/ UNCHANGED <<banks[active_index], [r \in Readers |-> Answer(r)]>>
<1> USE DEF BankInv
<1>1. UNCHANGED <<pc, index, copy>>
  BY PublishKeepsPins DEF readerVars
<1>2. \A b \in Banks : b = active_index \/ ~Filling \/ b # writer.next => banks'[b] = banks[b]
  <2>1. ASSUME NEW f \in Fields, FillField(f)
        PROVE  Filling /\ \A b \in Banks \ {writer.next} : banks'[b] = banks[b]
    BY <2>1 DEF FillField, Filling, BankTypes
  <2>2. ASSUME Stamp
        PROVE  Filling /\ \A b \in Banks \ {writer.next} : banks'[b] = banks[b]
    BY <2>2 DEF Stamp, Filling, BankTypes
  <2> QED
    BY <2>1, <2>2 DEF PublishStep, PublishBegin, Scan, Activate, WriterExclusive
<1>3. [r \in Readers |-> Answer(r)]' = [r \in Readers |-> Answer(r)]
  <2>1. \A q \in Readers : pc[q] = "copy" => banks'[index[q]] = banks[index[q]]
    BY <1>2 DEF BankTypes, WriterExclusive, Copying
  <2>2. \A q \in Readers : Answer(q)' = Answer(q)
    BY <1>1, <2>1, AnswerKept
  <2> QED
    BY <2>2
<1>4. CASE Activate
  <2>1. /\ writer.next \in Banks /\ writer.request \in Requests
        /\ banks' = banks /\ active_index' = writer.next
        /\ banks[writer.next].generation = banks[active_index].generation + 1
        /\ \A f \in Fields : banks[writer.next].data[f] = writer.request
    BY <1>4 DEF Activate, BankTypes, BanksWhole, Filling
  <2>2. banks[writer.next] \in Scenario
    BY <2>1 DEF BankTypes
  <2>3. banks[writer.next].data = [f \in Fields |-> writer.request]
    BY <2>1, <2>2 DEF Scenario
  <2>4. banks[writer.next] = [data |-> [f \in Fields |-> writer.request],
                              generation |-> banks[active_index].generation + 1]
    BY <2>1, <2>2, <2>3 DEF Scenario
  <2>5. [f \in Fields |-> writer.request] \in Contents
    BY <2>1 DEF Contents
  <2> QED
    BY <1>3, <2>1, <2>4, <2>5 DEF Register!Publish
<1>5. CASE ~Activate
  <2>1. active_index' = active_index /\ active_index \in Banks
    BY <1>5 DEF PublishStep, PublishBegin, Scan, FillField, Stamp, BankTypes
  <2>2. banks'[active_index] = banks[active_index]
    BY <1>2, <2>1
  <2> QED
    BY <1>3, <2>1, <2>2
<1> QED
  BY <1>4, <1>5

\* snapshot() settles on its answer where the second check succeeds, and
\* returns where it gives up a pin under which it copied.
LEMMA SnapshotSimulates ==
  ASSUME BankInv, NEW r \in Readers, Snapshot(r)
  PROVE  \/ Register!Settle(r) \/ Register!Return(r)
         \/ UNCHANGED <<banks[active_index], [q \in Readers |-> Answer(q)]>>
<1> USE DEF BankInv
<1> DEFINE answers == [q \in Readers |-> Answer(q)]
<1>1. banks' = banks /\ active_index' = active_index
  BY DEF Snapshot, LoadActive, PinBank, Recheck, CopyField, CopyGeneration, Unpin
<1>2. \A q \in Readers \ {r} : Answer(q)' = Answer(q)
  <2>1. \A q \in Readers \ {r} :
           pc'[q] = pc[q] /\ index'[q] = index[q] /\ copy'[q] = copy[q]
    BY DEF Snapshot, LoadActive, PinBank, Recheck, CopyField, CopyGeneration, Unpin,
           Goto, BankTypes
  <2> QED
    BY <1>1, <2>1, AnswerKept
<1>3. banks[active_index] \in Scenario /\ banks[index[r]] \in Scenario
      /\ copy[r] \in Scenario /\ None \notin Scenario
  BY BankAssumption DEF BankTypes
<1>4. CASE Recheck(r) /\ active_index = index[r]
  <2>1. Answer(r) = None /\ Answer(r)' = banks[active_index]
    BY <1>1, <1>4 DEF Recheck, Goto, Answer, BankTypes
  <2>2. answers' = [answers EXCEPT ![r] = banks[active_index]]
    BY <1>2, <2>1
  <2> QED
    BY <1>1, <2>1, <2>2 DEF Register!Settle
<1>5. CASE Unpin(r) /\ pc[r] = "unpin"
  <2>1. Answer(r) = copy[r] /\ Answer(r)' = None
    BY <1>5 DEF Unpin, Goto, Answer, BankTypes
  <2>2. answers' = [answers EXCEPT ![r] = None]
    BY <1>2, <2>1
  <2> QED
    BY <1>1, <1>3, <2>1, <2>2 DEF Register!Return
<1>6. CASE CopyGeneration(r)
  <2>1. copy'[r] = banks[index[r]]
    <3>1. /\ copy'[r].data = copy[r].data
          /\ copy'[r].generation = banks[index[r]].generation
          /\ DOMAIN copy'[r] = DOMAIN copy[r] /\ copy'[r] \in Scenario
      BY <1>3, <1>6 DEF CopyGeneration, BankTypes, Scenario
    <3>2. copy[r].data = banks[index[r]].data
      BY <1>3, <1>6 DEF CopyGeneration, CopyFaithful, Scenario
    <3> QED
      BY <1>3, <3>1, <3>2 DEF Scenario
  <2>2. Answer(r)' = Answer(r)
    BY <1>6, <2>1 DEF CopyGeneration, Goto, Answer, BankTypes
  <2> QED
    BY <1>1, <1>2, <2>2
<1>7. CASE \/ LoadActive(r) \/ PinBank(r) \/ (Recheck(r) /\ active_index # index[r])
           \/ (\E f \in Fields : CopyField(r, f)) \/ (Unpin(r) /\ pc[r] = "backout")
  <2>1. Answer(r)' = Answer(r)
    BY <1>1, <1>7 DEF LoadActive, PinBank, Recheck, CopyField, Unpin, Goto, Answer, BankTypes
  <2> QED
    BY <1>1, <1>2, <2>1
<1>8. Unpin(r) => pc[r] = "unpin" \/ pc[r] = "backout"
  BY DEF Unpin
<1> QED
  BY <1>4, <1>5, <1>6, <1>7, <1>8 DEF Snapshot

\* SvLiveSignalBank is one atomic register for any number of readers, banks,
\* members and publishes: a snapshot returns, under its own generation, the
\* scenario that was active at one instant of the call (ImplementsRegister).
THEOREM BankImplementsRegister == BankSpec => ImplementsRegister
<1>1. BankInit => Register!RegisterInit
  <2> SUFFICES ASSUME BankInit PROVE Register!RegisterInit
    OBVIOUS
  <2>1. 0 \in Banks
    BY BankAssumption DEF Banks
  <2> QED
    BY <2>1 DEF BankInit, Register!RegisterInit, Initial, Answer
<1>2. BankInv /\ [BankNext]_bankVars => [Register!RegisterNext]_(Register!registerVars)
  <2> SUFFICES ASSUME BankInv, [BankNext]_bankVars
               PROVE  [Register!RegisterNext]_(Register!registerVars)
    OBVIOUS
  <2>1. CASE PublishStep
    BY <2>1, PublishSimulates DEF Register!RegisterNext, Register!registerVars
  <2>2. ASSUME NEW r \in Readers, Snapshot(r)
        PROVE  [Register!RegisterNext]_(Register!registerVars)
    BY <2>2, SnapshotSimulates DEF Register!RegisterNext, Register!registerVars
  <2>3. CASE UNCHANGED bankVars
    BY <2>3 DEF bankVars, readerVars, Register!registerVars, Answer
  <2> QED
    BY <2>1, <2>2, <2>3 DEF BankNext
<1> QED
  BY <1>1, <1>2, BankInvariant, PTL DEF BankSpec, ImplementsRegister, Register!RegisterSpec

-----------------------------------------------------------------------------
(* publish() finds a bank.                                                 *)

\* Readers that may still be found on a bank the scan has yet to look at.  A
\* reader that begins anew loads the active bank, which stays the same.
Ahead ==
  {r \in Readers : pc[r] # "idle" /\ index[r] # writer.current /\ index[r] >= writer.next}

\* Banks that were found pinned.
Passed == IF writer.current < writer.next THEN writer.next - 1 ELSE writer.next

\* Every bank that was found pinned has used up a reader.
ReadersUsedUp == writer.pc = "scan" => Passed + Cardinality(Ahead) <= Cardinality(Readers)

\* Sets of readers are finite, and what leaves one makes it smaller.
LEMMA SmallerSets ==
  ASSUME NEW S \in SUBSET Readers, NEW T \in SUBSET S
  PROVE  /\ Cardinality(S) \in Nat /\ Cardinality(T) \in Nat
         /\ Cardinality(T) <= Cardinality(S)
         /\ Cardinality(Readers) \in Nat /\ Cardinality(S) <= Cardinality(Readers)
         /\ \A r \in S : r \notin T => Cardinality(T) <= Cardinality(S) - 1
<1>1. IsFiniteSet(Readers) /\ IsFiniteSet(S) /\ IsFiniteSet(T)
  BY BankAssumption, FS_Subset
<1>2. /\ Cardinality(S) \in Nat /\ Cardinality(T) \in Nat /\ Cardinality(T) <= Cardinality(S)
      /\ Cardinality(Readers) \in Nat /\ Cardinality(S) <= Cardinality(Readers)
  BY <1>1, FS_Subset, FS_CardinalityType
<1>3. ASSUME NEW r \in S, r \notin T PROVE Cardinality(T) <= Cardinality(S) - 1
  <2>1. IsFiniteSet(S \ {r}) /\ Cardinality(S \ {r}) = Cardinality(S) - 1
    BY <1>1, FS_RemoveElement
  <2>2. T \subseteq S \ {r}
    BY <1>3
  <2> QED
    BY <2>1, <2>2, FS_Subset
<1> QED
  BY <1>2, <1>3

\* A bank the scan cannot take is the active one or uses a reader up.
LEMMA BlockedBy ==
  ASSUME BankInv, writer.pc = "scan", ~FreeBank(writer.next), writer.next # writer.current
  PROVE  \E r \in Ahead : index[r] = writer.next
<1>1. writer.next \in Banks /\ writer.next \in Int
  BY BankAssumption DEF BankInv, BankTypes, Banks
<1>2. Cardinality(Pins(writer.next)) # 0
  BY <1>1 DEF FreeBank, BankInv, PinsCounted
<1>3. PICK r : r \in Pins(writer.next)
  BY <1>2, FS_EmptySet
<1> QED
  BY <1>1, <1>3 DEF Pins, Pinned, Ahead

LEMMA UsedUpKept ==
  ASSUME BankInv, ReadersUsedUp, [BankNext]_bankVars
  PROVE  ReadersUsedUp'
<1> SUFFICES ASSUME writer'.pc = "scan"
             PROVE  Passed' + Cardinality(Ahead') <= Cardinality(Readers)
  BY DEF ReadersUsedUp
<1>1. Ahead \subseteq Readers /\ Ahead' \subseteq Readers
  BY DEF Ahead
<1>2. ASSUME writer.pc = "scan", writer' = writer, Ahead' \subseteq Ahead
      PROVE  Passed' + Cardinality(Ahead') <= Cardinality(Readers)
  <2>1. Passed' = Passed /\ Passed \in Int
    BY <1>2, BankAssumption DEF Passed, BankInv, BankTypes, Banks
  <2>2. /\ Cardinality(Ahead') <= Cardinality(Ahead)
        /\ Cardinality(Ahead') \in Nat /\ Cardinality(Ahead) \in Nat
        /\ Cardinality(Readers) \in Nat
    BY <1>1, <1>2, SmallerSets
  <2>3. Passed + Cardinality(Ahead) <= Cardinality(Readers)
    BY <1>2 DEF ReadersUsedUp
  <2> QED
    BY <2>1, <2>2, <2>3
<1>3. ASSUME NEW r \in Readers, Snapshot(r)
      PROVE  Passed' + Cardinality(Ahead') <= Cardinality(Readers)
  <2>1. writer' = writer /\ active_index' = active_index
    BY <1>3 DEF Snapshot, LoadActive, PinBank, Recheck, CopyField, CopyGeneration, Unpin
  <2>2. writer.pc = "scan" /\ writer.current = active_index
    BY <2>1 DEF BankInv, WriterExclusive
  <2>3. \A s \in Readers \ {r} : pc'[s] = pc[s] /\ index'[s] = index[s]
    BY <1>3 DEF Snapshot, LoadActive, PinBank, Recheck, CopyField, CopyGeneration, Unpin,
                Goto, BankInv, BankTypes
  <2>4. \/ pc'[r] = "idle" \/ index'[r] = active_index
        \/ pc[r] # "idle" /\ index'[r] = index[r]
    BY <1>3 DEF Snapshot, LoadActive, PinBank, Recheck, CopyField, CopyGeneration, Unpin,
                Goto, BankInv, BankTypes
  <2>5. Ahead' \subseteq Ahead
    BY <2>1, <2>2, <2>3, <2>4 DEF Ahead
  <2> QED
    BY <1>2, <2>1, <2>2, <2>5
<1>4. ASSUME NEW s \in Requests, PublishBegin(s)
      PROVE  Passed' + Cardinality(Ahead') <= Cardinality(Readers)
  <2>1. writer'.next = 0 /\ writer'.current = active_index
    BY <1>4 DEF PublishBegin
  <2>2. Passed' = 0
    BY <2>1, BankAssumption DEF Passed, BankInv, BankTypes, Banks
  <2>3. Cardinality(Ahead') \in Nat /\ Cardinality(Ahead') <= Cardinality(Readers)
    BY <1>1, SmallerSets
  <2> QED
    BY <2>2, <2>3
<1>5. ASSUME Scan PROVE Passed' + Cardinality(Ahead') <= Cardinality(Readers)
  <2>1. /\ writer.pc = "scan" /\ ~FreeBank(writer.next)
        /\ writer'.next = writer.next + 1 /\ writer'.current = writer.current
        /\ UNCHANGED <<pc, index>>
    BY <1>5 DEF Scan, NoPublish, BankInv, BankTypes, readerVars
  <2>2. /\ writer.next \in Int /\ writer.current \in Int /\ \A r \in Readers : index[r] \in Int
    BY BankAssumption DEF BankInv, BankTypes, Banks
  <2>3. Ahead' \subseteq Ahead /\ \A r \in Ahead' : index[r] # writer.next
    BY <2>1, <2>2 DEF Ahead
  <2>4. /\ Cardinality(Ahead) \in Nat /\ Cardinality(Ahead') \in Nat
        /\ Cardinality(Ahead') <= Cardinality(Ahead) /\ Cardinality(Readers) \in Nat
        /\ \A r \in Ahead : r \notin Ahead' => Cardinality(Ahead') <= Cardinality(Ahead) - 1
    BY <1>1, <2>3, SmallerSets
  <2>5. Passed + Cardinality(Ahead) <= Cardinality(Readers)
    BY <2>1 DEF ReadersUsedUp
  <2>6. CASE writer.next = writer.current
    <3>1. Passed' = Passed /\ Passed \in Int
      BY <2>1, <2>2, <2>6 DEF Passed
    <3> QED
      BY <2>4, <2>5, <3>1
  <2>7. CASE writer.next # writer.current
    <3>1. Passed' = Passed + 1 /\ Passed \in Int
      BY <2>1, <2>2, <2>7 DEF Passed
    <3>2. Cardinality(Ahead') <= Cardinality(Ahead) - 1
      BY <2>1, <2>3, <2>4, <2>7, BlockedBy
    <3> QED
      BY <2>4, <2>5, <3>1, <3>2
  <2> QED
    BY <2>6, <2>7
<1>6. CASE UNCHANGED bankVars
  <2>1. writer' = writer /\ pc' = pc /\ index' = index
    BY <1>6 DEF bankVars, readerVars
  <2>2. Ahead' = Ahead /\ writer.pc = "scan"
    BY <2>1 DEF Ahead
  <2> QED
    BY <1>2, <2>1, <2>2
<1>7. ASSUME (\E f \in Fields : FillField(f)) \/ Stamp \/ Activate PROVE FALSE
  BY <1>7 DEF FillField, Stamp, Activate, NoPublish, BankInv, BankTypes
<1> QED
  BY <1>3, <1>4, <1>5, <1>6, <1>7 DEF BankNext, PublishStep

\* publish() always finds a bank when there are two banks more than readers
\* (PublishSucceeds), wherever their pins move during its scan.
THEOREM PublishAlwaysSucceeds == BankSpec => PublishSucceeds
<1>1. BankInit => ReadersUsedUp
  BY DEF BankInit, NoPublish, ReadersUsedUp
<1>2. BankInv /\ ReadersUsedUp /\ [BankNext]_bankVars => ReadersUsedUp'
  BY UsedUpKept
<1>3. ASSUME BankInv, ReadersUsedUp, [BankNext]_bankVars,
             Cardinality(Readers) + 2 <= BankCount,
             writer.pc = "scan", writer'.pc = "idle"
      PROVE  FALSE
  <2>1. Scan
    BY <1>3 DEF BankNext, PublishStep, PublishBegin, FillField, Stamp, Activate, Snapshot,
                LoadActive, PinBank, Recheck, CopyField, CopyGeneration, Unpin, bankVars
  <2>2. /\ ~FreeBank(writer.next) /\ writer.next + 1 \notin Banks
        /\ writer.next \in Banks /\ writer.current \in Banks
    BY <1>3, <2>1 DEF Scan, BankInv, BankTypes
  <2>3. /\ writer.next = BankCount - 1 /\ writer.next \in Nat
        /\ writer.current \in Int /\ writer.current <= writer.next
    BY <2>2, BankAssumption DEF Banks
  <2>4. Ahead \subseteq Readers
    BY DEF Ahead
  <2>5. /\ Cardinality(Ahead) \in Nat /\ Cardinality(Readers) \in Nat
        /\ \A r \in Ahead : Cardinality({}) <= Cardinality(Ahead) - 1
        /\ Cardinality({}) = 0
    BY <2>4, SmallerSets, FS_EmptySet
  <2>6. Passed + Cardinality(Ahead) <= Cardinality(Readers)
    BY <1>3 DEF ReadersUsedUp
  <2>7. CASE writer.next = writer.current
    BY <1>3, <2>3, <2>5, <2>6, <2>7, BankAssumption DEF Passed
  <2>8. CASE writer.next # writer.current
    <3>1. Cardinality(Ahead) >= 1
      BY <1>3, <2>2, <2>5, <2>8, BlockedBy
    <3> QED
      BY <1>3, <2>3, <2>5, <2>6, <2>8, <3>1, BankAssumption DEF Passed
  <2> QED
    BY <2>7, <2>8
<1>4. BankInv /\ ReadersUsedUp /\ [BankNext]_bankVars
        => [Cardinality(Readers) + 2 <= BankCount =>
              ~(writer.pc = "scan" /\ writer'.pc = "idle")]_bankVars
  BY <1>3
<1> QED
  BY <1>1, <1>2, <1>4, BankInvariant, PTL DEF BankSpec, PublishSucceeds

=============================================================================
