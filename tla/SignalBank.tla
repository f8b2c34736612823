----------------------------- MODULE SignalBank -----------------------------
(***************************************************************************)
(* SvLiveSignalBank: the live signal scenario of the sampled-value         *)
(* injector, handed from the control task to the 4 kHz publisher and to    *)
(* diagnostics without a lock.  The scenario lives in one of several       *)
(* banks, active_index_ names it, and every bank counts the readers that   *)
(* have pinned it.  snapshot() pins, checks again that the bank is active, *)
(* copies and unpins; publish() fills a bank that is neither active nor    *)
(* pinned and then makes it active.                                        *)
(*                                                                         *)
(* pc names the next atomic access of a task; the copies in between are    *)
(* plain memory accesses, one member per step in any order.  The atomics   *)
(* are sequentially consistent.  What a member holds is the request it     *)
(* came from, so that a mixture of two scenarios shows.  validate() looks  *)
(* at the request alone, and one it refuses changes nothing.               *)
(***************************************************************************)
EXTENDS Integers, FiniteSets

CONSTANTS
  Readers,         \* tasks that call snapshot()
  Fields,          \* the members of SvLiveSignalState but its generation
  Requests,        \* scenarios the control task publishes
  Default,         \* default_state()
  BankCount,       \* banks_.size()
  MaxGeneration,   \* bound on the publishes of a behaviour
  None

Banks == 0..(BankCount - 1)
Contents == {[f \in Fields |-> s] : s \in Requests}
Scenario == [data : [Fields -> Requests], generation : Nat]

ASSUME BankAssumption ==
  /\ IsFiniteSet(Readers) /\ IsFiniteSet(Fields)
  /\ Default \in Requests
  /\ BankCount \in Nat \ {0} /\ MaxGeneration \in Nat
  /\ None \notin Scenario

VARIABLES
  banks,           \* bank -> the scenario in it
  reader_counts,   \* bank -> number of pins
  active_index,
  pc, index,       \* reader -> next access, and the bank it loaded
  copy, copied,    \* reader -> its copy, and the members copied so far
  writer           \* the publish call: its next access and its registers

readerVars == <<pc, index, copy, copied>>
bankVars == <<banks, reader_counts, active_index, readerVars, writer>>

Initial == [data |-> [f \in Fields |-> Default], generation |-> 0]
NoPublish == [pc |-> "idle", request |-> Default, current |-> 0, next |-> 0,
              filled |-> {}]

BankInit ==
  /\ banks = [b \in Banks |-> Initial]
  /\ reader_counts = [b \in Banks |-> 0]
  /\ active_index = 0
  /\ pc = [r \in Readers |-> "idle"]
  /\ index = [r \in Readers |-> 0]
  /\ copy = [r \in Readers |-> Initial]
  /\ copied = [r \in Readers |-> {}]
  /\ writer = NoPublish

-----------------------------------------------------------------------------
(* snapshot().                                                             *)

Goto(r, access) == pc' = [pc EXCEPT ![r] = access]

\* The call, and every retry, begins by loading the active index.
LoadActive(r) ==
  /\ pc[r] = "idle"
  /\ index' = [index EXCEPT ![r] = active_index]
  /\ Goto(r, "pin")
  /\ UNCHANGED <<banks, reader_counts, active_index, copy, copied, writer>>

PinBank(r) ==
  /\ pc[r] = "pin"
  /\ reader_counts' = [reader_counts EXCEPT ![index[r]] = @ + 1]
  /\ Goto(r, "recheck")
  /\ UNCHANGED <<banks, active_index, index, copy, copied, writer>>

\* Mutant: the bank is not checked again after it was pinned.
BugRecheck(r) ==
  /\ pc[r] = "recheck"
  /\ Goto(r, "copy")
  /\ UNCHANGED <<banks, reader_counts, active_index, index, copy, copied, writer>>

Recheck(r) ==
  /\ pc[r] = "recheck"
  /\ Goto(r, IF active_index = index[r] THEN "copy" ELSE "backout")
  /\ UNCHANGED <<banks, reader_counts, active_index, index, copy, copied, writer>>

CopyField(r, f) ==
  /\ pc[r] = "copy" /\ f \notin copied[r]
  /\ copy' = [copy EXCEPT ![r].data[f] = banks[index[r]].data[f]]
  /\ copied' = [copied EXCEPT ![r] = @ \cup {f}]
  /\ UNCHANGED <<banks, reader_counts, active_index, pc, index, writer>>

CopyGeneration(r) ==
  /\ pc[r] = "copy" /\ copied[r] = Fields
  /\ copy' = [copy EXCEPT ![r].generation = banks[index[r]].generation]
  /\ Goto(r, "unpin")
  /\ UNCHANGED <<banks, reader_counts, active_index, index, copied, writer>>

\* The pin is given up, and the copy returned or the loop begun again; either
\* way the registers are dead.
Unpin(r) ==
  /\ pc[r] \in {"unpin", "backout"}
  /\ reader_counts' = [reader_counts EXCEPT ![index[r]] = @ - 1]
  /\ index' = [index EXCEPT ![r] = 0]
  /\ copy' = [copy EXCEPT ![r] = Initial]
  /\ copied' = [copied EXCEPT ![r] = {}]
  /\ Goto(r, "idle")
  /\ UNCHANGED <<banks, active_index, writer>>

Snapshot(r) ==
  \/ LoadActive(r) \/ PinBank(r) \/ Recheck(r)
  \/ \E f \in Fields : CopyField(r, f)
  \/ CopyGeneration(r) \/ Unpin(r)

-----------------------------------------------------------------------------
(* publish(), called by the one control task.                              *)

PublishBegin(s) ==
  /\ writer.pc = "idle" /\ banks[active_index].generation < MaxGeneration
  /\ writer' = [pc |-> "scan", request |-> s, current |-> active_index,
                next |-> 0, filled |-> {}]
  /\ UNCHANGED <<banks, reader_counts, active_index, readerVars>>

\* Mutant: the last bank is never chosen, which is what a sentinel inside the
\* range of banks would do.
BugFreeLast(b) == b # writer.current /\ reader_counts[b] = 0 /\ b # BankCount - 1
FreeBank(b) == b # writer.current /\ reader_counts[b] = 0

\* One turn of the loop over the banks: the first free one is taken; with none
\* publish() returns false.
Scan ==
  /\ writer.pc = "scan"
  /\ writer' = IF FreeBank(writer.next) THEN [writer EXCEPT !.pc = "fill"]
               ELSE IF writer.next + 1 \in Banks THEN [writer EXCEPT !.next = @ + 1]
               ELSE NoPublish
  /\ UNCHANGED <<banks, reader_counts, active_index, readerVars>>

\* banks_[next] = requested; the generation copied with it is overwritten next.
FillField(f) ==
  /\ writer.pc = "fill" /\ f \notin writer.filled
  /\ banks' = [banks EXCEPT ![writer.next].data[f] = writer.request]
  /\ writer' = [writer EXCEPT !.filled = @ \cup {f}]
  /\ UNCHANGED <<reader_counts, active_index, readerVars>>

\* Mutant: the generation goes on from that of the bank that is overwritten.
BugStamp ==
  /\ writer.pc = "fill" /\ writer.filled = Fields
  /\ banks' = [banks EXCEPT ![writer.next].generation = @ + 1]
  /\ writer' = [writer EXCEPT !.pc = "activate"]
  /\ UNCHANGED <<reader_counts, active_index, readerVars>>

Stamp ==
  /\ writer.pc = "fill" /\ writer.filled = Fields
  /\ banks' = [banks EXCEPT ![writer.next].generation =
                              banks[writer.current].generation + 1]
  /\ writer' = [writer EXCEPT !.pc = "activate"]
  /\ UNCHANGED <<reader_counts, active_index, readerVars>>

Activate ==
  /\ writer.pc = "activate"
  /\ active_index' = writer.next
  /\ writer' = NoPublish
  /\ UNCHANGED <<banks, reader_counts, readerVars>>

PublishStep ==
  \/ \E s \in Requests : PublishBegin(s)
  \/ Scan \/ (\E f \in Fields : FillField(f)) \/ Stamp \/ Activate

BankNext == PublishStep \/ \E r \in Readers : Snapshot(r)

BankSpec == BankInit /\ [][BankNext]_bankVars

-----------------------------------------------------------------------------
(* Properties.                                                             *)

\* A snapshot never mixes two scenarios, wherever a publish falls between its
\* accesses: "4kHz publisher" and diagnostics never see a torn state
\* (live_signal_state.hpp, comment on snapshot()).
WholeSnapshot ==
  \A r \in Readers : pc[r] = "unpin" => copy[r].data \in Contents

\* publish() finds a bank as long as two banks more than there are readers
\* exist ("current + up to two concurrently pinned + one spare"), although the
\* readers move their pins while it scans.
PublishSucceeds ==
  [][Cardinality(Readers) + 2 <= BankCount =>
       ~(writer.pc = "scan" /\ writer'.pc = "idle")]_bankVars

\* The snapshot takes effect when the second check finds the bank active.
Answer(r) ==
  CASE pc[r] = "copy" -> banks[index[r]]
    [] pc[r] = "unpin" -> copy[r]
    [] OTHER -> None

Register == INSTANCE SignalRegister WITH
              Default <- Initial.data,
              latest <- banks[active_index],
              answer <- [r \in Readers |-> Answer(r)]

\* The banks, the pins and the member-wise copies amount to one atomic
\* register: a snapshot returns, whole and under its own generation, the
\* scenario that was active at one instant during the call, never an older one.
ImplementsRegister == Register!RegisterSpec

=============================================================================
