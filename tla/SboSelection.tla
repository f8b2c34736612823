---------------------------- MODULE SboSelection ----------------------------
(***************************************************************************)
(* Select-before-operate on the server (static_direct_control): one        *)
(* command object, selected by at most one association at a time.  What    *)
(* all associations share is three atomics: the process value, the id of   *)
(* the association that holds the selection and the deadline of that       *)
(* selection.  Everything else belongs to one association.                 *)
(*                                                                         *)
(* static_ied_server gives every association a thread of its own, so the   *)
(* two selection atomics are read and written in separate steps of several *)
(* threads: pc[a] is the next atomic access of association a's call.  The  *)
(* interleavings are sequentially consistent.  A host that serves all its  *)
(* associations from one loop runs one call at a time: Serialized.         *)
(*                                                                         *)
(* A command stands for the fields a selection is compared by (value,      *)
(* origin, ctlNum, Test, Check; Cancel carries no Check, so the commands   *)
(* of an instance do not differ in Check alone).  Malformed and invalid    *)
(* commands, and a backend that refuses the value, change nothing but a    *)
(* diagnostic counter and are left out, and so are the two direct control  *)
(* models, which need no selection.                                        *)
(***************************************************************************)
EXTENDS Integers

CONSTANTS
  Associations, Commands,
  TestCommands,  \* those with Test set: accepted, never applied
  None,          \* selected_association_id 0, or no command
  Enhanced,      \* TRUE for sbo_enhanced, FALSE for sbo_normal
  Hosts,         \* the kinds of host considered: "threads", "loop"
  Timeout,       \* sbo_timeout_ms
  MaxAttempts,   \* retries of acquire_selection
  TimeMax        \* bound on the clock

ASSUME SelectionAssumption ==
  /\ None \notin Associations /\ None \notin Commands
  /\ TestCommands \subseteq Commands
  /\ Enhanced \in BOOLEAN /\ Hosts \subseteq {"threads", "loop"}
  /\ Timeout \in Nat \ {0} /\ MaxAttempts \in Nat \ {0} /\ TimeMax \in Nat

VARIABLES
  host,                  \* a thread per association, or one loop for all
  value, selected_association_id, selection_deadline,   \* shared atomics
  now,
  selected_command,      \* association -> the command it selected (enhanced)
  pending_termination,   \* association -> an accepted Oper awaits its termination
  pc, call,              \* association -> next access, and the call's registers
  granted                \* association -> the deadline of the selection it was
                         \* told it holds, 0 for none (observer)

sharedVars == <<value, selected_association_id, selection_deadline>>
localVars == <<selected_command, pending_termination>>
selectionVars == <<sharedVars, localVars, now, pc, call, granted, host>>

\* The registers of a call: what was asked, the time and owner it read.
NoCall == [op |-> "none", command |-> None, start |-> 0, owner |-> None, attempt |-> 0]

Accesses == {"load_owner", "load_deadline", "evict", "clear_evicted", "claim",
             "store_deadline", "check_owner", "check_deadline", "apply",
             "release", "clear_released"}

SelectionInit ==
  /\ host \in Hosts
  /\ value = None /\ selected_association_id = None /\ selection_deadline = 0
  /\ now = 0
  /\ selected_command = [a \in Associations |-> None]
  /\ pending_termination = [a \in Associations |-> FALSE]
  /\ pc = [a \in Associations |-> "idle"]
  /\ call = [a \in Associations |-> NoCall]
  /\ granted = [a \in Associations |-> 0]

-----------------------------------------------------------------------------
(* Calls and their ends.                                                   *)

\* One host loop runs the calls one at a time.
Serialized == host = "loop"

Idle(a) == pc[a] = "idle" /\ (Serialized => \A b \in Associations : pc[b] \in {"idle", "closed"})

Goto(a, access) == pc' = [pc EXCEPT ![a] = access]

Begin(a, op, command, access) ==
  /\ Idle(a)
  /\ Goto(a, access)
  /\ call' = [call EXCEPT ![a] = [NoCall EXCEPT !.op = op, !.command = command,
                                                !.start = now]]
  /\ UNCHANGED <<sharedVars, localVars, now, granted>>

Return(a) ==
  /\ Goto(a, IF call[a].op = "close" THEN "closed" ELSE "idle")
  /\ call' = [call EXCEPT ![a] = NoCall]

\* SBO Read, or SBOw Write with the command it carries.
Select(a, command) == Begin(a, "select", command, "load_owner")
Operate(a, command) == Begin(a, "operate", command, "check_owner")
Cancel(a, command) == Begin(a, "cancel", command, "check_owner")

\* mms_static_control_on_association_closed
Close(a) ==
  /\ Idle(a)
  /\ Goto(a, "release")
  /\ call' = [call EXCEPT ![a] = [NoCall EXCEPT !.op = "close"]]
  /\ pending_termination' = [pending_termination EXCEPT ![a] = FALSE]
  /\ UNCHANGED <<sharedVars, selected_command, now, granted>>

-----------------------------------------------------------------------------
(* acquire_selection, one atomic access per step.                          *)

Granted(a) ==
  /\ selected_command' = [selected_command EXCEPT ![a] = IF Enhanced THEN call[a].command ELSE @]
  /\ granted' = [granted EXCEPT ![a] = call[a].start + Timeout]

Denied(a) == Return(a) /\ UNCHANGED <<sharedVars, localVars, granted>>

\* Mutant: the retries are not bounded.
BugRetry(a) == Goto(a, "load_owner") /\ UNCHANGED call
Retry(a) ==
  IF call[a].attempt + 1 < MaxAttempts
  THEN Goto(a, "load_owner") /\ call' = [call EXCEPT ![a].attempt = @ + 1]
  ELSE Return(a)

LoadOwner(a) ==
  /\ pc[a] = "load_owner"
  /\ call' = [call EXCEPT ![a].owner = selected_association_id]
  /\ Goto(a, CASE selected_association_id = a -> "store_deadline"
               [] selected_association_id = None -> "claim"
               [] OTHER -> "load_deadline")
  /\ UNCHANGED <<sharedVars, localVars, granted>>

\* Mutant: a selection counts as expired as long as it has not reached its deadline.
BugSelectionExpired(time) == selection_deadline # 0 /\ time < selection_deadline
SelectionExpired(time) == selection_deadline # 0 /\ time >= selection_deadline

LoadDeadline(a) ==
  /\ pc[a] = "load_deadline"
  /\ IF SelectionExpired(call[a].start)
     THEN Goto(a, "evict") /\ UNCHANGED <<call, sharedVars, localVars, granted>>
     ELSE Denied(a)

\* compare_exchange of the owner that was read with "nobody".
Evict(a) ==
  /\ pc[a] = "evict"
  /\ IF selected_association_id = call[a].owner
     THEN /\ selected_association_id' = None
          /\ Goto(a, "clear_evicted") /\ UNCHANGED call
     ELSE Retry(a) /\ UNCHANGED selected_association_id
  /\ UNCHANGED <<value, selection_deadline, localVars, granted>>

ClearEvicted(a) ==
  /\ pc[a] = "clear_evicted"
  /\ selection_deadline' = 0
  /\ Retry(a)
  /\ UNCHANGED <<value, selected_association_id, localVars, granted>>

Claim(a) ==
  /\ pc[a] = "claim"
  /\ IF selected_association_id = None
     THEN /\ selected_association_id' = a
          /\ Goto(a, "store_deadline") /\ UNCHANGED call
     ELSE Retry(a) /\ UNCHANGED selected_association_id
  /\ UNCHANGED <<value, selection_deadline, localVars, granted>>

\* Mutant: the deadline is stored by a renewal only.
BugStoreDeadline(a) ==
  /\ pc[a] = "store_deadline"
  /\ selection_deadline' = IF call[a].owner = a THEN call[a].start + Timeout
                           ELSE selection_deadline
  /\ Granted(a)
  /\ Return(a)
  /\ UNCHANGED <<value, selected_association_id, pending_termination>>

\* The last access of a claim, and of a renewal by the association that
\* found itself to be the owner.
StoreDeadline(a) ==
  /\ pc[a] = "store_deadline"
  /\ selection_deadline' = call[a].start + Timeout
  /\ Granted(a)
  /\ Return(a)
  /\ UNCHANGED <<value, selected_association_id, pending_termination>>

-----------------------------------------------------------------------------
(* owns_live_selection, then what Oper and Cancel do with the answer.      *)

CheckOwner(a) ==
  /\ pc[a] = "check_owner"
  /\ IF selected_association_id = a
     THEN /\ Goto(a, "check_deadline")
          /\ call' = [call EXCEPT ![a].start = now]
          /\ UNCHANGED <<sharedVars, localVars, granted>>
     ELSE Denied(a)

\* The checks that follow a live selection.
Accepts(a) ==
  /\ Enhanced => selected_command[a] = call[a].command
  /\ (Enhanced /\ call[a].op = "operate") => ~pending_termination[a]

CheckDeadline(a) ==
  /\ pc[a] = "check_deadline"
  /\ \/ /\ SelectionExpired(call[a].start)
        /\ Goto(a, "release")
        /\ UNCHANGED <<call, sharedVars, localVars, granted>>
     \/ /\ ~SelectionExpired(call[a].start) /\ Accepts(a)
        /\ Goto(a, IF call[a].op = "operate" THEN "apply" ELSE "release")
        /\ UNCHANGED <<call, sharedVars, localVars, granted>>
     \/ /\ ~SelectionExpired(call[a].start) /\ ~Accepts(a)
        /\ Denied(a)

\* Mutant: Oper keeps the selection it used.
BugApply(a) ==
  /\ pc[a] = "apply"
  /\ value' = IF call[a].command \in TestCommands THEN value ELSE call[a].command
  /\ pending_termination' = [pending_termination EXCEPT ![a] = Enhanced]
  /\ granted' = [granted EXCEPT ![a] = 0]
  /\ Return(a)
  /\ UNCHANGED <<selected_association_id, selection_deadline, selected_command>>

\* Oper applies the command and uses the selection up.
Apply(a) ==
  /\ pc[a] = "apply"
  /\ value' = IF call[a].command \in TestCommands THEN value ELSE call[a].command
  /\ pending_termination' = [pending_termination EXCEPT ![a] = Enhanced]
  /\ granted' = [granted EXCEPT ![a] = 0]
  /\ Goto(a, "release")
  /\ UNCHANGED <<call, selected_association_id, selection_deadline, selected_command>>

-----------------------------------------------------------------------------
(* release_selection.                                                      *)

\* Mutant: only a live grant is released.
BugReleaseOwner(a) ==
  /\ pc[a] = "release"
  /\ granted' = [granted EXCEPT ![a] = 0]
  /\ IF selected_association_id = a /\ ~SelectionExpired(now)
     THEN /\ selected_association_id' = None
          /\ Goto(a, "clear_released")
          /\ UNCHANGED <<call, selected_command>>
     ELSE /\ selected_command' = [selected_command EXCEPT ![a] = None]
          /\ Return(a)
          /\ UNCHANGED selected_association_id
  /\ UNCHANGED <<value, selection_deadline, pending_termination>>

ReleaseOwner(a) ==
  /\ pc[a] = "release"
  /\ granted' = [granted EXCEPT ![a] = 0]
  /\ IF selected_association_id = a
     THEN /\ selected_association_id' = None
          /\ Goto(a, "clear_released")
          /\ UNCHANGED <<call, selected_command>>
     ELSE /\ selected_command' = [selected_command EXCEPT ![a] = None]
          /\ Return(a)
          /\ UNCHANGED selected_association_id
  /\ UNCHANGED <<value, selection_deadline, pending_termination>>

ClearReleased(a) ==
  /\ pc[a] = "clear_released"
  /\ selection_deadline' = 0
  /\ selected_command' = [selected_command EXCEPT ![a] = None]
  /\ Return(a)
  /\ UNCHANGED <<value, selected_association_id, pending_termination, granted>>

-----------------------------------------------------------------------------
\* The host sends CommandTermination between two calls of the association.
SendTermination(a) ==
  /\ Idle(a) /\ pending_termination[a]
  /\ pending_termination' = [pending_termination EXCEPT ![a] = FALSE]
  /\ UNCHANGED <<sharedVars, selected_command, now, pc, call, granted>>

Clock ==
  /\ now < TimeMax
  /\ now' = now + 1
  /\ UNCHANGED <<sharedVars, localVars, pc, call, granted>>

Access(a) ==
  \/ LoadOwner(a) \/ LoadDeadline(a) \/ Evict(a) \/ ClearEvicted(a) \/ Claim(a)
  \/ StoreDeadline(a) \/ CheckOwner(a) \/ CheckDeadline(a) \/ Apply(a)
  \/ ReleaseOwner(a) \/ ClearReleased(a)

SelectionStep ==
  \/ \E a \in Associations :
       \/ \E c \in Commands : Select(a, c) \/ Operate(a, c) \/ Cancel(a, c)
       \/ Close(a) \/ SendTermination(a)
       \/ Access(a) /\ UNCHANGED now
  \/ Clock

SelectionNext == SelectionStep /\ UNCHANGED host

SelectionSpec == SelectionInit /\ [][SelectionNext]_selectionVars

\* Every call runs to its end: a thread, or the host loop, keeps going.
FairSelectionSpec ==
  /\ SelectionSpec
  /\ \A a \in Associations : WF_selectionVars(Access(a) /\ UNCHANGED <<now, host>>)

-----------------------------------------------------------------------------
(* Properties.                                                             *)

SelectionTypeOK ==
  /\ host \in Hosts
  /\ value \in Commands \cup {None}
  /\ selected_association_id \in Associations \cup {None}
  /\ selection_deadline \in 0..(TimeMax + Timeout) /\ now \in 0..TimeMax
  /\ selected_command \in [Associations -> Commands \cup {None}]
  /\ pending_termination \in [Associations -> BOOLEAN]
  /\ pc \in [Associations -> Accesses \cup {"idle", "closed"}]
  /\ call \in [Associations ->
       [op : {"none", "select", "operate", "cancel", "close"},
        command : Commands \cup {None}, start : 0..TimeMax,
        owner : Associations \cup {None}, attempt : 0..(MaxAttempts - 1)]]
  /\ granted \in [Associations -> 0..(TimeMax + Timeout)]

\* However the threads interleave, a command is applied only for an
\* association that was told it holds the selection and has not used,
\* cancelled or lost it by its own call since: one Select, one Oper.
OneOperatePerSelect ==
  \A a \in Associations : pc[a] = "apply" => granted[a] # 0

\* Once an association is closed, it holds no selection, and no call still
\* running in another thread gives it one: a lost client cannot keep the
\* object selected.
ClosedReleases ==
  \A a \in Associations : pc[a] = "closed" => selected_association_id # a

\* Every Select is answered, however often the other associations take and
\* give up the selection meanwhile.
SelectAnswered ==
  \A a \in Associations :
    (pc[a] = "load_owner") ~> (pc[a] \in {"idle", "closed"})

Quiet == \A a \in Associations : pc[a] \in {"idle", "closed"}

\* An association that was told it is selected holds the selection until it
\* gives it up or its deadline passes: "contention returns an empty
\* VisibleString without mutating the current owner"
\* (static_direct_control.hpp).  Two clients of one loop are never both
\* told so; with a thread per association the code does not promise it.
GrantHonoured ==
  (Serialized /\ Quiet) =>
    \A a \in Associations : now < granted[a] => selected_association_id = a

\* A selection expires: sbo_normal_enforces_owner_cancel_and_timeout
\* (test_mms_static_direct_control.cpp) takes a selection over after its
\* deadline, which needs a deadline, and one at most Timeout away.
SelectionTimesOut ==
  (Quiet /\ selected_association_id # None) =>
    selection_deadline \in 1..(now + Timeout)

\* The same for a host that runs one call at a time.
LoopSelectionTimesOut == Serialized => SelectionTimesOut

=============================================================================
