--------------------------- MODULE ControlSession ---------------------------
(***************************************************************************)
(* A client's control of one object (control_session.cpp) over its MMS     *)
(* association (mms_association_control_transport.cpp, the confirmed       *)
(* exchange and the report queue of association_runtime.cpp).  Calls run   *)
(* on one worker thread (MmsControlController.cpp); pc says what the       *)
(* running call waits for: the answer of an exchange, or a report.         *)
(*                                                                         *)
(* While a call waits, whatever else arrives is routed: information        *)
(* reports go to a bounded queue that drops its oldest entry.  A report    *)
(* that reached the host but was not read yet is still in incoming.        *)
(*                                                                         *)
(* The control number is never chosen by the caller, every value fits the  *)
(* discovered type and the object has a Cancel.                            *)
(*                                                                         *)
(* A Reject PDU, or an answer or a report that does not decode, throws out *)
(* of the transport while the association stays up.  Whether that happens  *)
(* is decided when the PDU is read: it may strike any answer and any       *)
(* report, whatever the device did.                                        *)
(***************************************************************************)
EXTENDS ControlPlanner, Sequences

CONSTANTS
  Values,          \* control values
  CtlNumMax,       \* the last control number before it wraps to 1 (255)
  ReportQueueMax,  \* maximum_queued_information_reports
  Authorizations   \* answers the authorization callback may give

VARIABLES
  active,       \* active_context_: the selected sequence, or None
  expired,      \* expired_context_
  next_number,  \* next_control_number_: the number given out last
  associated,
  outgoing,     \* the confirmed request on its way, or None
  incoming,     \* what the device sent and the client has not read
  reports,      \* information_reports_
  pc, call,     \* where the running call is; what it was asked, its sequence
  acked,        \* the selection the device confirmed and that is not used up,
                \* cancelled or given up (observer)
  lapsed,       \* numbers of calls that ended while their own report was
                \* still due (observer)
  unsettled     \* a call ended in an exception of that kind, and neither
                \* clear_selection nor an accepted selection has followed
                \* (observer)

selectionVars == <<planner, active, expired>>
linkVars == <<associated, outgoing, incoming, reports>>
sessionVars == <<model, selectionVars, next_number, linkVars, pc, call, acked, lapsed,
                 unsettled>>

Numbers == 1..CtlNumMax
Sequence == [value : Values, number : Numbers]
Context(value, number) == [value |-> value, number |-> number]
NoCall == [op |-> "none", value |-> None, context |-> None]

ExchangeSteps == {"select", "sbow", "oper", "cancel", "status"}
WaitSteps == {"sbow_refused", "sbow_accepted", "oper_refused", "termination"}
Requests == [leaf : ExchangeSteps, context : Sequence \cup {None}]

ASSUME ControlAssumption ==
  /\ CtlNumMax \in Nat \ {0} /\ ReportQueueMax \in Nat \ {0}
  /\ Authorizations \subseteq BOOLEAN
  /\ None \notin Values \cup Sequence \cup Requests

SessionInit ==
  /\ model \in Models
  /\ planner = ClearedPlanner /\ active = None /\ expired = None
  /\ next_number = 0
  /\ associated = TRUE /\ outgoing = None /\ incoming = <<>> /\ reports = <<>>
  /\ pc = "idle" /\ call = NoCall
  /\ acked = None /\ lapsed = {} /\ unsettled = FALSE

\* Mutant: the control number runs on past its last value.
BugNextNumber == next_number + 1
NextNumber == IF next_number >= CtlNumMax THEN 1 ELSE next_number + 1

-----------------------------------------------------------------------------
(* Pieces of a call.                                                       *)

\* The request of an exchange: the service leaf written or read, and the
\* sequence it carries.
Send(leaf, context) ==
  /\ pc' = leaf
  /\ outgoing' = [leaf |-> leaf, context |-> context]

Return ==
  /\ pc' = "idle"
  /\ call' = NoCall

\* Mutant: the planner keeps the selection the session has forgotten.
BugClearSelection == active' = None /\ UNCHANGED planner /\ unsettled' = FALSE
ClearSelection == active' = None /\ planner' = ClearedPlanner /\ unsettled' = FALSE

\* Mutant: reports of earlier commands stay queued.
BugClearReports == UNCHANGED reports
ClearReports == reports' = <<>>

-----------------------------------------------------------------------------
(* select and select_with_value: on their own, or as the first half of an  *)
(* Operate with auto_select.  Creating the context uses a control number   *)
(* up, also when the planner then refuses.                                 *)

BeginSelect(op, value) ==
  LET context == Context(value, NextNumber) IN
  /\ next_number' = NextNumber
  /\ \E ok \in Authorizations :
       \/ /\ SelectPlanned(ok)
          /\ planner' = SelectLeaves(context)
          /\ call' = [op |-> op, value |-> value, context |-> context]
          /\ IF model = "sbo_enhanced"
             THEN Send("sbow", context) /\ ClearReports
             ELSE Send("select", context) /\ UNCHANGED reports
       \/ /\ ~SelectPlanned(ok)
          /\ Return
          /\ UNCHANGED <<planner, outgoing, reports>>
  /\ UNCHANGED <<active, acked>>

Select(value) ==
  /\ pc = "idle" /\ associated /\ RequiresSelect
  /\ BeginSelect("select", value)
  /\ UNCHANGED <<model, expired, associated, incoming, lapsed, unsettled>>

\* Mutant: a selection the device refused is kept as if it had been granted.
BugSelectRefused ==
  /\ active' = call.context
  /\ Return
  /\ UNCHANGED <<planner, expired, unsettled>>

SelectRefused ==
  /\ planner' = ClearedPlanner
  /\ Return
  /\ UNCHANGED <<active, expired, unsettled>>

\* An Operate with auto_select goes on with the selection it was granted.
SelectAccepted ==
  /\ active' = call.context /\ expired' = None /\ unsettled' = FALSE
  /\ IF call.op = "operate" THEN pc' = "proceed" /\ UNCHANGED call ELSE Return
  /\ UNCHANGED planner

-----------------------------------------------------------------------------
(* operate.                                                                *)

\* best_effort_cancel, up to its Cancel write
GiveUp ==
  IF active = None
  THEN Return /\ UNCHANGED <<outgoing, acked>>
  ELSE /\ Send("cancel", active)
       /\ call' = [op |-> "give_up", value |-> None, context |-> active]
       /\ acked' = None

\* From the point where a selection is held, or none is needed.  The session's
\* clock says once per call whether the selection timeout has run out.
ProceedOperate(value, context) ==
  \/ /\ active # None
     /\ expired' = active
     /\ GiveUp
     /\ UNCHANGED <<planner, active, reports>>
  \/ \E ok \in Authorizations :
       LET sequence == Context(value, context.number) IN
       /\ planner' = OperateLeaves(sequence, ok)
       /\ \/ /\ OperatePlanned(sequence, ok)
             /\ call' = [op |-> "operate", value |-> value, context |-> context]
             /\ Send("oper", context)
             /\ ClearReports
             /\ UNCHANGED acked
          \/ /\ ~OperatePlanned(sequence, ok)
             /\ GiveUp
             /\ UNCHANGED reports
       /\ UNCHANGED <<active, expired>>

\* Operate of a select-before-operate object that is not selected: refused,
\* once, as timed out for the value whose selection expired; else selected
\* first when the caller wants that.
OperateUnselected(value, auto) ==
  /\ pc = "idle" /\ associated /\ RequiresSelect /\ active = None
  /\ expired' = None
  /\ \/ /\ auto /\ (expired # None => expired.value # value)
        /\ BeginSelect("operate", value)
     \/ /\ ~auto \/ (expired # None /\ expired.value = value)
        /\ UNCHANGED <<planner, active, next_number, outgoing, reports, pc, call, acked>>
  /\ UNCHANGED <<model, associated, incoming, lapsed, unsettled>>

OperateSelected(value) ==
  /\ pc = "idle" /\ associated /\ active # None
  /\ ProceedOperate(value, active)
  /\ UNCHANGED <<model, next_number, associated, incoming, lapsed, unsettled>>

OperateDirect(value) ==
  /\ pc = "idle" /\ associated /\ ~RequiresSelect
  /\ next_number' = NextNumber
  /\ ProceedOperate(value, Context(value, NextNumber))
  /\ UNCHANGED <<model, associated, incoming, lapsed, unsettled>>

\* The second half of an Operate with auto_select
OperateAfterSelect ==
  /\ pc = "proceed"
  /\ ProceedOperate(call.value, active)
  /\ UNCHANGED <<model, next_number, associated, incoming, lapsed, unsettled>>

Cancel ==
  /\ pc = "idle" /\ associated /\ active # None
  /\ \E ok \in Authorizations : CancelPlanned(ok)
  /\ planner' = ClearedPlanner
  /\ call' = [op |-> "cancel", value |-> None, context |-> active]
  /\ Send("cancel", active)
  /\ acked' = None
  /\ UNCHANGED <<model, active, expired, next_number, associated, incoming, reports, lapsed,
                 unsettled>>

\* The host reads the object's status, as the GUI does after every action.
ReadStatus ==
  /\ pc = "idle" /\ associated
  /\ Send("status", None)
  /\ UNCHANGED <<model, selectionVars, next_number, associated, incoming, reports, call,
                 acked, lapsed, unsettled>>

-----------------------------------------------------------------------------
(* The association: route what arrives, answer the exchange or the wait.   *)

\* queue_information_report
Queued(report) ==
  IF Len(reports) >= ReportQueueMax THEN Append(Tail(reports), report)
  ELSE Append(reports, report)

\* An exchange, or a wait that finds no queued report, reads a report.
RouteReport ==
  /\ pc \in ExchangeSteps \/ (pc \in WaitSteps /\ reports = <<>>)
  /\ incoming # <<>> /\ Head(incoming).kind # "answer"
  /\ incoming' = Tail(incoming)
  /\ reports' = Queued(Head(incoming))
  /\ UNCHANGED <<model, selectionVars, next_number, associated, outgoing, pc, call, acked, lapsed,
                 unsettled>>

\* The exchange reads the confirmed answer it waits for.
ReadAnswer ==
  /\ pc \in ExchangeSteps
  /\ incoming # <<>> /\ Head(incoming).kind = "answer"
  /\ incoming' = Tail(incoming)

\* An answer the service can use: success, or a failure it names.
Answered ==
  /\ ReadAnswer
  /\ LET success == Head(incoming).positive IN
     \/ /\ pc = "select"
        /\ IF success THEN SelectAccepted ELSE SelectRefused
        /\ acked' = IF success THEN call.context ELSE acked
     \/ /\ pc = "sbow"
        /\ pc' = IF success THEN "sbow_accepted" ELSE "sbow_refused"
        /\ acked' = IF success THEN call.context ELSE acked
        /\ UNCHANGED <<selectionVars, call, unsettled>>
     \/ /\ pc = "oper" /\ (IsEnhanced \/ ~success)
        /\ pc' = IF success THEN "termination" ELSE "oper_refused"
        /\ acked' = None
        /\ UNCHANGED <<selectionVars, call, unsettled>>
     \/ /\ pc = "oper" /\ ~IsEnhanced /\ success
        /\ acked' = None
        /\ ClearSelection /\ Return /\ UNCHANGED expired
     \/ /\ pc = "cancel"
        /\ ClearSelection /\ Return /\ UNCHANGED <<expired, acked>>
     \/ /\ pc = "status"
        /\ Return /\ UNCHANGED <<selectionVars, acked, unsettled>>
  /\ UNCHANGED <<model, next_number, associated, outgoing, reports, lapsed>>

\* The call ends in an exception on a live association: planner and session
\* stay as they are, except for best_effort_cancel, which catches everything
\* and clears, and for the status, whose exception its reader catches.
Throws(due) ==
  /\ Return
  /\ IF call.op = "give_up" THEN ClearSelection
     ELSE unsettled' = (unsettled \/ pc # "status") /\ UNCHANGED <<planner, active>>
  /\ acked' = IF pc = "status" THEN acked ELSE None
  /\ lapsed' = IF due THEN lapsed \cup {call.context.number} ELSE lapsed
  /\ UNCHANGED <<model, expired, next_number, associated, outgoing>>

\* A Reject, or an answer that does not decode.
AnswerThrows(due) ==
  /\ ReadAnswer
  /\ Throws(due)
  /\ UNCHANGED reports

\* CommandTerminationDecoder::decode: a report of this object, or a generic
\* LastApplError with the number of the command.
Correlates(report) ==
  /\ report.kind = "termination"
  /\ report.tagged \/ report.number = call.context.number

\* The end of a wait.  refused: a negative report was found; due: another
\* report of this command may still come.
WaitEnds(refused, due) ==
  \/ /\ pc = "sbow_accepted" /\ ~refused
     /\ SelectAccepted
     /\ UNCHANGED <<acked, lapsed>>
  \/ /\ pc = "sbow_refused" \/ (pc = "sbow_accepted" /\ refused)
     /\ SelectRefused
     /\ acked' = None
     /\ lapsed' = IF due THEN lapsed \cup {call.context.number} ELSE lapsed
  \/ /\ pc \in {"oper_refused", "termination"}
     /\ ClearSelection /\ Return
     /\ lapsed' = IF due THEN lapsed \cup {call.context.number} ELSE lapsed
     /\ UNCHANGED <<expired, acked>>

\* wait_for_termination and wait_for_application_error take a queued report.
TakeReport(due) ==
  /\ reports # <<>>
  /\ reports' = Tail(reports)
  /\ \/ /\ Correlates(Head(reports))
        /\ WaitEnds(~Head(reports).positive, due)
     \/ /\ ~Correlates(Head(reports))
        /\ UNCHANGED <<selectionVars, pc, call, acked, lapsed, unsettled>>
  /\ UNCHANGED <<model, next_number, associated, outgoing, incoming>>

\* A queued report that does not decode.
ReportThrows(due) ==
  /\ reports # <<>>
  /\ reports' = Tail(reports)
  /\ Throws(due)
  /\ UNCHANGED incoming

WaitTimesOut(due) ==
  /\ WaitEnds(FALSE, due)
  /\ UNCHANGED <<model, next_number, linkVars>>

\* A time-out of an exchange, or the loss of the connection, faults the
\* association.  The call ends with an exception, except for the Cancel that
\* best_effort_cancel writes.
Fault ==
  /\ pc \in ExchangeSteps \cup WaitSteps
  /\ associated' = FALSE
  /\ outgoing' = None /\ incoming' = <<>> /\ reports' = <<>>
  /\ IF call.op = "give_up" THEN ClearSelection ELSE UNCHANGED <<planner, active, unsettled>>
  /\ Return
  /\ UNCHANGED <<model, expired, next_number, acked, lapsed>>

\* disconnectFromIed: stops the running call, drops session and association.
Disconnect ==
  /\ pc # "closed"
  /\ pc' = "closed" /\ call' = NoCall
  /\ ClearSelection /\ expired' = None
  /\ associated' = FALSE /\ outgoing' = None /\ incoming' = <<>> /\ reports' = <<>>
  /\ acked' = None /\ lapsed' = {}
  /\ UNCHANGED <<model, next_number>>

\* prepareObject: a new association and a new session.
Prepare ==
  /\ pc = "closed"
  /\ pc' = "idle" /\ associated' = TRUE /\ next_number' = 0
  /\ UNCHANGED <<model, selectionVars, outgoing, incoming, reports, call, acked, lapsed,
                 unsettled>>

SessionStep ==
  \/ \E v \in Values : \/ Select(v) \/ OperateSelected(v) \/ OperateDirect(v)
                       \/ \E auto \in BOOLEAN : OperateUnselected(v, auto)
  \/ OperateAfterSelect \/ Cancel \/ ReadStatus
  \/ RouteReport \/ Answered \/ Prepare
=============================================================================
