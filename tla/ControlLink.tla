----------------------------- MODULE ControlLink -----------------------------
(***************************************************************************)
(* A control session and a device that serves it.  The device is not part  *)
(* of the repository's client: it is what the session is written against,  *)
(* an IED that answers every request in order, may refuse it, with a       *)
(* LastApplError or without, may end a selection at any time, ends an      *)
(* accepted enhanced command with a positive or a negative termination     *)
(* however late, and reports process values in between.                    *)
(***************************************************************************)
EXTENDS ControlSession

CONSTANTS WireMax   \* bound on unread PDUs

ASSUME LinkAssumption == WireMax \in Nat \ {0}

VARIABLES
  dev_selected,   \* the sequence the device holds selected for the client
  dev_running     \* the enhanced command it executes

deviceVars == <<dev_selected, dev_running>>
controlLinkVars == <<sessionVars, deviceVars>>

Pdu(kind, positive, number, tagged) ==
  [kind |-> kind, positive |-> positive, number |-> number, tagged |-> tagged]

Answer(success) == Pdu("answer", success, 0, FALSE)
ProcessReport == Pdu("process", TRUE, 0, FALSE)

\* A LastApplError names the object, or only the command's number.
LastApplErrors(number) == {Pdu("termination", FALSE, number, tagged) : tagged \in BOOLEAN}
Terminations(number) == {Pdu("termination", TRUE, number, TRUE)} \cup LastApplErrors(number)

Emit(pdus) ==
  /\ Len(incoming) + Len(pdus) <= WireMax
  /\ incoming' = incoming \o pdus

-----------------------------------------------------------------------------
(* The device.                                                             *)

clientVars == <<model, selectionVars, next_number, associated, reports, pc, call, acked, lapsed,
                unsettled>>

Accepts(request) ==
  \/ /\ request.leaf \in {"select", "sbow"}
     /\ dev_selected' = request.context
     /\ UNCHANGED dev_running
  \/ /\ request.leaf = "oper"
     /\ RequiresSelect => dev_selected = request.context
     /\ dev_running = None
     /\ dev_running' = IF IsEnhanced THEN request.context ELSE None
     /\ dev_selected' = None
  \/ /\ request.leaf = "cancel"
     /\ dev_selected = request.context
     /\ dev_selected' = None
     /\ UNCHANGED dev_running
  \/ /\ request.leaf = "status"
     /\ UNCHANGED deviceVars

DeviceAccepts ==
  /\ outgoing # None /\ outgoing' = None
  /\ Accepts(outgoing)
  /\ Emit(<<Answer(TRUE)>>)
  /\ UNCHANGED clientVars

DeviceRefuses ==
  /\ outgoing # None /\ outgoing' = None
  /\ outgoing.leaf = "cancel" => dev_selected # outgoing.context
  /\ \/ Emit(<<Answer(FALSE)>>)
     \/ /\ outgoing.leaf \in {"sbow", "oper"}
        /\ \E error \in LastApplErrors(outgoing.context.number) :
             Emit(<<error, Answer(FALSE)>>) \/ Emit(<<Answer(FALSE), error>>)
  /\ UNCHANGED <<clientVars, deviceVars>>

DeviceTerminates ==
  /\ dev_running # None /\ associated
  /\ \E report \in Terminations(dev_running.number) : Emit(<<report>>)
  /\ dev_running' = None
  /\ UNCHANGED <<clientVars, outgoing, dev_selected>>

\* The selection ends on the device: silently, or an enhanced one with an error.
DeviceDeselects ==
  /\ dev_selected # None /\ dev_selected' = None
  /\ \/ UNCHANGED incoming
     \/ /\ associated /\ model = "sbo_enhanced"
        /\ \E error \in LastApplErrors(dev_selected.number) : Emit(<<error>>)
  /\ UNCHANGED <<clientVars, outgoing, dev_running>>

DeviceReports ==
  /\ associated
  /\ Emit(<<ProcessReport>>)
  /\ UNCHANGED <<clientVars, outgoing, deviceVars>>

\* With its association the device forgets the client; what it may still do
\* for the old one is no different from a refusal to the new one.
DeviceForgets == dev_selected' = None /\ dev_running' = None

-----------------------------------------------------------------------------
\* The device has sent, or may still send, a report of that command.
Due(number) ==
  \/ dev_running # None /\ dev_running.number = number
  \/ dev_selected # None /\ dev_selected.number = number
  \/ \E i \in DOMAIN incoming : incoming[i].kind = "termination" /\ incoming[i].number = number

ControlLinkInit == SessionInit /\ dev_selected = None /\ dev_running = None

ControlLinkNext ==
  \/ SessionStep /\ UNCHANGED deviceVars
  \/ (Fault \/ Disconnect) /\ DeviceForgets
  \/ /\ pc \in WaitSteps
     /\ \/ TakeReport(Due(call.context.number)) \/ WaitTimesOut(Due(call.context.number))
        \/ ReportThrows(Due(call.context.number))
     /\ UNCHANGED deviceVars
  \/ /\ AnswerThrows(pc # "status" /\ Due(call.context.number))
     /\ UNCHANGED deviceVars
  \/ DeviceAccepts \/ DeviceRefuses \/ DeviceTerminates \/ DeviceDeselects
  \/ DeviceReports

ControlLinkSpec == ControlLinkInit /\ [][ControlLinkNext]_controlLinkVars

-----------------------------------------------------------------------------
(* Properties.                                                             *)

Pdus == [kind : {"answer", "process", "termination"}, positive : BOOLEAN,
         number : 0..CtlNumMax, tagged : BOOLEAN]

\* Every sequence carries a number in 1..CtlNumMax, never 0, and the queue of
\* reports keeps its bound.
ControlTypeOK ==
  /\ model \in Models
  /\ planner \in [selected : BOOLEAN, waiting : BOOLEAN, sequence : Sequence \cup {None}]
  /\ active \in Sequence \cup {None} /\ expired \in Sequence \cup {None}
  /\ next_number \in 0..CtlNumMax
  /\ associated \in BOOLEAN
  /\ outgoing \in Requests \cup {None}
  /\ incoming \in Seq(Pdus) /\ Len(incoming) <= WireMax
  /\ reports \in Seq(Pdus) /\ Len(reports) <= ReportQueueMax
  /\ pc \in {"idle", "proceed", "closed"} \cup ExchangeSteps \cup WaitSteps
  /\ call \in [op : {"none", "select", "operate", "cancel", "give_up"},
               value : Values \cup {None}, context : Sequence \cup {None}]
  /\ acked \in Sequence \cup {None} /\ lapsed \subseteq Numbers /\ unsettled \in BOOLEAN
  /\ dev_selected \in Sequence \cup {None} /\ dev_running \in Sequence \cup {None}

\* An Oper on its way carries the value of the Operate call it serves, also
\* when that call found an older selection: the session sends the sequence
\* of the selection, so only the planner's comparison keeps the two equal.
\* Until an exception is settled the planner may hold a later selection than
\* the session, and a control number that wrapped round lets it agree to an
\* Oper that carries the earlier value.
OperatesWhatWasAsked ==
  (outgoing # None /\ outgoing.leaf = "oper" /\ ~unsettled) =>
    outgoing.context.value = call.value

\* An Oper of a select-before-operate object carries a sequence the device
\* has confirmed as selected, and which no Oper or Cancel has used since;
\* with the same reserve for an exception that is not settled.
OperatesTheSelection ==
  (outgoing # None /\ outgoing.leaf = "oper" /\ RequiresSelect /\ ~unsettled) =>
    outgoing.context = acked

\* Between two calls on a working association the planner and the session
\* agree on what is selected, and no command is left waiting: the next
\* Select or Operate is not refused for the sake of a call that is over.  A
\* call that ended in an exception leaves them apart until clear_selection
\* or an accepted selection follows (see the hazard of the wedged planner in
\* the README); either of the two is enough to bring them together again.
PlannerAgrees ==
  (pc = "idle" /\ associated /\ ~unsettled) =>
    /\ ~planner.waiting
    /\ planner.selected = (active # None)
    /\ active # None => planner.sequence = active

\* A wait is ended by a report of its own command, or by one that was still
\* due when an earlier wait gave up: a report that had arrived before the
\* command was sent never completes it ("Stale InformationReports are drained
\* before SBOw or Oper", PORT_STATUS.md).
CompletedByOwnReport ==
  [][(pc \in WaitSteps /\ reports # <<>> /\ reports' = Tail(reports) /\ Correlates(Head(reports)))
       => Head(reports).number \in {call.context.number} \cup lapsed]_controlLinkVars
=============================================================================
