-------------------------- MODULE ControlLinkProofs --------------------------
(***************************************************************************)
(* What holds of a control session for every set of values, every range of *)
(* control numbers and every bound on queue and wire.                      *)
(*                                                                         *)
(* ControlInv is enough for the invariants: one exchange at a time, and    *)
(* what the session knows at each point of a call.  That a wait is ended   *)
(* by a report of its own command also needs DueInv, which accounts for    *)
(* every report that is queued, on the wire, or still to be expected from  *)
(* what the device does.                                                   *)
(***************************************************************************)
EXTENDS ControlLink, TLAPS

-----------------------------------------------------------------------------
(* The strengthening.                                                      *)

NoAnswer(s) == \A i \in DOMAIN s : s[i].kind # "answer"
OneAnswer(s) ==
  \A i, j \in DOMAIN s : s[i].kind = "answer" /\ s[j].kind = "answer" => i = j

\* One exchange at a time: a request on its way is the one the call waits
\* for, and there is an unread answer only once the device has taken it.
WireInv ==
  /\ OneAnswer(incoming)
  /\ (outgoing # None \/ pc \notin ExchangeSteps) => NoAnswer(incoming)
  /\ outgoing # None =>
       /\ outgoing.leaf = pc
       /\ pc # "status" => outgoing.context = call.context

Selecting == {"select", "sbow", "sbow_refused", "sbow_accepted"}

\* What the session knows at each point of a call.
KnownInv ==
  /\ active # None => RequiresSelect
  /\ pc \in ExchangeSteps \cup WaitSteps \cup {"proceed"} => associated
  /\ pc = "closed" => /\ planner = ClearedPlanner /\ active = None
                      /\ call = NoCall /\ outgoing = None
  /\ (associated /\ ~unsettled /\ pc \in {"idle", "status", "proceed"}) =>
       /\ ~planner.waiting
       /\ planner.selected = (active # None)
       /\ active # None => planner.sequence = active /\ acked = active
  /\ pc = "proceed" => ~unsettled /\ active # None /\ call.value \in Values
  /\ pc \in Selecting => /\ (active # None => unsettled) /\ RequiresSelect
                         /\ call.context # None
                         /\ planner = SelectLeaves(call.context)
                         /\ call.value \in Values
  /\ pc = "sbow_accepted" => acked = call.context
  /\ pc \in WaitSteps \cup {"oper", "cancel"} => call.context # None
  /\ pc \in {"idle", "status"} => call = NoCall
  /\ pc = "oper" /\ ~unsettled => /\ call.context.value = call.value
                                  /\ RequiresSelect => acked = call.context

ControlInv == ControlTypeOK /\ WireInv /\ KnownInv

-----------------------------------------------------------------------------
(* Sequences of PDUs.                                                      *)

\* Reading the first PDU leaves a wire with at most one answer, and with none
\* if that was the answer.
LEMMA TailAnswers ==
  ASSUME NEW s \in Seq(Pdus), s # <<>>, OneAnswer(s)
  PROVE  /\ Head(s) \in Pdus /\ Tail(s) \in Seq(Pdus) /\ Len(Tail(s)) = Len(s) - 1
         /\ OneAnswer(Tail(s))
         /\ Head(s).kind = "answer" => NoAnswer(Tail(s))
         /\ NoAnswer(s) => NoAnswer(Tail(s))
<1>1. /\ Head(s) = s[1] /\ Head(s) \in Pdus /\ Tail(s) \in Seq(Pdus)
      /\ Len(s) \in Nat /\ Len(s) > 0 /\ Len(Tail(s)) = Len(s) - 1
      /\ DOMAIN s = 1..Len(s) /\ DOMAIN Tail(s) = 1..(Len(s) - 1)
      /\ \A i \in 1..(Len(s) - 1) : Tail(s)[i] = s[i + 1]
  OBVIOUS
<1>2. \A i \in DOMAIN Tail(s) : i + 1 \in DOMAIN s /\ Tail(s)[i] = s[i + 1] /\ i \in Nat
  BY <1>1
<1>3. OneAnswer(Tail(s))
  BY <1>2 DEF OneAnswer
<1>4. ASSUME Head(s).kind = "answer", NEW i \in DOMAIN Tail(s)
      PROVE  Tail(s)[i].kind # "answer"
  BY <1>1, <1>2, <1>4 DEF OneAnswer
<1>5. NoAnswer(s) => NoAnswer(Tail(s))
  BY <1>2 DEF NoAnswer
<1> QED
  BY <1>1, <1>3, <1>4, <1>5 DEF NoAnswer

\* What Emit appends keeps the wire typed and bounded; one answer goes to a
\* wire without any, a report to any wire.
LEMMA EmitAnswers ==
  ASSUME incoming \in Seq(Pdus), Len(incoming) <= WireMax, OneAnswer(incoming),
         NEW t \in Seq(Pdus), OneAnswer(t), Emit(t), NoAnswer(incoming) \/ NoAnswer(t)
  PROVE  /\ incoming' \in Seq(Pdus) /\ Len(incoming') <= WireMax
         /\ OneAnswer(incoming')
         /\ NoAnswer(incoming) /\ NoAnswer(t) => NoAnswer(incoming')
<1>1. /\ incoming' = incoming \o t /\ incoming' \in Seq(Pdus)
      /\ Len(incoming') = Len(incoming) + Len(t) /\ Len(incoming') <= WireMax
  BY DEF Emit
<1>2. \A i \in DOMAIN incoming' :
        \/ i \in DOMAIN incoming /\ incoming'[i] = incoming[i]
        \/ i - Len(incoming) \in DOMAIN t /\ incoming'[i] = t[i - Len(incoming)]
  BY <1>1
<1>3. \A i \in DOMAIN incoming' : i \in Int /\ Len(incoming) \in Int
  BY <1>1
<1>4. ASSUME NEW i \in DOMAIN incoming', NEW j \in DOMAIN incoming',
             incoming'[i].kind = "answer", incoming'[j].kind = "answer"
      PROVE  i = j
  <2>1. CASE NoAnswer(incoming)
    <3>1. i - Len(incoming) \in DOMAIN t /\ t[i - Len(incoming)].kind = "answer"
      BY <1>2, <1>4, <2>1 DEF NoAnswer
    <3>2. j - Len(incoming) \in DOMAIN t /\ t[j - Len(incoming)].kind = "answer"
      BY <1>2, <1>4, <2>1 DEF NoAnswer
    <3>3. i - Len(incoming) = j - Len(incoming)
      BY <3>1, <3>2 DEF OneAnswer
    <3> QED
      BY <1>3, <3>3
  <2>2. CASE NoAnswer(t)
    BY <1>2, <1>4, <2>2 DEF NoAnswer, OneAnswer
  <2> QED
    BY <2>1, <2>2
<1>5. NoAnswer(incoming) /\ NoAnswer(t) => NoAnswer(incoming')
  BY <1>2 DEF NoAnswer
<1> QED
  BY <1>1, <1>4, <1>5 DEF OneAnswer

-----------------------------------------------------------------------------
(* Types.                                                                  *)

CallRecords == [op : {"none", "select", "operate", "cancel", "give_up"},
                value : Values \cup {None}, context : Sequence \cup {None}]
PlannerRecords == [selected : BOOLEAN, waiting : BOOLEAN, sequence : Sequence \cup {None}]

\* The pieces a call is made of are well typed.
LEMMA PieceTypes ==
  ASSUME ControlTypeOK
  PROVE  /\ NoCall \in CallRecords /\ call \in CallRecords
         /\ ClearedPlanner \in PlannerRecords /\ planner \in PlannerRecords
         /\ NextNumber \in Numbers /\ NextNumber \in 0..CtlNumMax
         /\ \A v \in Values, n \in Numbers : Context(v, n) \in Sequence /\ Context(v, n) # None
         /\ \A c \in Sequence : /\ c.value \in Values /\ c.number \in Numbers
                                /\ SelectLeaves(c) \in PlannerRecords
                                /\ \A ok \in BOOLEAN : OperateLeaves(c, ok) \in PlannerRecords
<1>1. NoCall \in CallRecords /\ ClearedPlanner \in PlannerRecords
  BY DEF NoCall, CallRecords, ClearedPlanner, PlannerRecords
<1>2. NextNumber \in Numbers /\ NextNumber \in 0..CtlNumMax
  BY ControlAssumption DEF NextNumber, Numbers, ControlTypeOK
<1>3. \A v \in Values, n \in Numbers : Context(v, n) \in Sequence /\ Context(v, n) # None
  BY ControlAssumption DEF Context, Sequence
<1>4. call \in CallRecords /\ planner \in PlannerRecords
  BY DEF ControlTypeOK, CallRecords, PlannerRecords
<1>5. ASSUME NEW c \in Sequence
      PROVE  /\ c.value \in Values /\ c.number \in Numbers
             /\ SelectLeaves(c) \in PlannerRecords
             /\ \A ok \in BOOLEAN : OperateLeaves(c, ok) \in PlannerRecords
  <2>1. [selected |-> FALSE, waiting |-> TRUE, sequence |-> c] \in PlannerRecords
    BY DEF PlannerRecords
  <2>2. \A ok \in BOOLEAN : OperateLeaves(c, ok) \in PlannerRecords
    BY <1>1, <1>4, <2>1 DEF OperateLeaves
  <2>3. c.value \in Values /\ c.number \in Numbers
    BY DEF Sequence
  <2>4. SelectLeaves(c) \in PlannerRecords
    BY DEF SelectLeaves, PlannerRecords
  <2> QED
    BY <2>2, <2>3, <2>4
<1> QED
  BY <1>1, <1>2, <1>3, <1>4, <1>5

\* Requests, call records and the empty queue are well typed.
LEMMA RecordTypes ==
  /\ \A leaf \in ExchangeSteps, c \in Sequence \cup {None} :
       [leaf |-> leaf, context |-> c] \in Requests
  /\ \A op \in {"select", "operate", "cancel", "give_up"}, v \in Values \cup {None},
        c \in Sequence \cup {None} : [op |-> op, value |-> v, context |-> c] \in CallRecords
  /\ <<>> \in Seq(Pdus) /\ Len(<<>>) = 0
  /\ ReportQueueMax \in Nat \ {0} /\ WireMax \in Nat \ {0}
  /\ Authorizations \subseteq BOOLEAN
  /\ None \notin Values /\ None \notin Sequence /\ None \notin Requests
<1>1. \A leaf \in ExchangeSteps, c \in Sequence \cup {None} :
        [leaf |-> leaf, context |-> c] \in Requests
  BY DEF Requests
<1>2. \A op \in {"select", "operate", "cancel", "give_up"}, v \in Values \cup {None},
        c \in Sequence \cup {None} : [op |-> op, value |-> v, context |-> c] \in CallRecords
  BY DEF CallRecords
<1>3. <<>> \in Seq(Pdus) /\ Len(<<>>) = 0
  OBVIOUS
<1>4. /\ ReportQueueMax \in Nat \ {0} /\ WireMax \in Nat \ {0}
      /\ Authorizations \subseteq BOOLEAN
  BY ControlAssumption, LinkAssumption
<1>5. None \notin Values /\ None \notin Sequence /\ None \notin Requests
  BY ControlAssumption, Zenon
<1> QED
  BY <1>1, <1>2, <1>3, <1>4, <1>5

\* A step of the session that leaves wire and queue alone, or empties the
\* queue, keeps the types if it does so for what it assigns.
LEMMA TypesFromParts ==
  ASSUME ControlTypeOK, UNCHANGED <<model, incoming, dev_selected, dev_running>>,
         UNCHANGED reports \/ reports' = <<>>,
         planner' \in PlannerRecords, call' \in CallRecords,
         active' \in Sequence \cup {None}, expired' \in Sequence \cup {None},
         next_number' \in 0..CtlNumMax, associated' \in BOOLEAN,
         outgoing' \in Requests \cup {None},
         pc' \in {"idle", "proceed", "closed"} \cup ExchangeSteps \cup WaitSteps,
         acked' \in Sequence \cup {None}, lapsed' \subseteq Numbers, unsettled' \in BOOLEAN
  PROVE  ControlTypeOK'
<1>1. incoming' \in Seq(Pdus) /\ Len(incoming') <= WireMax
  BY DEF ControlTypeOK
<1>2. reports' \in Seq(Pdus) /\ Len(reports') <= ReportQueueMax
  <2>1. CASE UNCHANGED reports
    BY <2>1 DEF ControlTypeOK
  <2>2. CASE reports' = <<>>
    BY <2>2, RecordTypes
  <2> QED
    BY <2>1, <2>2
<1>3. /\ model' \in Models
      /\ dev_selected' \in Sequence \cup {None} /\ dev_running' \in Sequence \cup {None}
  BY DEF ControlTypeOK
<1> QED
  BY <1>1, <1>2, <1>3, Zenon DEF ControlTypeOK, PlannerRecords, CallRecords

\* So does the selecting part of a call.
LEMMA BeginSelectTypes ==
  ASSUME ControlTypeOK, NEW op \in {"select", "operate"}, NEW v \in Values,
         BeginSelect(op, v)
  PROVE  /\ planner' \in PlannerRecords /\ call' \in CallRecords
         /\ next_number' \in 0..CtlNumMax /\ outgoing' \in Requests \cup {None}
         /\ pc' \in {"idle"} \cup ExchangeSteps
         /\ UNCHANGED reports \/ reports' = <<>>
         /\ UNCHANGED <<active, acked>>
<1>1. Context(v, NextNumber) \in Sequence /\ next_number' \in 0..CtlNumMax
  BY PieceTypes DEF BeginSelect
<1>2. PICK ok \in Authorizations :
       \/ /\ planner' = SelectLeaves(Context(v, NextNumber))
          /\ call' = [op |-> op, value |-> v, context |-> Context(v, NextNumber)]
          /\ \/ Send("sbow", Context(v, NextNumber)) /\ ClearReports
             \/ Send("select", Context(v, NextNumber)) /\ UNCHANGED reports
       \/ Return /\ UNCHANGED <<planner, outgoing, reports>>
  BY DEF BeginSelect
<1>3. CASE Return /\ UNCHANGED <<planner, outgoing, reports>>
  BY <1>1, <1>3, PieceTypes DEF Return, BeginSelect, ControlTypeOK
<1>4. CASE /\ planner' = SelectLeaves(Context(v, NextNumber))
           /\ call' = [op |-> op, value |-> v, context |-> Context(v, NextNumber)]
           /\ \/ Send("sbow", Context(v, NextNumber)) /\ ClearReports
              \/ Send("select", Context(v, NextNumber)) /\ UNCHANGED reports
  BY <1>1, <1>4, PieceTypes, RecordTypes DEF Send, ClearReports, ExchangeSteps, BeginSelect
<1> QED
  BY <1>2, <1>3, <1>4

\* And giving up.
LEMMA GiveUpTypes ==
  ASSUME ControlTypeOK, GiveUp
  PROVE  /\ call' \in CallRecords /\ outgoing' \in Requests \cup {None}
         /\ pc' \in {"idle", "cancel"} /\ acked' \in Sequence \cup {None}
BY PieceTypes, RecordTypes DEF GiveUp, Return, Send, ExchangeSteps, ControlTypeOK

\* And operating.
LEMMA ProceedTypes ==
  ASSUME ControlTypeOK, NEW v \in Values, NEW c \in Sequence, ProceedOperate(v, c)
  PROVE  /\ planner' \in PlannerRecords /\ call' \in CallRecords
         /\ outgoing' \in Requests \cup {None} /\ pc' \in {"idle"} \cup ExchangeSteps
         /\ expired' \in Sequence \cup {None} /\ acked' \in Sequence \cup {None}
         /\ UNCHANGED reports \/ reports' = <<>>
         /\ UNCHANGED active
<1>1. CASE expired' = active /\ GiveUp /\ UNCHANGED <<planner, active, reports>>
  BY <1>1, GiveUpTypes, PieceTypes DEF ControlTypeOK, ExchangeSteps
<1>2. ASSUME NEW ok \in Authorizations,
             planner' = OperateLeaves(Context(v, c.number), ok),
             \/ /\ call' = [op |-> "operate", value |-> v, context |-> c]
                /\ Send("oper", c) /\ ClearReports /\ UNCHANGED acked
             \/ GiveUp /\ UNCHANGED reports,
             UNCHANGED <<active, expired>>
      PROVE  /\ planner' \in PlannerRecords /\ call' \in CallRecords
             /\ outgoing' \in Requests \cup {None} /\ pc' \in {"idle"} \cup ExchangeSteps
             /\ expired' \in Sequence \cup {None} /\ acked' \in Sequence \cup {None}
             /\ UNCHANGED reports \/ reports' = <<>>
             /\ UNCHANGED active
  <2>1. planner' \in PlannerRecords /\ expired' \in Sequence \cup {None}
    BY <1>2, PieceTypes, RecordTypes DEF ControlTypeOK
  <2>2. CASE GiveUp /\ UNCHANGED reports
    BY <1>2, <2>1, <2>2, GiveUpTypes DEF ExchangeSteps
  <2>3. CASE /\ call' = [op |-> "operate", value |-> v, context |-> c]
             /\ Send("oper", c) /\ ClearReports /\ UNCHANGED acked
    BY <1>2, <2>1, <2>3, RecordTypes DEF ExchangeSteps, Send, ClearReports, ControlTypeOK
  <2> QED
    BY <1>2, <2>2, <2>3
<1> QED
  BY <1>1, <1>2 DEF ProceedOperate

\* And the end of a wait.
LEMMA WaitEndsTypes ==
  ASSUME ControlTypeOK, pc \in WaitSteps, call.context # None,
         NEW refused, NEW due, WaitEnds(refused, due)
  PROVE  /\ planner' \in PlannerRecords /\ call' \in CallRecords
         /\ active' \in Sequence \cup {None} /\ expired' \in Sequence \cup {None}
         /\ pc' \in {"idle", "proceed"} /\ acked' \in Sequence \cup {None}
         /\ lapsed' \subseteq Numbers /\ unsettled' \in BOOLEAN
<1>1. call.context \in Sequence /\ call.context.number \in Numbers
  BY PieceTypes DEF ControlTypeOK
<1> QED
  BY <1>1, PieceTypes, RecordTypes
     DEF WaitEnds, SelectAccepted, SelectRefused, ClearSelection, Return, ControlTypeOK

\* Every call of the session, up to what it waits for, keeps the types.
LEMMA CallTypes ==
  ASSUME ControlInv, UNCHANGED deviceVars,
         \/ \E v \in Values : \/ Select(v) \/ OperateSelected(v) \/ OperateDirect(v)
                              \/ \E auto \in BOOLEAN : OperateUnselected(v, auto)
         \/ OperateAfterSelect \/ Cancel \/ ReadStatus \/ Prepare
  PROVE  ControlTypeOK'
<1> ControlTypeOK /\ KnownInv /\ UNCHANGED <<dev_selected, dev_running>>
  BY DEF ControlInv, deviceVars
<1> USE DEF ControlTypeOK
<1>1. ASSUME NEW v \in Values, Select(v) PROVE ControlTypeOK'
  BY <1>1, BeginSelectTypes, TypesFromParts, PieceTypes DEF Select
<1>2. ASSUME NEW v \in Values, OperateSelected(v) PROVE ControlTypeOK'
  <2>1. active \in Sequence
    BY <1>2 DEF OperateSelected
  <2> QED
    BY <1>2, <2>1, ProceedTypes, TypesFromParts DEF OperateSelected
<1>3. ASSUME NEW v \in Values, OperateDirect(v) PROVE ControlTypeOK'
  <2>1. Context(v, NextNumber) \in Sequence /\ next_number' \in 0..CtlNumMax
    BY <1>3, PieceTypes DEF OperateDirect
  <2> QED
    BY <1>3, <2>1, ProceedTypes, TypesFromParts DEF OperateDirect
<1>4. ASSUME NEW v \in Values, NEW auto \in BOOLEAN, OperateUnselected(v, auto)
      PROVE  ControlTypeOK'
  <2>1. CASE BeginSelect("operate", v)
    BY <1>4, <2>1, BeginSelectTypes, TypesFromParts DEF OperateUnselected
  <2>2. CASE UNCHANGED <<planner, active, next_number, outgoing, reports, pc, call, acked>>
    BY <1>4, <2>2, TypesFromParts, PieceTypes DEF OperateUnselected
  <2> QED
    BY <1>4, <2>1, <2>2 DEF OperateUnselected
<1>5. CASE OperateAfterSelect
  <2>1. active \in Sequence /\ call.value \in Values
    BY <1>5 DEF OperateAfterSelect, KnownInv
  <2> QED
    BY <1>5, <2>1, ProceedTypes, TypesFromParts DEF OperateAfterSelect
<1>6. CASE Cancel
  BY <1>6, PieceTypes, RecordTypes, TypesFromParts DEF Cancel, Send, ExchangeSteps
<1>7. CASE ReadStatus
  BY <1>7, PieceTypes, RecordTypes, TypesFromParts
     DEF ReadStatus, Send, ExchangeSteps, selectionVars
<1>8. CASE Prepare
  <2>1. 0 \in 0..CtlNumMax
    BY ControlAssumption
  <2> QED
    BY <1>8, <2>1, PieceTypes, TypesFromParts DEF Prepare, selectionVars
<1> QED
  BY <1>1, <1>2, <1>3, <1>4, <1>5, <1>6, <1>7, <1>8

\* A queue of reports that takes one more keeps its bound.
LEMMA QueuedTypes ==
  ASSUME ControlTypeOK, NEW r \in Pdus
  PROVE  Queued(r) \in Seq(Pdus) /\ Len(Queued(r)) <= ReportQueueMax
<1>1. reports \in Seq(Pdus) /\ Len(reports) \in Nat /\ Len(reports) <= ReportQueueMax
  BY DEF ControlTypeOK
<1>2. ReportQueueMax \in Nat \ {0}
  BY RecordTypes
<1>3. CASE Len(reports) >= ReportQueueMax
  <2>1. reports # <<>> /\ Tail(reports) \in Seq(Pdus) /\ Len(Tail(reports)) = Len(reports) - 1
    BY <1>1, <1>2, <1>3
  <2>2. /\ Append(Tail(reports), r) \in Seq(Pdus)
        /\ Len(Append(Tail(reports), r)) = Len(Tail(reports)) + 1
    BY <2>1
  <2> QED
    BY <1>1, <1>3, <2>1, <2>2 DEF Queued
<1>4. CASE ~(Len(reports) >= ReportQueueMax)
  <2>1. Append(reports, r) \in Seq(Pdus) /\ Len(Append(reports, r)) = Len(reports) + 1
    BY <1>1
  <2> QED
    BY <1>1, <1>2, <1>4, <2>1 DEF Queued
<1> QED
  BY <1>3, <1>4

\* What the association does for a call keeps the types.
LEMMA AssociationTypes ==
  ASSUME ControlInv,
         \/ (RouteReport \/ Answered) /\ UNCHANGED deviceVars
         \/ (Fault \/ Disconnect) /\ DeviceForgets
         \/ /\ pc \in WaitSteps
            /\ \/ TakeReport(Due(call.context.number)) \/ WaitTimesOut(Due(call.context.number))
               \/ ReportThrows(Due(call.context.number))
            /\ UNCHANGED deviceVars
         \/ /\ AnswerThrows(pc # "status" /\ Due(call.context.number))
            /\ UNCHANGED deviceVars
  PROVE  ControlTypeOK'
<1> ControlTypeOK /\ KnownInv /\ OneAnswer(incoming)
  BY DEF ControlInv, WireInv
<1>0. /\ incoming \in Seq(Pdus) /\ Len(incoming) \in Nat /\ Len(incoming) <= WireMax
      /\ incoming # <<>> =>
           Head(incoming) \in Pdus /\ Tail(incoming) \in Seq(Pdus) /\ Len(Tail(incoming)) <= WireMax
  BY TailAnswers, RecordTypes DEF ControlTypeOK
<1>1. CASE RouteReport /\ UNCHANGED deviceVars
  <2>1. incoming' \in Seq(Pdus) /\ Len(incoming') <= WireMax
    BY <1>0, <1>1 DEF RouteReport
  <2>2. reports' \in Seq(Pdus) /\ Len(reports') <= ReportQueueMax
    BY <1>0, <1>1, QueuedTypes DEF RouteReport
  <2> QED
    BY <1>1, <2>1, <2>2 DEF RouteReport, ControlTypeOK, selectionVars, deviceVars
<1>2. CASE Answered /\ UNCHANGED deviceVars
  <2>1. incoming' \in Seq(Pdus) /\ Len(incoming') <= WireMax
    BY <1>0, <1>2 DEF Answered, ReadAnswer
  <2>2. /\ planner' \in PlannerRecords /\ call' \in CallRecords
        /\ pc' \in {"idle", "proceed"} \cup WaitSteps
        /\ active' \in Sequence \cup {None} /\ expired' \in Sequence \cup {None}
        /\ acked' \in Sequence \cup {None} /\ unsettled' \in BOOLEAN
    <3>1. pc \in {"select", "sbow"} => call.context \in Sequence
      BY DEF ControlTypeOK, KnownInv, Selecting
    <3>2. CASE pc = "select"
      BY <1>2, <3>1, <3>2, PieceTypes
         DEF Answered, ControlTypeOK, SelectAccepted, SelectRefused, Return
    <3>3. CASE pc = "sbow"
      BY <1>2, <3>1, <3>3, PieceTypes DEF Answered, ControlTypeOK, selectionVars, WaitSteps
    <3>4. CASE pc \in {"oper", "cancel", "status"}
      BY <1>2, <3>4, PieceTypes
         DEF Answered, ControlTypeOK, selectionVars, WaitSteps, ClearSelection, Return
    <3> QED
      BY <1>2, <3>2, <3>3, <3>4 DEF Answered, ReadAnswer, ExchangeSteps
  <2> QED
    BY <1>2, <2>1, <2>2, Zenon
       DEF Answered, ControlTypeOK, PlannerRecords, CallRecords, deviceVars
<1>3. CASE (Fault \/ Disconnect) /\ DeviceForgets
  <2>1. /\ incoming' = <<>> /\ reports' = <<>> /\ outgoing' = None /\ associated' = FALSE
        /\ dev_selected' = None /\ dev_running' = None /\ UNCHANGED <<model, next_number>>
        /\ call' = NoCall /\ pc' \in {"idle", "closed"}
        /\ planner' \in {planner, ClearedPlanner} /\ active' \in {active, None}
        /\ expired' \in {expired, None} /\ acked' \in {acked, None} /\ lapsed' \in {lapsed, {}}
        /\ unsettled' \in {unsettled, FALSE}
    BY <1>3 DEF Fault, Disconnect, DeviceForgets, ClearSelection, Return, ControlTypeOK
  <2>2. /\ planner' \in PlannerRecords /\ call' \in CallRecords
        /\ incoming' \in Seq(Pdus) /\ Len(incoming') <= WireMax
        /\ reports' \in Seq(Pdus) /\ Len(reports') <= ReportQueueMax
    BY <2>1, PieceTypes, RecordTypes
  <2> QED
    BY <2>1, <2>2 DEF ControlTypeOK, PlannerRecords, CallRecords
<1>5. reports # <<>> /\ reports' = Tail(reports) =>
        reports' \in Seq(Pdus) /\ Len(reports') <= ReportQueueMax
  <2>1. reports \in Seq(Pdus) /\ Len(reports) \in Nat /\ Len(reports) <= ReportQueueMax
    BY DEF ControlTypeOK
  <2>2. reports # <<>> =>
          Tail(reports) \in Seq(Pdus) /\ Len(Tail(reports)) = Len(reports) - 1
    BY <2>1
  <2> QED
    BY <2>1, <2>2, RecordTypes
<1>4. ASSUME pc \in WaitSteps, UNCHANGED deviceVars, NEW due,
             TakeReport(due) \/ WaitTimesOut(due)
      PROVE  ControlTypeOK'
  <2>1. call.context # None
    BY <1>4 DEF KnownInv
  <2>2. /\ planner' \in PlannerRecords /\ call' \in CallRecords
        /\ active' \in Sequence \cup {None} /\ expired' \in Sequence \cup {None}
        /\ pc' \in {"idle", "proceed"} \cup WaitSteps /\ acked' \in Sequence \cup {None}
        /\ lapsed' \subseteq Numbers /\ unsettled' \in BOOLEAN
    <3>1. CASE UNCHANGED <<selectionVars, pc, call, acked, lapsed, unsettled>>
      BY <1>4, <3>1, PieceTypes DEF ControlTypeOK, selectionVars
    <3>2. ASSUME NEW refused, WaitEnds(refused, due)
          PROVE  /\ planner' \in PlannerRecords /\ call' \in CallRecords
                 /\ active' \in Sequence \cup {None} /\ expired' \in Sequence \cup {None}
                 /\ pc' \in {"idle", "proceed"} /\ acked' \in Sequence \cup {None}
                 /\ lapsed' \subseteq Numbers /\ unsettled' \in BOOLEAN
      BY <1>4, <2>1, <3>2, WaitEndsTypes
    <3> QED
      BY <1>4, <3>1, <3>2 DEF TakeReport, WaitTimesOut
  <2>3. reports' \in Seq(Pdus) /\ Len(reports') <= ReportQueueMax
    BY <1>4, <1>5 DEF TakeReport, WaitTimesOut, linkVars, ControlTypeOK
  <2> QED
    BY <1>4, <2>2, <2>3
       DEF TakeReport, WaitTimesOut, linkVars, ControlTypeOK, PlannerRecords, CallRecords,
           deviceVars
<1>6. ASSUME Throws(FALSE) \/ (call.context # None /\ Throws(TRUE)), UNCHANGED deviceVars,
             incoming' \in Seq(Pdus) /\ Len(incoming') <= WireMax,
             reports' \in Seq(Pdus) /\ Len(reports') <= ReportQueueMax
      PROVE  ControlTypeOK'
  <2>1. /\ planner' \in {planner, ClearedPlanner} /\ active' \in {active, None}
        /\ call' = NoCall /\ pc' = "idle" /\ acked' \in {acked, None}
        /\ unsettled' \in BOOLEAN
        /\ UNCHANGED <<model, expired, next_number, associated, outgoing>>
    BY <1>6 DEF Throws, ClearSelection, Return, ControlTypeOK
  <2>2. lapsed' \subseteq Numbers
    <3>1. call.context # None => call.context.number \in Numbers
      BY PieceTypes DEF ControlTypeOK
    <3> QED
      BY <1>6, <3>1 DEF Throws, ControlTypeOK
  <2>3. planner' \in PlannerRecords /\ call' \in CallRecords
    BY <2>1, PieceTypes
  <2> QED
    BY <1>6, <2>1, <2>2, <2>3 DEF ControlTypeOK, PlannerRecords, CallRecords, deviceVars
<1>7. ASSUME pc \in WaitSteps, UNCHANGED deviceVars, ReportThrows(Due(call.context.number))
      PROVE  ControlTypeOK'
  <2>1. call.context # None
    BY <1>7 DEF KnownInv
  <2>2. Throws(FALSE) \/ Throws(TRUE)
    BY <1>7 DEF ReportThrows, Throws
  <2>3. /\ incoming' \in Seq(Pdus) /\ Len(incoming') <= WireMax
        /\ reports' \in Seq(Pdus) /\ Len(reports') <= ReportQueueMax
    BY <1>0, <1>5, <1>7 DEF ReportThrows
  <2> QED
    BY <1>6, <1>7, <2>1, <2>2, <2>3
<1>8. ASSUME UNCHANGED deviceVars, AnswerThrows(pc # "status" /\ Due(call.context.number))
      PROVE  ControlTypeOK'
  <2>1. pc # "status" => call.context # None
    BY <1>8 DEF AnswerThrows, ReadAnswer, ExchangeSteps, KnownInv, Selecting
  <2>2. Throws(FALSE) \/ (pc # "status" /\ Throws(TRUE))
    BY <1>8 DEF AnswerThrows, Throws
  <2>3. /\ incoming' \in Seq(Pdus) /\ Len(incoming') <= WireMax
        /\ reports' \in Seq(Pdus) /\ Len(reports') <= ReportQueueMax
    BY <1>0, <1>8 DEF AnswerThrows, ReadAnswer, ControlTypeOK
  <2> QED
    BY <1>6, <1>8, <2>1, <2>2, <2>3
<1> QED
  BY <1>1, <1>2, <1>3, <1>4, <1>7, <1>8

\* The PDUs a device emits are well typed, and none of its reports is an
\* answer.
LEMMA PduTypes ==
  /\ \A b \in BOOLEAN : Answer(b) \in Pdus /\ Answer(b).kind = "answer"
  /\ ProcessReport \in Pdus /\ ProcessReport.kind = "process"
  /\ \A n \in Numbers : \A r \in Terminations(n) \cup LastApplErrors(n) :
       r \in Pdus /\ r.kind = "termination"
<1>1. \A n \in Numbers : n \in 0..CtlNumMax
  BY ControlAssumption DEF Numbers
<1>2. 0 \in 0..CtlNumMax
  BY ControlAssumption
<1>3. \A kind \in {"answer", "process", "termination"}, b \in BOOLEAN, n \in 0..CtlNumMax,
        t \in BOOLEAN : Pdu(kind, b, n, t) \in Pdus /\ Pdu(kind, b, n, t).kind = kind
  BY DEF Pdu, Pdus
<1>4. \A n \in Numbers : \A r \in Terminations(n) \cup LastApplErrors(n) :
        \E b, t \in BOOLEAN : r = Pdu("termination", b, n, t)
  BY DEF Terminations, LastApplErrors
<1>5. \A n \in Numbers : \A r \in Terminations(n) \cup LastApplErrors(n) :
        r \in Pdus /\ r.kind = "termination"
  BY <1>1, <1>3, <1>4
<1> QED
  BY <1>2, <1>3, <1>5 DEF Answer, ProcessReport

\* What may follow each other on the wire.
LEMMA PduSequences ==
  ASSUME NEW a \in Pdus, NEW r \in Pdus, r.kind # "answer"
  PROVE  /\ <<a>> \in Seq(Pdus) /\ OneAnswer(<<a>>)
         /\ <<r>> \in Seq(Pdus) /\ OneAnswer(<<r>>) /\ NoAnswer(<<r>>)
         /\ <<r, a>> \in Seq(Pdus) /\ OneAnswer(<<r, a>>)
         /\ <<a, r>> \in Seq(Pdus) /\ OneAnswer(<<a, r>>)
<1>1. \A x \in Pdus : <<x>> \in Seq(Pdus) /\ DOMAIN <<x>> = {1} /\ <<x>>[1] = x
  OBVIOUS
<1>2. \A x, y \in Pdus : /\ <<x, y>> \in Seq(Pdus) /\ DOMAIN <<x, y>> = {1, 2}
                         /\ <<x, y>>[1] = x /\ <<x, y>>[2] = y
  OBVIOUS
<1>3. OneAnswer(<<a>>) /\ OneAnswer(<<r>>) /\ NoAnswer(<<r>>)
  BY <1>1 DEF OneAnswer, NoAnswer
<1>4. OneAnswer(<<r, a>>) /\ OneAnswer(<<a, r>>)
  BY <1>2 DEF OneAnswer
<1> QED
  BY <1>1, <1>2, <1>3, <1>4

\* The device's steps keep the invariant.
LEMMA DeviceStep ==
  ASSUME ControlInv,
         \/ DeviceAccepts \/ DeviceRefuses \/ DeviceTerminates \/ DeviceDeselects
         \/ DeviceReports
  PROVE  ControlInv'
<1> ControlTypeOK /\ WireInv /\ KnownInv
  BY DEF ControlInv
<1>0. UNCHANGED <<model, planner, active, expired, next_number, associated, reports, pc, call,
                  acked, lapsed, unsettled>>
  BY DEF DeviceAccepts, DeviceRefuses, DeviceTerminates, DeviceDeselects, DeviceReports,
         clientVars, selectionVars
<1>1. outgoing' \in {outgoing, None}
  BY DEF DeviceAccepts, DeviceRefuses, DeviceTerminates, DeviceDeselects, DeviceReports
<1>2. dev_selected' \in Sequence \cup {None} /\ dev_running' \in Sequence \cup {None}
  <2>1. CASE DeviceAccepts
    <3>1. outgoing.context \in Sequence \cup {None}
      BY <2>1 DEF DeviceAccepts, ControlTypeOK, Requests
    <3> QED
      BY <2>1, <3>1 DEF DeviceAccepts, Accepts, ControlTypeOK, deviceVars
  <2> QED
    BY <2>1 DEF DeviceRefuses, DeviceTerminates, DeviceDeselects, DeviceReports, deviceVars,
                ControlTypeOK
<1>3. \A c \in Sequence : c.number \in Numbers
  BY DEF Sequence
<1>4. /\ incoming \in Seq(Pdus) /\ Len(incoming) <= WireMax /\ OneAnswer(incoming)
      /\ outgoing # None => NoAnswer(incoming) /\ pc \in ExchangeSteps
  BY DEF ControlTypeOK, WireInv, Requests
<1> DEFINE WireKept ==
             /\ incoming' \in Seq(Pdus) /\ Len(incoming') <= WireMax /\ OneAnswer(incoming')
             /\ (outgoing' # None \/ pc' \notin ExchangeSteps) => NoAnswer(incoming')
<1>5. WireKept
  <2>1. ASSUME NEW r \in Pdus, r.kind # "answer", Emit(<<r>>), UNCHANGED outgoing
        PROVE  WireKept
    BY <1>0, <1>4, <2>1, PduSequences, EmitAnswers DEF WireInv
  <2>2. CASE DeviceAccepts
    <3>1. Answer(TRUE) \in Pdus
      BY PduTypes
    <3>2. <<Answer(TRUE)>> \in Seq(Pdus) /\ OneAnswer(<<Answer(TRUE)>>)
      BY <3>1, PduTypes, PduSequences
    <3> QED
      BY <1>0, <1>4, <2>2, <3>2, EmitAnswers DEF DeviceAccepts
  <2>3. CASE DeviceRefuses
    <3>1. PICK t \in Seq(Pdus) : OneAnswer(t) /\ Emit(t)
      <4>1. Answer(FALSE) \in Pdus
        BY PduTypes
      <4>2. CASE Emit(<<Answer(FALSE)>>)
        BY <4>1, <4>2, PduTypes, PduSequences
      <4>3. CASE /\ outgoing.leaf \in {"sbow", "oper"}
                 /\ \E error \in LastApplErrors(outgoing.context.number) :
                      Emit(<<error, Answer(FALSE)>>) \/ Emit(<<Answer(FALSE), error>>)
        <5>1. outgoing.context \in Sequence
          <6>1. outgoing.context = call.context /\ call.context # None
            BY <2>3, <4>3, <1>4 DEF DeviceRefuses, WireInv, KnownInv, Selecting
          <6> QED
            BY <6>1, PieceTypes DEF ControlTypeOK
        <5>2. PICK error \in LastApplErrors(outgoing.context.number) :
                Emit(<<error, Answer(FALSE)>>) \/ Emit(<<Answer(FALSE), error>>)
          BY <4>3
        <5>3. error \in Pdus /\ error.kind # "answer"
          BY <1>3, <5>1, PduTypes
        <5> QED
          BY <4>1, <5>2, <5>3, PduSequences
      <4> QED
        BY <2>3, <4>2, <4>3 DEF DeviceRefuses
    <3> QED
      BY <1>0, <1>4, <2>3, <3>1, EmitAnswers DEF DeviceRefuses
  <2>4. CASE DeviceTerminates
    <3>1. dev_running \in Sequence
      BY <2>4 DEF DeviceTerminates, ControlTypeOK
    <3>2. PICK r \in Terminations(dev_running.number) : Emit(<<r>>)
      BY <2>4 DEF DeviceTerminates
    <3>3. r \in Pdus /\ r.kind # "answer"
      BY <1>3, <3>1, PduTypes
    <3> QED
      BY <2>1, <2>4, <3>2, <3>3 DEF DeviceTerminates
  <2>5. CASE DeviceDeselects
    <3>1. dev_selected \in Sequence
      BY <2>5 DEF DeviceDeselects, ControlTypeOK
    <3>2. CASE UNCHANGED incoming
      BY <1>0, <1>4, <2>5, <3>2 DEF DeviceDeselects, WireInv
    <3>3. ASSUME NEW r \in LastApplErrors(dev_selected.number), Emit(<<r>>)
          PROVE  WireKept
      <4>1. r \in Pdus /\ r.kind # "answer"
        BY <1>3, <3>1, PduTypes
      <4> QED
        BY <2>1, <2>5, <3>3, <4>1 DEF DeviceDeselects
    <3> QED
      BY <2>5, <3>2, <3>3 DEF DeviceDeselects
  <2>6. CASE DeviceReports
    BY <2>1, <2>6, PduTypes DEF DeviceReports
  <2> QED
    BY <2>2, <2>3, <2>4, <2>5, <2>6
<1>6. ControlTypeOK'
  BY <1>0, <1>1, <1>2, <1>5 DEF ControlTypeOK
<1>7. WireInv'
  BY <1>0, <1>1, <1>5 DEF WireInv
<1>8. KnownInv'
  BY <1>0, <1>1 DEF KnownInv, RequiresSelect, SelectLeaves, ClearedPlanner, NoCall
<1> QED
  BY <1>6, <1>7, <1>8 DEF ControlInv

-----------------------------------------------------------------------------
(* One exchange at a time.                                                 *)

\* Outside an exchange nothing is on its way and no answer is unread.
LEMMA NoExchange ==
  ASSUME ControlInv, pc \notin ExchangeSteps
  PROVE  outgoing = None /\ NoAnswer(incoming) /\ OneAnswer(incoming)
BY DEF ControlInv, WireInv, ControlTypeOK, Requests

\* A call that sends a request waits for it.
LEMMA CallSends ==
  ASSUME ControlInv, pc \notin ExchangeSteps,
         \/ \E op, v : BeginSelect(op, v)
         \/ \E v, c : ProceedOperate(v, c)
         \/ Cancel \/ ReadStatus \/ UNCHANGED outgoing
  PROVE  outgoing' # None => /\ outgoing'.leaf = pc'
                             /\ pc' # "status" => outgoing'.context = call'.context
<1> outgoing = None
  BY NoExchange
<1>1. ASSUME NEW op, NEW v, BeginSelect(op, v), outgoing' # None
      PROVE  outgoing'.leaf = pc' /\ outgoing'.context = call'.context
  BY <1>1 DEF BeginSelect, Send
<1>2. ASSUME GiveUp, outgoing' # None
      PROVE  outgoing'.leaf = pc' /\ outgoing'.context = call'.context
  BY <1>2 DEF GiveUp, Send
<1>3. ASSUME NEW v, NEW c, ProceedOperate(v, c), outgoing' # None
      PROVE  outgoing'.leaf = pc' /\ outgoing'.context = call'.context
  BY <1>2, <1>3 DEF ProceedOperate, Send
<1>4. CASE Cancel
  BY <1>4 DEF Cancel, Send
<1>5. CASE ReadStatus
  BY <1>5 DEF ReadStatus, Send
<1> QED
  BY <1>1, <1>3, <1>4, <1>5

\* The session's steps keep to one exchange.
LEMMA SessionWire ==
  ASSUME ControlInv,
         \/ SessionStep \/ Fault \/ Disconnect
         \/ pc \in WaitSteps /\ \E due : TakeReport(due) \/ WaitTimesOut(due) \/ ReportThrows(due)
         \/ \E due : AnswerThrows(due)
  PROVE  WireInv'
<1> ControlTypeOK /\ WireInv /\ KnownInv
  BY DEF ControlInv
<1>1. CASE /\ pc \notin ExchangeSteps /\ UNCHANGED incoming
           /\ \/ \E op, v : BeginSelect(op, v)
              \/ \E v, c : ProceedOperate(v, c)
              \/ Cancel \/ ReadStatus \/ UNCHANGED outgoing
  BY <1>1, NoExchange, CallSends DEF WireInv
<1>2. CASE \/ \E v \in Values : \/ Select(v) \/ OperateSelected(v) \/ OperateDirect(v)
                                \/ \E auto \in BOOLEAN : OperateUnselected(v, auto)
           \/ OperateAfterSelect \/ Cancel \/ ReadStatus \/ Prepare
  <2>1. pc \notin ExchangeSteps /\ UNCHANGED incoming
    BY <1>2 DEF Select, OperateSelected, OperateDirect, OperateUnselected, OperateAfterSelect,
                Cancel, ReadStatus, Prepare, ExchangeSteps
  <2>2. \/ \E op, v : BeginSelect(op, v)
        \/ \E v, c : ProceedOperate(v, c)
        \/ Cancel \/ ReadStatus \/ UNCHANGED outgoing
    BY <1>2 DEF Select, OperateSelected, OperateDirect, OperateUnselected, OperateAfterSelect,
                Prepare
  <2> QED
    BY <1>1, <2>1, <2>2
<1>3. ASSUME pc \in WaitSteps, NEW due,
             TakeReport(due) \/ WaitTimesOut(due) \/ ReportThrows(due)
      PROVE  WireInv'
  <2>1. pc \notin ExchangeSteps
    BY <1>3 DEF WaitSteps, ExchangeSteps
  <2>2. UNCHANGED <<incoming, outgoing>>
    BY <1>3 DEF TakeReport, WaitTimesOut, ReportThrows, Throws, linkVars
  <2> QED
    BY <1>1, <2>1, <2>2
<1>4. CASE Fault \/ Disconnect
  <2>1. incoming' = <<>> /\ outgoing' = None
    BY <1>4 DEF Fault, Disconnect
  <2> QED
    BY <2>1 DEF WireInv, OneAnswer, NoAnswer
<1>5. ASSUME incoming # <<>>
      PROVE  /\ OneAnswer(Tail(incoming))
             /\ Head(incoming).kind = "answer" => NoAnswer(Tail(incoming)) /\ ~NoAnswer(incoming)
             /\ NoAnswer(incoming) => NoAnswer(Tail(incoming))
  <2>1. incoming \in Seq(Pdus) /\ OneAnswer(incoming)
    BY DEF ControlTypeOK, WireInv
  <2>2. 1 \in DOMAIN incoming /\ Head(incoming) = incoming[1]
    BY <1>5, <2>1
  <2> QED
    BY <1>5, <2>1, <2>2, TailAnswers DEF NoAnswer
<1>6. CASE RouteReport
  <2>1. incoming # <<>> /\ incoming' = Tail(incoming) /\ UNCHANGED <<outgoing, pc, call>>
    BY <1>6 DEF RouteReport
  <2> QED
    BY <1>5, <2>1 DEF WireInv
<1>7. ASSUME Answered \/ \E due : AnswerThrows(due) PROVE WireInv'
  <2>1. /\ incoming # <<>> /\ incoming' = Tail(incoming) /\ Head(incoming).kind = "answer"
        /\ UNCHANGED outgoing
    BY <1>7 DEF Answered, AnswerThrows, Throws, ReadAnswer
  <2> QED
    BY <1>5, <2>1 DEF WireInv
<1> QED
  BY <1>2, <1>3, <1>4, <1>6, <1>7 DEF SessionStep

-----------------------------------------------------------------------------
(* What is known at each point of a call.                                  *)

\* Beginning to select, refused by the planner or not.
LEMMA SelectKnown ==
  ASSUME ControlInv, pc = "idle", associated, RequiresSelect, UNCHANGED <<model, associated>>,
         UNCHANGED unsettled, NEW op, NEW v \in Values, BeginSelect(op, v)
  PROVE  KnownInv'
<1> ControlTypeOK /\ KnownInv /\ (RequiresSelect' <=> RequiresSelect)
  BY DEF ControlInv, RequiresSelect
<1>0. outgoing = None
  BY NoExchange DEF ExchangeSteps
<1>1. Context(v, NextNumber) # None
  BY PieceTypes
<1>2. PICK ok \in Authorizations :
       \/ /\ SelectPlanned(ok)
          /\ planner' = SelectLeaves(Context(v, NextNumber))
          /\ call' = [op |-> op, value |-> v, context |-> Context(v, NextNumber)]
          /\ pc' \in {"sbow", "select"}
       \/ Return /\ UNCHANGED <<planner, outgoing>>
  BY DEF BeginSelect, Send
<1>3. UNCHANGED <<active, acked>>
  BY DEF BeginSelect
<1>4. CASE Return /\ UNCHANGED <<planner, outgoing>>
  BY <1>3, <1>4 DEF Return, KnownInv, Selecting, ExchangeSteps, WaitSteps
<1>5. CASE /\ SelectPlanned(ok)
           /\ planner' = SelectLeaves(Context(v, NextNumber))
           /\ call' = [op |-> op, value |-> v, context |-> Context(v, NextNumber)]
           /\ pc' \in {"sbow", "select"}
  <2>1. active # None => unsettled
    BY <1>5 DEF KnownInv, SelectPlanned, ControlTypeOK
  <2>2. call'.context = Context(v, NextNumber) /\ call'.value = v
    BY <1>5
  <2>3. planner' = SelectLeaves(call.context)'
    BY <1>5, <2>2 DEF SelectLeaves
  <2> QED
    BY <1>1, <1>3, <1>5, <2>1, <2>2, <2>3 DEF KnownInv, WaitSteps
<1> QED
  BY <1>2, <1>4, <1>5

\* Operating, or giving up a selection that has expired or that the planner
\* refuses to operate: an Oper leaves only for the sequence that was asked.
LEMMA ProceedKnown ==
  ASSUME ControlInv, pc \in {"idle", "proceed"}, associated,
         UNCHANGED <<model, associated, unsettled>>,
         NEW v \in Values, NEW c \in Sequence, ProceedOperate(v, c),
         active # None => c = active,
         active = None => ~RequiresSelect /\ c.value = v
  PROVE  KnownInv'
<1> ControlTypeOK /\ KnownInv /\ (RequiresSelect' <=> RequiresSelect)
  BY DEF ControlInv, RequiresSelect
<1>0. c # None
  BY RecordTypes
<1>1. ASSUME active # None, GiveUp, UNCHANGED active
      PROVE  KnownInv'
  <2>1. pc' = "cancel" /\ call'.context = active
    BY <1>1 DEF GiveUp, Send
  <2> QED
    BY <1>1, <2>1 DEF KnownInv, Selecting, WaitSteps
<1>2. ASSUME NEW ok \in Authorizations,
             OperatePlanned(Context(v, c.number), ok),
             call' = [op |-> "operate", value |-> v, context |-> c],
             Send("oper", c), UNCHANGED <<acked, active>>
      PROVE  KnownInv'
  <2>1. pc' = "oper" /\ call'.context = c /\ call'.value = v
    BY <1>2 DEF Send
  <2>2. ~unsettled => c.value = v /\ (RequiresSelect => acked = c)
    <3> SUFFICES ASSUME ~unsettled PROVE c.value = v /\ (RequiresSelect => acked = c)
      OBVIOUS
    <3>1. CASE active = None
      BY <3>1
    <3>2. CASE active # None
      <4>1. planner.sequence = Context(v, c.number) /\ planner.sequence = c /\ acked = c
        BY <1>2, <3>2 DEF KnownInv, OperatePlanned, SequenceMatches
      <4> QED
        BY <4>1 DEF Context
    <3> QED
      BY <3>1, <3>2
  <2> QED
    BY <1>0, <1>2, <2>1, <2>2 DEF KnownInv, Selecting, WaitSteps
<1>3. ASSUME NEW ok \in Authorizations,
             planner' = OperateLeaves(Context(v, c.number), ok),
             ~OperatePlanned(Context(v, c.number), ok), GiveUp, active = None, UNCHANGED active
      PROVE  KnownInv'
  <2>1. ~unsettled => ~planner.selected /\ ~planner.waiting
    BY <1>3 DEF KnownInv, ControlTypeOK
  <2>2. ~unsettled => planner' = planner
    BY <1>3, <2>1 DEF OperateLeaves
  <2>3. pc' = "idle" /\ call' = NoCall /\ UNCHANGED acked
    BY <1>3 DEF GiveUp, Return
  <2> QED
    BY <1>3, <2>1, <2>2, <2>3 DEF KnownInv, Selecting, WaitSteps, ExchangeSteps, NoCall
<1> QED
  BY <1>1, <1>2, <1>3 DEF ProceedOperate

\* A selection the device confirmed.
LEMMA AcceptedKnown ==
  ASSUME ControlInv, pc \in Selecting, UNCHANGED <<model, associated>>,
         SelectAccepted, acked' = call.context
  PROVE  KnownInv'
<1> ControlTypeOK /\ KnownInv /\ (RequiresSelect' <=> RequiresSelect)
  BY DEF ControlInv, RequiresSelect
<1>1. /\ RequiresSelect /\ call.context # None /\ call.value \in Values
      /\ planner' = SelectLeaves(call.context) /\ active' = call.context /\ ~unsettled'
  BY DEF SelectAccepted, KnownInv
<1>2. /\ planner'.selected = TRUE /\ planner'.waiting = FALSE
      /\ planner'.sequence = call.context
  BY <1>1 DEF SelectLeaves
<1>3. CASE pc' = "idle" /\ call' = NoCall
  BY <1>1, <1>2, <1>3 DEF KnownInv, Selecting, WaitSteps, ExchangeSteps, NoCall
<1>4. CASE pc' = "proceed" /\ UNCHANGED call
  <2>1. associated
    BY DEF KnownInv, Selecting, ExchangeSteps, WaitSteps
  <2> QED
    BY <1>1, <1>2, <1>4, <2>1 DEF KnownInv, Selecting, WaitSteps, ExchangeSteps
<1> QED
  BY <1>3, <1>4 DEF SelectAccepted, Return

\* A call that ends without a selection.
LEMMA ClearedKnown ==
  ASSUME planner' = ClearedPlanner, active' = None, pc' = "idle", call' = NoCall
  PROVE  KnownInv'
<1>1. planner'.selected = FALSE /\ planner'.waiting = FALSE
  BY DEF ClearedPlanner
<1> QED
  BY <1>1 DEF KnownInv, Selecting, WaitSteps, ExchangeSteps, NoCall

\* A selection the device or the planner refused.
LEMMA RefusedKnown ==
  ASSUME ControlInv, pc \in Selecting, UNCHANGED model, SelectRefused
  PROVE  KnownInv'
<1>1. /\ planner' = ClearedPlanner /\ pc' = "idle" /\ call' = NoCall
      /\ UNCHANGED <<active, unsettled>>
      /\ active # None => unsettled /\ RequiresSelect
      /\ RequiresSelect' <=> RequiresSelect
  BY DEF SelectRefused, Return, ControlInv, KnownInv, RequiresSelect
<1>2. planner'.selected = FALSE /\ planner'.waiting = FALSE
  BY <1>1 DEF ClearedPlanner
<1> QED
  BY <1>1, <1>2 DEF KnownInv, Selecting, WaitSteps, ExchangeSteps, NoCall

\* A call that ends in an exception.
LEMMA ThrownKnown ==
  ASSUME ControlInv, pc \in ExchangeSteps \cup WaitSteps, NEW due, Throws(due)
  PROVE  KnownInv'
<1> /\ ControlTypeOK /\ KnownInv /\ pc' = "idle" /\ call' = NoCall
    /\ UNCHANGED <<model, associated>>
  BY DEF ControlInv, Throws, Return
<1>1. CASE ClearSelection
  BY <1>1, ClearedKnown DEF ClearSelection
<1>2. CASE pc = "status" /\ UNCHANGED <<planner, active, acked, unsettled>>
  BY <1>2 DEF KnownInv, Selecting, WaitSteps, ExchangeSteps, RequiresSelect, NoCall
<1>3. CASE unsettled' /\ UNCHANGED <<planner, active>>
  BY <1>3 DEF KnownInv, Selecting, WaitSteps, ExchangeSteps, RequiresSelect, NoCall
<1> QED
  BY <1>1, <1>2, <1>3 DEF Throws, ControlTypeOK

\* The session's steps keep what is known.
LEMMA SessionKnown ==
  ASSUME ControlInv,
         \/ SessionStep \/ Fault \/ Disconnect
         \/ pc \in WaitSteps /\ \E due : TakeReport(due) \/ WaitTimesOut(due) \/ ReportThrows(due)
         \/ \E due : AnswerThrows(due)
  PROVE  KnownInv'
<1> ControlTypeOK /\ KnownInv
  BY DEF ControlInv
<1>1. ASSUME NEW v \in Values, Select(v) PROVE KnownInv'
  BY <1>1, SelectKnown DEF Select
<1>2. ASSUME NEW v \in Values, OperateSelected(v) PROVE KnownInv'
  <2>1. active \in Sequence
    BY <1>2 DEF OperateSelected, ControlTypeOK
  <2> QED
    BY <1>2, <2>1, ProceedKnown DEF OperateSelected
<1>3. ASSUME NEW v \in Values, OperateDirect(v) PROVE KnownInv'
  <2>1. /\ Context(v, NextNumber) \in Sequence /\ Context(v, NextNumber).value = v
        /\ active = None
    BY <1>3, PieceTypes DEF OperateDirect, Context, KnownInv
  <2> QED
    BY <1>3, <2>1, ProceedKnown DEF OperateDirect
<1>4. ASSUME NEW v \in Values, NEW auto \in BOOLEAN, OperateUnselected(v, auto)
      PROVE  KnownInv'
  <2>1. CASE BeginSelect("operate", v)
    BY <1>4, <2>1, SelectKnown DEF OperateUnselected
  <2>2. CASE UNCHANGED <<planner, active, next_number, outgoing, reports, pc, call, acked>>
    BY <1>4, <2>2
       DEF OperateUnselected, KnownInv, Selecting, WaitSteps, ExchangeSteps, NoCall
  <2> QED
    BY <1>4, <2>1, <2>2 DEF OperateUnselected
<1>5. CASE OperateAfterSelect
  <2>1. active \in Sequence /\ active # None /\ call.value \in Values /\ associated
    BY <1>5 DEF OperateAfterSelect, KnownInv, ControlTypeOK
  <2> QED
    BY <1>5, <2>1, ProceedKnown DEF OperateAfterSelect
<1>6. CASE Cancel
  BY <1>6 DEF Cancel, Send, KnownInv, Selecting, WaitSteps, RequiresSelect
<1>7. CASE ReadStatus
  BY <1>7 DEF ReadStatus, Send, selectionVars, KnownInv, Selecting, WaitSteps, RequiresSelect
<1>8. CASE RouteReport
  <2>1. UNCHANGED <<model, planner, active, associated, outgoing, pc, call, acked, unsettled>>
    BY <1>8 DEF RouteReport, selectionVars
  <2> QED
    BY <2>1 DEF KnownInv, RequiresSelect, SelectLeaves, ClearedPlanner, NoCall
<1>9. CASE Answered
  <2>0. UNCHANGED <<model, associated>> /\ associated /\ (RequiresSelect' <=> RequiresSelect)
    BY <1>9 DEF Answered, ReadAnswer, KnownInv, RequiresSelect
  <2>1. CASE pc = "select"
    <3>1. CASE SelectAccepted /\ acked' = call.context
      BY <2>0, <2>1, <3>1, AcceptedKnown DEF Selecting
    <3>2. CASE SelectRefused
      BY <2>0, <2>1, <3>2, RefusedKnown DEF Selecting
    <3> QED
      BY <1>9, <2>1, <3>1, <3>2 DEF Answered
  <2>2. CASE pc = "sbow"
    <3>1. /\ UNCHANGED <<planner, active, call, unsettled>>
          /\ \/ pc' = "sbow_accepted" /\ acked' = call.context
             \/ pc' = "sbow_refused"
      BY <1>9, <2>2 DEF Answered, selectionVars
    <3> QED
      BY <2>0, <2>2, <3>1 DEF KnownInv, Selecting, ExchangeSteps, WaitSteps, SelectLeaves
  <2>3. CASE pc = "oper" /\ pc' \in {"termination", "oper_refused"} /\ UNCHANGED <<active, call>>
    BY <2>0, <2>3 DEF KnownInv, Selecting, ExchangeSteps, WaitSteps
  <2>4. CASE ClearSelection /\ Return
    BY <2>4, ClearedKnown DEF ClearSelection, Return
  <2>5. CASE pc = "status" /\ Return /\ UNCHANGED <<planner, active, acked, unsettled>>
    BY <2>0, <2>5 DEF Return, KnownInv, Selecting, ExchangeSteps, WaitSteps, NoCall
  <2> QED
    BY <1>9, <2>1, <2>2, <2>3, <2>4, <2>5 DEF Answered, ReadAnswer, ExchangeSteps, selectionVars
<1>10. CASE Prepare
  <2>1. planner' = ClearedPlanner /\ active' = None /\ pc' = "idle" /\ call' = NoCall
    BY <1>10 DEF Prepare, KnownInv, selectionVars
  <2> QED
    BY <2>1, ClearedKnown
<1>11. CASE Fault
  <2>1. /\ associated' = FALSE /\ pc' = "idle" /\ active' \in {active, None}
        /\ call' = NoCall /\ (RequiresSelect' <=> RequiresSelect)
    BY <1>11 DEF Fault, Return, ClearSelection, RequiresSelect
  <2> QED
    BY <2>1 DEF KnownInv, Selecting, ExchangeSteps, WaitSteps, NoCall
<1>12. CASE Disconnect
  <2>1. /\ planner' = ClearedPlanner /\ active' = None /\ pc' = "closed"
        /\ call' = NoCall /\ outgoing' = None
    BY <1>12 DEF Disconnect, ClearSelection
  <2> QED
    BY <2>1 DEF KnownInv, Selecting, ExchangeSteps, WaitSteps, ClearedPlanner, NoCall
<1>13. ASSUME pc \in WaitSteps, NEW due, TakeReport(due) \/ WaitTimesOut(due)
       PROVE  KnownInv'
  <2>0. UNCHANGED <<model, associated, outgoing>> /\ (RequiresSelect' <=> RequiresSelect)
    BY <1>13 DEF TakeReport, WaitTimesOut, linkVars, RequiresSelect
  <2>1. CASE UNCHANGED <<selectionVars, pc, call, acked, lapsed, unsettled>>
    BY <2>0, <2>1 DEF selectionVars, KnownInv, SelectLeaves, ClearedPlanner, NoCall
  <2>2. CASE pc = "sbow_accepted" /\ SelectAccepted /\ UNCHANGED acked
    BY <2>0, <2>2, AcceptedKnown DEF Selecting, KnownInv
  <2>3. CASE pc \in {"sbow_refused", "sbow_accepted"} /\ SelectRefused
    BY <2>0, <2>3, RefusedKnown DEF Selecting
  <2>4. CASE ClearSelection /\ Return
    BY <2>4, ClearedKnown DEF ClearSelection, Return
  <2> QED
    BY <1>13, <2>1, <2>2, <2>3, <2>4 DEF TakeReport, WaitTimesOut, WaitEnds
<1>14. ASSUME NEW due, AnswerThrows(due) \/ (pc \in WaitSteps /\ ReportThrows(due))
       PROVE  KnownInv'
  BY <1>14, ThrownKnown DEF AnswerThrows, ReportThrows, ReadAnswer
<1> QED
  BY <1>1, <1>2, <1>3, <1>4, <1>5, <1>6, <1>7, <1>8, <1>9, <1>10, <1>11, <1>12, <1>13, <1>14
     DEF SessionStep

-----------------------------------------------------------------------------
(* The theorems.                                                           *)

\* ControlInv is inductive.
LEMMA ControlInvariant == ControlLinkSpec => []ControlInv
<1>1. ControlLinkInit => ControlInv
  <2> SUFFICES ASSUME ControlLinkInit PROVE ControlInv
    OBVIOUS
  <2> USE DEF ControlLinkInit, SessionInit
  <2>1. 0 \in 0..CtlNumMax /\ ClearedPlanner \in PlannerRecords /\ NoCall \in CallRecords
    BY ControlAssumption DEF ClearedPlanner, PlannerRecords, NoCall, CallRecords
  <2>2. ControlTypeOK
    <3>1. unsettled \in BOOLEAN /\ associated \in BOOLEAN
      OBVIOUS
    <3>2. incoming \in Seq(Pdus) /\ Len(incoming) <= WireMax
          /\ reports \in Seq(Pdus) /\ Len(reports) <= ReportQueueMax
      BY RecordTypes
    <3> QED
      BY <2>1, <3>1, <3>2 DEF ControlTypeOK, PlannerRecords, CallRecords
  <2>3. WireInv
    BY DEF WireInv, OneAnswer, NoAnswer
  <2>4. KnownInv
    <3>1. planner.selected = FALSE /\ planner.waiting = FALSE
      BY DEF ClearedPlanner
    <3> QED
      BY <3>1 DEF KnownInv, ExchangeSteps, WaitSteps, Selecting
  <2> QED
    BY <2>2, <2>3, <2>4 DEF ControlInv
<1>2. ControlInv /\ [ControlLinkNext]_controlLinkVars => ControlInv'
  <2> SUFFICES ASSUME ControlInv, [ControlLinkNext]_controlLinkVars PROVE ControlInv'
    OBVIOUS
  <2>1. CASE SessionStep /\ UNCHANGED deviceVars
    <3>1. ControlTypeOK'
      BY <2>1, CallTypes, AssociationTypes DEF SessionStep
    <3> QED
      BY <2>1, <3>1, SessionWire, SessionKnown DEF ControlInv
  <2>2. CASE (Fault \/ Disconnect) /\ DeviceForgets
    BY <2>2, AssociationTypes, SessionWire, SessionKnown DEF ControlInv
  <2>3. CASE /\ pc \in WaitSteps
             /\ \/ TakeReport(Due(call.context.number)) \/ WaitTimesOut(Due(call.context.number))
                \/ ReportThrows(Due(call.context.number))
             /\ UNCHANGED deviceVars
    BY <2>3, AssociationTypes, SessionWire, SessionKnown DEF ControlInv
  <2>6. CASE /\ AnswerThrows(pc # "status" /\ Due(call.context.number))
             /\ UNCHANGED deviceVars
    <3>1. ControlTypeOK'
      BY <2>6, AssociationTypes
    <3>2. \E due : AnswerThrows(due)
      BY <2>6
    <3> QED
      BY <3>1, <3>2, SessionWire, SessionKnown DEF ControlInv
  <2>4. CASE \/ DeviceAccepts \/ DeviceRefuses \/ DeviceTerminates \/ DeviceDeselects
             \/ DeviceReports
    BY <2>4, DeviceStep
  <2>5. CASE UNCHANGED controlLinkVars
    <3> UNCHANGED <<model, planner, active, expired, next_number, associated, outgoing, incoming,
                    reports, pc, call, acked, lapsed, unsettled, dev_selected, dev_running>>
      BY <2>5 DEF controlLinkVars, sessionVars, selectionVars, linkVars, deviceVars
    <3>1. ControlTypeOK'
      BY DEF ControlInv, ControlTypeOK
    <3>2. WireInv'
      BY DEF ControlInv, WireInv, OneAnswer, NoAnswer
    <3>3. KnownInv'
      BY DEF ControlInv, KnownInv, RequiresSelect, SelectLeaves, ClearedPlanner, NoCall
    <3> QED
      BY <3>1, <3>2, <3>3 DEF ControlInv
  <2> QED
    BY <2>1, <2>2, <2>3, <2>4, <2>5, <2>6 DEF ControlLinkNext
<1> QED
  BY <1>1, <1>2, PTL DEF ControlLinkSpec

\* Control numbers stay within their range and never become 0, across every
\* wrap of next_control_number, and the queue of reports keeps its bound.
THEOREM ControlAlwaysTyped == ControlLinkSpec => []ControlTypeOK
<1>1. ControlInv => ControlTypeOK
  BY DEF ControlInv
<1> QED
  BY <1>1, ControlInvariant, PTL

\* Whatever the values, numbers and bounds, operate() never sends an Oper with
\* another value than its caller asked for, unless a call ended in an
\* exception on the live association and no clear_selection or accepted
\* selection has followed.
THEOREM AlwaysOperatesWhatWasAsked == ControlLinkSpec => []OperatesWhatWasAsked
<1>1. ControlInv => OperatesWhatWasAsked
  BY DEF ControlInv, WireInv, KnownInv, OperatesWhatWasAsked
<1> QED
  BY <1>1, ControlInvariant, PTL

\* An Oper of a select-before-operate object always carries the sequence the
\* device confirmed last, unused; with the same reserve for an exception.
THEOREM AlwaysOperatesTheSelection == ControlLinkSpec => []OperatesTheSelection
<1>1. ControlInv => OperatesTheSelection
  BY DEF ControlInv, WireInv, KnownInv, OperatesTheSelection
<1> QED
  BY <1>1, ControlInvariant, PTL

\* Between calls, planner and session always agree on what is selected, after
\* every call that returned and after every clear_selection; only a call that
\* ended in an exception on the live association leaves them apart.
THEOREM PlannerAlwaysAgrees == ControlLinkSpec => []PlannerAgrees
<1>1. ControlInv => PlannerAgrees
  BY DEF ControlInv, KnownInv, PlannerAgrees
<1> QED
  BY <1>1, ControlInvariant, PTL

-----------------------------------------------------------------------------
(* Whose reports may still come.                                           *)

Answering(s) == {i \in DOMAIN s : s[i].kind = "answer"}
Terminating(s) == {i \in DOMAIN s : s[i].kind = "termination"}

\* The outcomes of the answers in s, the commands whose reports are in s, and
\* those whose reports come after an answer in s.
Outcomes(s) == {s[i].positive : i \in Answering(s)}
Reported(s) == {s[i].number : i \in Terminating(s)}
ReportedLate(s) == {s[i].number : i \in {k \in Terminating(s) : \E j \in Answering(s) : j < k}}

\* What reading the first PDU leaves.
LEMMA ReadFirst ==
  ASSUME NEW s \in Seq(Pdus), s # <<>>
  PROVE  /\ Outcomes(Tail(s)) \subseteq Outcomes(s)
         /\ Reported(Tail(s)) \subseteq Reported(s)
         /\ ReportedLate(Tail(s)) \subseteq ReportedLate(s)
         /\ Head(s).kind = "answer" => /\ Head(s).positive \in Outcomes(s)
                                       /\ Reported(Tail(s)) \subseteq ReportedLate(s)
         /\ Head(s).kind = "termination" => Head(s).number \in Reported(s)
<1>1. /\ Head(s) = s[1] /\ 1 \in DOMAIN s
      /\ \A i \in DOMAIN Tail(s) : /\ i \in Nat /\ i >= 1 /\ i + 1 \in DOMAIN s
                                   /\ Tail(s)[i] = s[i + 1]
  OBVIOUS
<1>2. Outcomes(Tail(s)) \subseteq Outcomes(s)
  BY <1>1 DEF Outcomes, Answering
<1>3. Reported(Tail(s)) \subseteq Reported(s)
  BY <1>1 DEF Reported, Terminating
<1>4. ReportedLate(Tail(s)) \subseteq ReportedLate(s)
  <2> SUFFICES ASSUME NEW i \in DOMAIN Tail(s), Tail(s)[i].kind = "termination",
                      NEW j \in DOMAIN Tail(s), Tail(s)[j].kind = "answer", j < i
               PROVE  Tail(s)[i].number \in ReportedLate(s)
    BY DEF ReportedLate, Terminating, Answering
  <2>1. /\ i + 1 \in Terminating(s) /\ j + 1 \in Answering(s) /\ j + 1 < i + 1
        /\ Tail(s)[i].number = s[i + 1].number
    BY <1>1 DEF Terminating, Answering
  <2> QED
    BY <2>1 DEF ReportedLate
<1>5. ASSUME Head(s).kind = "answer" PROVE Reported(Tail(s)) \subseteq ReportedLate(s)
  <2> SUFFICES ASSUME NEW i \in DOMAIN Tail(s), Tail(s)[i].kind = "termination"
               PROVE  Tail(s)[i].number \in ReportedLate(s)
    BY DEF Reported, Terminating
  <2>1. /\ i + 1 \in Terminating(s) /\ 1 \in Answering(s) /\ 1 < i + 1
        /\ Tail(s)[i].number = s[i + 1].number
    BY <1>1, <1>5 DEF Terminating, Answering
  <2> QED
    BY <2>1 DEF ReportedLate
<1>6. /\ Head(s).kind = "answer" => Head(s).positive \in Outcomes(s)
      /\ Head(s).kind = "termination" => Head(s).number \in Reported(s)
  BY <1>1 DEF Outcomes, Reported, Answering, Terminating
<1> QED
  BY <1>2, <1>3, <1>4, <1>5, <1>6

\* What PDUs at the end add.
LEMMA ReadLast ==
  ASSUME NEW s \in Seq(Pdus), NEW t \in Seq(Pdus)
  PROVE  /\ Outcomes(s \o t) \subseteq Outcomes(s) \cup Outcomes(t)
         /\ Reported(s \o t) \subseteq Reported(s) \cup Reported(t)
         /\ ReportedLate(s \o t) \subseteq ReportedLate(s) \cup Reported(t)
<1>1. \A i \in DOMAIN (s \o t) :
        /\ i \in Int
        /\ \/ i \in DOMAIN s /\ (s \o t)[i] = s[i]
           \/ i \notin DOMAIN s /\ i - Len(s) \in DOMAIN t /\ (s \o t)[i] = t[i - Len(s)]
  OBVIOUS
<1>2. Outcomes(s \o t) \subseteq Outcomes(s) \cup Outcomes(t)
  BY <1>1 DEF Outcomes, Answering
<1>3. Reported(s \o t) \subseteq Reported(s) \cup Reported(t)
  BY <1>1 DEF Reported, Terminating
<1>4. ReportedLate(s \o t) \subseteq ReportedLate(s) \cup Reported(t)
  <2> SUFFICES ASSUME NEW i \in DOMAIN (s \o t), (s \o t)[i].kind = "termination",
                      NEW j \in DOMAIN (s \o t), (s \o t)[j].kind = "answer", j < i
               PROVE  (s \o t)[i].number \in ReportedLate(s) \cup Reported(t)
    BY DEF ReportedLate, Terminating, Answering
  <2>1. CASE i \in DOMAIN s
    <3>1. j \in DOMAIN s
      BY <1>1, <2>1
    <3> QED
      BY <1>1, <2>1, <3>1 DEF ReportedLate, Terminating, Answering
  <2>2. CASE i \notin DOMAIN s
    BY <1>1, <2>2 DEF Reported, Terminating
  <2> QED
    BY <2>1, <2>2
<1> QED
  BY <1>2, <1>3, <1>4

\* The empty wire, one without answers, and the pieces a device sends.
LEMMA ReadPieces ==
  /\ Outcomes(<<>>) = {} /\ Reported(<<>>) = {} /\ ReportedLate(<<>>) = {}
  /\ \A s \in Seq(Pdus) : NoAnswer(s) => Outcomes(s) = {} /\ ReportedLate(s) = {}
  /\ \A p \in Pdus : /\ p.kind # "answer" => Outcomes(<<p>>) = {}
                     /\ p.kind = "answer" => Outcomes(<<p>>) = {p.positive}
                     /\ p.kind # "termination" => Reported(<<p>>) = {}
                     /\ Reported(<<p>>) \subseteq {p.number}
  /\ \A p, q \in Pdus : p.kind = "termination" /\ q.kind = "answer" =>
       /\ Outcomes(<<p, q>>) = {q.positive} /\ Outcomes(<<q, p>>) = {q.positive}
       /\ Reported(<<p, q>>) \subseteq {p.number} /\ Reported(<<q, p>>) \subseteq {p.number}
<1>1. Outcomes(<<>>) = {} /\ Reported(<<>>) = {} /\ ReportedLate(<<>>) = {}
  BY DEF Outcomes, Reported, ReportedLate, Answering, Terminating
<1>2. \A s \in Seq(Pdus) : NoAnswer(s) => Outcomes(s) = {} /\ ReportedLate(s) = {}
  BY DEF Outcomes, ReportedLate, Answering, NoAnswer
<1>3. \A p \in Pdus : DOMAIN <<p>> = {1} /\ <<p>>[1] = p
  OBVIOUS
<1>4. \A p \in Pdus : /\ p.kind # "answer" => Outcomes(<<p>>) = {}
                      /\ p.kind = "answer" => Outcomes(<<p>>) = {p.positive}
                      /\ p.kind # "termination" => Reported(<<p>>) = {}
                      /\ Reported(<<p>>) \subseteq {p.number}
  BY <1>3 DEF Outcomes, Reported, Answering, Terminating
<1>5. \A p, q \in Pdus : /\ DOMAIN <<p, q>> = {1, 2} /\ <<p, q>>[1] = p /\ <<p, q>>[2] = q
  OBVIOUS
<1>6. \A p, q \in Pdus : p.kind = "termination" /\ q.kind = "answer" =>
       /\ Outcomes(<<p, q>>) = {q.positive} /\ Outcomes(<<q, p>>) = {q.positive}
       /\ Reported(<<p, q>>) \subseteq {p.number} /\ Reported(<<q, p>>) \subseteq {p.number}
  BY <1>5 DEF Outcomes, Reported, Answering, Terminating
<1> QED
  BY <1>1, <1>2, <1>4, <1>6

\* The queue of reports holds what it did, and the report that was routed.
LEMMA QueuedReports ==
  ASSUME ControlTypeOK, NEW p \in Pdus
  PROVE  Reported(Queued(p)) \subseteq Reported(reports) \cup Reported(<<p>>)
<1>1. reports \in Seq(Pdus) /\ ReportQueueMax \in Nat \ {0}
  BY RecordTypes DEF ControlTypeOK
<1>2. \A s \in Seq(Pdus) : Append(s, p) = s \o <<p>>
  OBVIOUS
<1>3. \A s \in Seq(Pdus) : Reported(Append(s, p)) \subseteq Reported(s) \cup Reported(<<p>>)
  <2>1. <<p>> \in Seq(Pdus)
    OBVIOUS
  <2> QED
    BY <1>2, <2>1, ReadLast
<1>4. CASE Len(reports) >= ReportQueueMax
  <2>1. reports # <<>> /\ Tail(reports) \in Seq(Pdus)
    BY <1>1, <1>4
  <2>2. Reported(Tail(reports)) \subseteq Reported(reports)
    BY <1>1, <2>1, ReadFirst
  <2> QED
    BY <1>3, <1>4, <2>1, <2>2 DEF Queued
<1>5. CASE ~(Len(reports) >= ReportQueueMax)
  BY <1>1, <1>3, <1>5 DEF Queued
<1> QED
  BY <1>4, <1>5

\* The error an enhanced device may send about a selection it ends.
ErrorOf(c) == IF IsEnhanced /\ c # None THEN {c.number} ELSE {}

\* The device at most holds c selected; all else it may report is given up.
Held(c) ==
  /\ Reported(incoming) \subseteq lapsed \cup ErrorOf(c)
  /\ dev_running # None => dev_running.number \in lapsed
  /\ dev_selected # None => dev_selected = c \/ dev_selected.number \in lapsed

\* The device may be about to report the end of command n.
Running(n) ==
  /\ Reported(incoming) \subseteq lapsed \cup {n}
  /\ dev_running # None => dev_running.number \in lapsed \cup {n}
  /\ dev_selected # None => dev_selected.number \in lapsed \cup {n}

\* Before the device has seen a request, what may come is about the selection;
\* after that, about the request.
Unserved == pc \in {"idle", "status", "proceed", "closed"} \/ outgoing # None

\* What the device does for the request it has taken.
Served ==
  /\ pc \in Selecting => Held(call.context)
  /\ pc = "select" /\ FALSE \in Outcomes(incoming) => Held(None)
  /\ pc \in {"oper", "oper_refused", "termination"} => Running(call.context.number)
  /\ pc = "oper" /\ ~IsEnhanced /\ TRUE \in Outcomes(incoming) => Held(None)
  /\ pc = "cancel" => /\ Held(active) /\ ReportedLate(incoming) \subseteq lapsed
                      /\ dev_selected # None => dev_selected.number \in lapsed

DueInv ==
  /\ pc = "sbow" => IsEnhanced
  /\ pc = "oper" => active \in {None, call.context}
  /\ pc = "cancel" => active # None /\ active = call.context
  /\ Unserved => Held(active) /\ (unsettled => Held(None))
  /\ ~Unserved => Served
  /\ pc \in {"sbow", "oper"} \cup WaitSteps =>
       Reported(reports) \subseteq lapsed \cup {call.context.number}

-----------------------------------------------------------------------------
\* Everything that may come while a command is waited for is about it, or
\* about one that was given up.
LEMMA OwnOrLapsed ==
  ASSUME ControlInv, DueInv, pc \in {"sbow", "oper"} \cup WaitSteps
  PROVE  Running(call.context.number)
<1>1. /\ pc \in Selecting => active = None \/ unsettled
      /\ pc = "oper" => active \in {None, call.context}
  BY DEF ControlInv, KnownInv, DueInv
<1>2. pc \in WaitSteps => outgoing = None
  BY NoExchange DEF WaitSteps, ExchangeSteps
<1>3. CASE Unserved
  <2>1. Held(None) \/ Held(call.context)
    BY <1>1, <1>2, <1>3 DEF DueInv, Unserved, WaitSteps, Selecting
  <2> QED
    BY <2>1 DEF Held, Running, ErrorOf
<1>4. CASE ~Unserved /\ pc \in Selecting
  <2>1. Held(call.context)
    BY <1>4 DEF DueInv, Served
  <2> QED
    BY <2>1 DEF Held, Running, ErrorOf
<1>5. CASE ~Unserved /\ pc \notin Selecting
  BY <1>5 DEF DueInv, Served, WaitSteps, Selecting
<1> QED
  BY <1>3, <1>4, <1>5

\* A call begins: it returns at once, or sends its request.
LEMMA CallBegins ==
  ASSUME ControlInv,
         \/ \E v \in Values : \/ Select(v) \/ OperateSelected(v) \/ OperateDirect(v)
                              \/ \E auto \in BOOLEAN : OperateUnselected(v, auto)
         \/ OperateAfterSelect \/ Cancel \/ ReadStatus
  PROVE  /\ pc \in {"idle", "proceed"}
         /\ UNCHANGED <<model, active, incoming, lapsed, unsettled>>
         /\ \/ pc' = "idle"
            \/ outgoing' # None /\ pc' \in {"select", "status"}
            \/ outgoing' # None /\ pc' = "sbow" /\ reports' = <<>> /\ IsEnhanced
            \/ /\ outgoing' # None /\ pc' = "oper" /\ reports' = <<>>
               /\ active \in {None, call'.context}
            \/ /\ outgoing' # None /\ pc' = "cancel"
               /\ active # None /\ active = call'.context
<1> DEFINE Begun == \/ pc' = "idle"
                    \/ outgoing' # None /\ pc' \in {"select", "status"}
                    \/ outgoing' # None /\ pc' = "sbow" /\ reports' = <<>> /\ IsEnhanced
                    \/ /\ outgoing' # None /\ pc' = "oper" /\ reports' = <<>>
                       /\ active \in {None, call'.context}
                    \/ /\ outgoing' # None /\ pc' = "cancel"
                       /\ active # None /\ active = call'.context
<1> ControlTypeOK /\ KnownInv
  BY DEF ControlInv
<1>1. \A leaf \in ExchangeSteps, c \in Sequence \cup {None} :
        [leaf |-> leaf, context |-> c] # None
  BY RecordTypes
<1>2. ASSUME NEW op, NEW v \in Values, BeginSelect(op, v) PROVE Begun /\ UNCHANGED active
  <2>1. Context(v, NextNumber) \in Sequence
    BY PieceTypes
  <2>2. "sbow" \in ExchangeSteps /\ "select" \in ExchangeSteps
    BY DEF ExchangeSteps
  <2> QED
    BY <1>1, <1>2, <2>1, <2>2 DEF BeginSelect, Send, Return, ClearReports, IsEnhanced
<1>3. ASSUME GiveUp PROVE Begun
  <2>1. active \in Sequence \cup {None} /\ "cancel" \in ExchangeSteps
    BY DEF ControlTypeOK, ExchangeSteps
  <2> QED
    BY <1>1, <1>3, <2>1 DEF GiveUp, Send, Return
<1>4. ASSUME NEW v \in Values, NEW c \in Sequence, ProceedOperate(v, c),
             active \in {None, c}
      PROVE  Begun /\ UNCHANGED active
  <2>1. UNCHANGED active
    BY <1>4 DEF ProceedOperate
  <2>2. ASSUME call' = [op |-> "operate", value |-> v, context |-> c],
               Send("oper", c), ClearReports
        PROVE  Begun
    BY <1>1, <1>4, <2>2 DEF Send, ClearReports, ExchangeSteps
  <2> QED
    BY <1>3, <1>4, <2>1, <2>2 DEF ProceedOperate
<1>5. ASSUME NEW v \in Values, Select(v)
      PROVE  Begun /\ UNCHANGED <<model, active, incoming, lapsed, unsettled>> /\ pc = "idle"
  BY <1>2, <1>5 DEF Select
<1>6. ASSUME NEW v \in Values, OperateSelected(v)
      PROVE  Begun /\ UNCHANGED <<model, active, incoming, lapsed, unsettled>> /\ pc = "idle"
  <2>1. active \in Sequence
    BY <1>6 DEF OperateSelected, ControlTypeOK
  <2> QED
    BY <1>4, <1>6, <2>1 DEF OperateSelected
<1>7. ASSUME NEW v \in Values, OperateDirect(v)
      PROVE  Begun /\ UNCHANGED <<model, active, incoming, lapsed, unsettled>> /\ pc = "idle"
  <2>1. Context(v, NextNumber) \in Sequence /\ active = None
    BY <1>7, PieceTypes DEF OperateDirect, KnownInv
  <2> QED
    BY <1>4, <1>7, <2>1 DEF OperateDirect
<1>8. ASSUME NEW v \in Values, NEW auto \in BOOLEAN, OperateUnselected(v, auto)
      PROVE  Begun /\ UNCHANGED <<model, active, incoming, lapsed, unsettled>> /\ pc = "idle"
  <2>1. /\ UNCHANGED <<model, incoming, lapsed, unsettled>> /\ pc = "idle"
        /\ \/ BeginSelect("operate", v)
           \/ pc' = pc /\ active' = active
    BY <1>8 DEF OperateUnselected
  <2> QED
    BY <1>2, <2>1
<1>9. ASSUME OperateAfterSelect
      PROVE  Begun /\ UNCHANGED <<model, active, incoming, lapsed, unsettled>> /\ pc = "proceed"
  <2>1. active \in Sequence /\ call.value \in Values
    BY <1>9 DEF OperateAfterSelect, KnownInv, ControlTypeOK
  <2> QED
    BY <1>4, <1>9, <2>1 DEF OperateAfterSelect
<1>10. ASSUME Cancel
       PROVE  Begun /\ UNCHANGED <<model, active, incoming, lapsed, unsettled>> /\ pc = "idle"
  <2>1. active \in Sequence
    BY <1>10 DEF Cancel, ControlTypeOK
  <2> QED
    BY <1>1, <1>10, <2>1 DEF Cancel, Send, ExchangeSteps
<1>11. ASSUME ReadStatus
       PROVE  Begun /\ UNCHANGED <<model, active, incoming, lapsed, unsettled>> /\ pc = "idle"
  BY <1>1, <1>11 DEF ReadStatus, Send, ExchangeSteps, selectionVars
<1> QED
  BY <1>5, <1>6, <1>7, <1>8, <1>9, <1>10, <1>11

\* What the device may report survives whatever adds no report and no work.
LEMMA HeldKept ==
  ASSUME UNCHANGED model, Reported(incoming') \subseteq Reported(incoming),
         lapsed \subseteq lapsed', dev_selected' \in {None, dev_selected},
         dev_running' \in {None, dev_running}
  PROVE  /\ active' = active /\ Held(active) => Held(active)'
         /\ active' = call.context /\ Held(call.context) => Held(active)'
         /\ active' = None /\ Held(None) => Held(active)'
         /\ call'.context = call.context =>
              /\ Held(call.context) => Held(call.context)'
              /\ Running(call.context.number) => Running(call.context.number)'
         /\ Held(None) => Held(None)' /\ Held(active)'
<1> IsEnhanced' <=> IsEnhanced
  BY DEF IsEnhanced
<1>1. active' = active /\ Held(active) => Held(active)'
  BY DEF Held, ErrorOf
<1>2. active' = call.context /\ Held(call.context) => Held(active)'
  BY DEF Held, ErrorOf
<1>3. active' = None /\ Held(None) => Held(active)'
  BY DEF Held, ErrorOf
<1>4. call'.context = call.context /\ Held(call.context) => Held(call.context)'
  BY DEF Held, ErrorOf
<1>5. call'.context = call.context /\ Running(call.context.number)
        => Running(call.context.number)'
  BY DEF Running
<1>6. Held(None) => Held(None)' /\ Held(active)'
  BY DEF Held, ErrorOf
<1> QED
  BY <1>1, <1>2, <1>3, <1>4, <1>5, <1>6

\* A call begins with what the selection left, and with an empty queue where
\* it will wait for a report.
LEMMA CallsDue ==
  ASSUME ControlInv, DueInv, UNCHANGED deviceVars,
         \/ \E v \in Values : \/ Select(v) \/ OperateSelected(v) \/ OperateDirect(v)
                              \/ \E auto \in BOOLEAN : OperateUnselected(v, auto)
         \/ OperateAfterSelect \/ Cancel \/ ReadStatus
  PROVE  DueInv'
<1>1. /\ pc \in {"idle", "proceed"}
      /\ UNCHANGED <<model, active, incoming, lapsed, unsettled, dev_selected, dev_running>>
  BY CallBegins DEF deviceVars
<1>2. Held(active)' /\ (unsettled' => Held(None)')
  <2>1. Held(active) /\ (unsettled => Held(None))
    BY <1>1 DEF DueInv, Unserved
  <2> QED
    BY <1>1, <2>1, HeldKept
<1>3. CASE pc' = "idle"
  BY <1>2, <1>3 DEF DueInv, Unserved, WaitSteps
<1>4. CASE outgoing' # None /\ pc' \in {"select", "status"}
  BY <1>2, <1>4 DEF DueInv, Unserved, WaitSteps
<1>5. CASE outgoing' # None /\ pc' = "sbow" /\ reports' = <<>> /\ IsEnhanced
  BY <1>1, <1>2, <1>5, ReadPieces DEF DueInv, Unserved, WaitSteps, IsEnhanced
<1>6. CASE /\ outgoing' # None /\ pc' = "oper" /\ reports' = <<>>
           /\ active \in {None, call'.context}
  BY <1>1, <1>2, <1>6, ReadPieces DEF DueInv, Unserved, WaitSteps
<1>7. CASE outgoing' # None /\ pc' = "cancel" /\ active # None /\ active = call'.context
  BY <1>1, <1>2, <1>7 DEF DueInv, Unserved, WaitSteps
<1> QED
  BY <1>3, <1>4, <1>5, <1>6, <1>7, CallBegins

\* Fault, disconnection, and a new association start from nothing.
LEMMA FreshDue ==
  ASSUME ControlInv, DueInv,
         \/ (Fault \/ Disconnect) /\ DeviceForgets
         \/ Prepare /\ UNCHANGED deviceVars
         \/ UNCHANGED controlLinkVars
  PROVE  DueInv'
<1>1. CASE (Fault \/ Disconnect) /\ DeviceForgets
  <2>1. /\ pc' \in {"idle", "closed"} /\ incoming' = <<>> /\ reports' = <<>>
        /\ dev_selected' = None /\ dev_running' = None
    BY <1>1 DEF Fault, Disconnect, DeviceForgets, Return
  <2>2. Held(active)' /\ Held(None)'
    BY <2>1, ReadPieces DEF Held
  <2> QED
    BY <2>1, <2>2 DEF DueInv, Unserved, WaitSteps
<1>2. CASE Prepare /\ UNCHANGED deviceVars
  <2>1. /\ pc = "closed" /\ pc' = "idle"
        /\ UNCHANGED <<model, active, incoming, lapsed, unsettled, dev_selected, dev_running>>
    BY <1>2 DEF Prepare, deviceVars, selectionVars
  <2>2. Held(active)' /\ (unsettled' => Held(None)')
    BY <2>1, HeldKept DEF DueInv, Unserved
  <2> QED
    BY <2>1, <2>2 DEF DueInv, Unserved, WaitSteps
<1>3. CASE UNCHANGED controlLinkVars
  <2> UNCHANGED <<model, active, outgoing, incoming, reports, pc, call, lapsed, unsettled,
                  dev_selected, dev_running>>
    BY <1>3 DEF controlLinkVars, sessionVars, selectionVars, linkVars, deviceVars
  <2>1. (Unserved' <=> Unserved) /\ (IsEnhanced' <=> IsEnhanced)
    BY DEF Unserved, IsEnhanced
  <2>2. /\ (Held(active)' <=> Held(active)) /\ (Held(None)' <=> Held(None))
        /\ Served' <=> Served
    BY <2>1 DEF Served, Held, Running, ErrorOf
  <2> QED
    BY <2>1, <2>2 DEF DueInv
<1> QED
  BY <1>1, <1>2, <1>3

\* Routing moves a report from the wire to the queue.
LEMMA RouteDue ==
  ASSUME ControlInv, DueInv, UNCHANGED deviceVars, RouteReport
  PROVE  DueInv'
<1>1. /\ incoming \in Seq(Pdus) /\ incoming # <<>> /\ incoming' = Tail(incoming)
      /\ reports' = Queued(Head(incoming)) /\ Head(incoming) \in Pdus
      /\ UNCHANGED <<model, active, outgoing, pc, call, lapsed, unsettled, dev_selected,
                     dev_running>>
  BY TailAnswers DEF ControlInv, ControlTypeOK, WireInv, RouteReport, deviceVars, selectionVars
<1>2. /\ Outcomes(incoming') \subseteq Outcomes(incoming)
      /\ Reported(incoming') \subseteq Reported(incoming)
      /\ ReportedLate(incoming') \subseteq ReportedLate(incoming)
      /\ Reported(<<Head(incoming)>>) \subseteq Reported(incoming)
  BY <1>1, ReadFirst, ReadPieces
<1>3. Unserved' => Held(active)' /\ (unsettled' => Held(None)')
  BY <1>1, <1>2, HeldKept DEF DueInv, Unserved
<1>4. ASSUME (~Unserved)' PROVE Served'
  <2>1. Served
    BY <1>1, <1>4 DEF DueInv, Unserved
  <2>2. IsEnhanced' <=> IsEnhanced
    BY <1>1 DEF IsEnhanced
  <2> QED
    BY <1>1, <1>2, <2>1, <2>2, HeldKept DEF Served
<1>5. ASSUME pc \in {"sbow", "oper"} \cup WaitSteps
      PROVE  Reported(reports') \subseteq lapsed \cup {call.context.number}
  <2>1. Reported(reports') \subseteq Reported(reports) \cup Reported(<<Head(incoming)>>)
    BY <1>1, QueuedReports DEF ControlInv
  <2>2. Reported(incoming) \subseteq lapsed \cup {call.context.number}
    BY <1>5, OwnOrLapsed DEF Running
  <2> QED
    BY <1>2, <1>5, <2>1, <2>2 DEF DueInv
<1> QED
  BY <1>1, <1>3, <1>4, <1>5 DEF DueInv, IsEnhanced

\* The answer ends the exchange: what the device did for the request is what
\* the session now holds, waits for or has forgotten.
LEMMA AnswerDue ==
  ASSUME ControlInv, DueInv, UNCHANGED deviceVars, Answered
  PROVE  DueInv'
<1> ControlTypeOK /\ WireInv /\ KnownInv
  BY DEF ControlInv
<1>1. /\ incoming \in Seq(Pdus) /\ incoming # <<>> /\ incoming' = Tail(incoming)
      /\ Head(incoming).kind = "answer"
      /\ UNCHANGED <<model, outgoing, reports, lapsed, dev_selected, dev_running>>
  BY DEF ControlTypeOK, Answered, ReadAnswer, deviceVars
<1>2. /\ Reported(incoming') \subseteq Reported(incoming)
      /\ Reported(incoming') \subseteq ReportedLate(incoming)
      /\ Head(incoming).positive \in Outcomes(incoming)
      /\ Head(incoming).positive \in BOOLEAN
  BY <1>1, ReadFirst, TailAnswers DEF WireInv, Pdus
<1>3. outgoing = None /\ outgoing' = None
  BY <1>1 DEF WireInv, NoAnswer
<1>4. IsEnhanced' <=> IsEnhanced
  BY <1>1 DEF IsEnhanced
<1>5. pc # "status" => Served
  BY <1>3 DEF DueInv, Unserved, Answered, ReadAnswer, ExchangeSteps
<1>6. ASSUME Held(active)', unsettled' => Held(None)', pc' \in {"idle", "proceed"}
      PROVE  DueInv'
  BY <1>6 DEF DueInv, Unserved, WaitSteps
<1>7. CASE pc = "select"
  <2>1. CASE Head(incoming).positive
    <3>1. active' = call.context /\ ~unsettled' /\ pc' \in {"idle", "proceed"}
      BY <1>7, <2>1 DEF Answered, SelectAccepted, Return
    <3>2. Held(call.context)
      BY <1>5, <1>7 DEF Served, Selecting
    <3> QED
      BY <1>1, <1>2, <1>6, <3>1, <3>2, HeldKept
  <2>2. CASE ~Head(incoming).positive
    <3>1. pc' = "idle"
      BY <1>7, <2>2 DEF Answered, SelectRefused, Return
    <3>2. Held(None)
      BY <1>2, <1>5, <1>7, <2>2 DEF Served
    <3> QED
      BY <1>1, <1>2, <1>6, <3>1, <3>2, HeldKept
  <2> QED
    BY <2>1, <2>2
<1>8. CASE pc = "sbow"
  <2>1. pc' \in {"sbow_accepted", "sbow_refused"} /\ UNCHANGED <<active, call>>
    BY <1>8 DEF Answered, selectionVars
  <2>2. Held(call.context)'
    BY <1>1, <1>2, <1>5, <1>8, <2>1, HeldKept DEF Served, Selecting
  <2>3. Reported(reports) \subseteq lapsed \cup {call.context.number}
    BY <1>8 DEF DueInv
  <2> QED
    BY <1>1, <1>3, <2>1, <2>2, <2>3 DEF DueInv, Unserved, Served
<1>9. CASE pc = "oper" /\ (IsEnhanced \/ ~Head(incoming).positive)
  <2>1. pc' \in {"termination", "oper_refused"} /\ UNCHANGED <<active, call>>
    BY <1>9 DEF Answered, selectionVars
  <2>2. Running(call.context.number)'
    BY <1>1, <1>2, <1>5, <1>9, <2>1, HeldKept DEF Served
  <2>3. Reported(reports) \subseteq lapsed \cup {call.context.number}
    BY <1>9 DEF DueInv
  <2> QED
    BY <1>1, <1>3, <2>1, <2>2, <2>3 DEF DueInv, Unserved, Served, Selecting
<1>10. CASE pc = "oper" /\ ~IsEnhanced /\ Head(incoming).positive
  <2>1. active' = None /\ ~unsettled' /\ pc' = "idle"
    BY <1>10 DEF Answered, ClearSelection, Return
  <2>2. Held(None)
    BY <1>2, <1>5, <1>10 DEF Served
  <2> QED
    BY <1>1, <1>2, <1>6, <2>1, <2>2, HeldKept
<1>11. CASE pc = "cancel"
  <2>1. active' = None /\ ~unsettled' /\ pc' = "idle"
    BY <1>11 DEF Answered, ClearSelection, Return
  <2>2. /\ Held(active) /\ ReportedLate(incoming) \subseteq lapsed
        /\ dev_selected # None => dev_selected.number \in lapsed
    BY <1>5, <1>11 DEF Served
  <2>3. Held(active)'
    BY <1>1, <1>2, <2>1, <2>2 DEF Held
  <2> QED
    BY <1>6, <2>1, <2>3
<1>12. CASE pc = "status"
  <2>1. active' = active /\ unsettled' = unsettled /\ pc' = "idle"
    BY <1>12 DEF Answered, Return, selectionVars
  <2>2. Held(active) /\ (unsettled => Held(None))
    BY <1>12 DEF DueInv, Unserved
  <2> QED
    BY <1>1, <1>2, <1>6, <2>1, <2>2, HeldKept
<1> QED
  BY <1>7, <1>8, <1>9, <1>10, <1>11, <1>12 DEF Answered, ReadAnswer, ExchangeSteps

\* A wait that gives its command up while a report of it is due says so.
LEMMA GivenUp ==
  ASSUME Running(call.context.number), Reported(incoming') \subseteq Reported(incoming),
         UNCHANGED <<dev_selected, dev_running>>,
         lapsed' = IF Due(call.context.number) THEN lapsed \cup {call.context.number} ELSE lapsed
  PROVE  Held(active)' /\ Held(None)'
<1>1. ~Due(call.context.number) =>
        /\ call.context.number \notin Reported(incoming)
        /\ dev_running # None => dev_running.number # call.context.number
        /\ dev_selected # None => dev_selected.number # call.context.number
  BY DEF Due, Reported, Terminating
<1> QED
  BY <1>1 DEF Held, Running

\* So does a call that ends in an exception: nothing is due any more but what
\* was given up.
LEMMA ThrownDue ==
  ASSUME ControlInv, DueInv, UNCHANGED deviceVars,
         \/ pc \in WaitSteps /\ ReportThrows(Due(call.context.number))
         \/ AnswerThrows(pc # "status" /\ Due(call.context.number))
  PROVE  DueInv'
<1> ControlTypeOK /\ WireInv /\ KnownInv
  BY DEF ControlInv
<1>1. pc' = "idle" /\ UNCHANGED <<model, outgoing, dev_selected, dev_running>>
  BY DEF ReportThrows, AnswerThrows, Throws, Return, deviceVars
<1>2. ASSUME Held(active)', unsettled' => Held(None)' PROVE DueInv'
  BY <1>1, <1>2 DEF DueInv, Unserved, WaitSteps
<1>3. Reported(incoming') \subseteq Reported(incoming)
  BY ReadFirst DEF ReportThrows, AnswerThrows, ReadAnswer, ControlTypeOK
<1>4. CASE pc \in WaitSteps /\ ReportThrows(Due(call.context.number))
  <2>1. Running(call.context.number)
    BY <1>4, OwnOrLapsed
  <2> QED
    BY <1>1, <1>2, <1>3, <1>4, <2>1, GivenUp DEF ReportThrows, Throws
<1>5. CASE AnswerThrows(pc # "status" /\ Due(call.context.number))
  <2>1. /\ incoming \in Seq(Pdus) /\ incoming # <<>> /\ incoming' = Tail(incoming)
        /\ Head(incoming).kind = "answer" /\ pc \in ExchangeSteps
    BY <1>5 DEF AnswerThrows, ReadAnswer, ControlTypeOK
  <2>2. outgoing = None
    BY <2>1 DEF WireInv, NoAnswer
  <2>3. CASE pc = "status"
    <3>1. Held(active) /\ (unsettled => Held(None))
      BY <2>3 DEF DueInv, Unserved
    <3>2. /\ lapsed' = lapsed
          /\ \/ active' = active /\ unsettled' = unsettled
             \/ active' = None /\ unsettled' = FALSE
      BY <1>5, <2>3 DEF AnswerThrows, Throws, ClearSelection, ControlTypeOK
    <3>3. call.op # "give_up"
      BY <2>3 DEF KnownInv, NoCall
    <3> QED
      BY <1>1, <1>2, <1>3, <1>5, <2>3, <3>1, <3>2, <3>3, HeldKept DEF AnswerThrows, Throws
  <2>4. CASE pc # "status"
    <3>1. Served
      BY <2>1, <2>2, <2>4 DEF DueInv, Unserved, ExchangeSteps
    <3>2. lapsed' = IF Due(call.context.number) THEN lapsed \cup {call.context.number}
                    ELSE lapsed
      BY <1>5, <2>4 DEF AnswerThrows, Throws
    <3>3. Running(call.context.number)
      BY <2>1, <2>4, <3>1 DEF Served, Selecting, ExchangeSteps, Held, Running, ErrorOf, DueInv
    <3> QED
      BY <1>1, <1>2, <1>3, <3>2, <3>3, GivenUp
  <2> QED
    BY <2>3, <2>4
<1> QED
  BY <1>4, <1>5

\* The end of a wait.
LEMMA WaitDue ==
  ASSUME ControlInv, DueInv, UNCHANGED deviceVars, pc \in WaitSteps,
         TakeReport(Due(call.context.number)) \/ WaitTimesOut(Due(call.context.number))
  PROVE  DueInv'
<1> ControlTypeOK /\ WireInv /\ KnownInv
  BY DEF ControlInv
<1>1. /\ UNCHANGED <<model, outgoing, incoming, dev_selected, dev_running>>
      /\ Running(call.context.number) /\ outgoing = None /\ (IsEnhanced' <=> IsEnhanced)
  BY OwnOrLapsed, NoExchange
     DEF TakeReport, WaitTimesOut, linkVars, deviceVars, IsEnhanced, WaitSteps, ExchangeSteps
<1>2. ASSUME Held(active)', unsettled' => Held(None)', pc' \in {"idle", "proceed"}
      PROVE  DueInv'
  BY <1>2 DEF DueInv, Unserved, WaitSteps
<1>3. ~Unserved
  BY <1>1 DEF Unserved, WaitSteps
<1>4. ASSUME NEW refused, WaitEnds(refused, Due(call.context.number)) PROVE DueInv'
  <2>1. CASE pc = "sbow_accepted" /\ SelectAccepted /\ UNCHANGED lapsed
    <3>1. active' = call.context /\ ~unsettled' /\ pc' \in {"idle", "proceed"}
      BY <2>1 DEF SelectAccepted, Return
    <3>2. Held(call.context)
      BY <1>3, <2>1 DEF DueInv, Served, Selecting
    <3> QED
      BY <1>1, <1>2, <2>1, <3>1, <3>2, HeldKept
  <2>2. CASE /\ pc' = "idle"
             /\ lapsed' = IF Due(call.context.number) THEN lapsed \cup {call.context.number}
                          ELSE lapsed
    BY <1>1, <1>2, <2>2, GivenUp
  <2> QED
    BY <1>4, <2>1, <2>2 DEF WaitEnds, SelectRefused, Return
<1>5. CASE /\ reports # <<>> /\ reports' = Tail(reports)
           /\ UNCHANGED <<selectionVars, pc, call, acked, lapsed, unsettled>>
  <2>1. UNCHANGED <<active, pc, call, lapsed>>
    BY <1>5 DEF selectionVars
  <2>2. Reported(reports') \subseteq Reported(reports)
    BY <1>5, ReadFirst DEF ControlTypeOK
  <2>3. Served'
    <3>1. Served
      BY <1>3 DEF DueInv
    <3> QED
      BY <1>1, <2>1, <3>1, HeldKept DEF Served
  <2> QED
    BY <1>1, <1>3, <2>1, <2>2, <2>3 DEF DueInv, Unserved, WaitSteps
<1> QED
  BY <1>4, <1>5 DEF TakeReport, WaitTimesOut

\* What the device's work may still make it say survives its saying so.
LEMMA HeldSaid ==
  ASSUME UNCHANGED <<model, active, call, lapsed>>, dev_selected' \in {None, dev_selected},
         dev_running' \in {None, dev_running},
         NEW said, Reported(incoming') \subseteq Reported(incoming) \cup said,
         \A n \in said : \/ dev_running # None /\ n = dev_running.number
                         \/ IsEnhanced /\ dev_selected # None /\ n = dev_selected.number
  PROVE  /\ Held(active) => Held(active)'
         /\ Held(call.context) => Held(call.context)'
         /\ Held(None) => Held(None)'
         /\ Running(call.context.number) => Running(call.context.number)'
<1> IsEnhanced' <=> IsEnhanced
  BY DEF IsEnhanced
<1>1. Held(active) => Held(active)'
  BY DEF Held, ErrorOf
<1>2. Held(call.context) => Held(call.context)'
  BY DEF Held, ErrorOf
<1>3. Held(None) => Held(None)'
  BY DEF Held, ErrorOf
<1>4. Running(call.context.number) => Running(call.context.number)'
  BY DEF Running
<1> QED
  BY <1>1, <1>2, <1>3, <1>4

\* A report of the device's own accord is one that may come.
LEMMA SaidDue ==
  ASSUME ControlInv, DueInv,
         UNCHANGED <<model, active, outgoing, reports, pc, call, lapsed, unsettled>>,
         dev_selected' \in {None, dev_selected}, dev_running' \in {None, dev_running},
         NEW said,
         \A n \in said : \/ dev_running # None /\ n = dev_running.number
                         \/ IsEnhanced /\ dev_selected # None /\ n = dev_selected.number,
         Outcomes(incoming') \subseteq Outcomes(incoming),
         Reported(incoming') \subseteq Reported(incoming) \cup said,
         ReportedLate(incoming') \subseteq ReportedLate(incoming) \cup said
  PROVE  DueInv'
<1>1. (Unserved' <=> Unserved) /\ (IsEnhanced' <=> IsEnhanced)
  BY DEF Unserved, IsEnhanced
<1>2. Unserved' => Held(active)' /\ (unsettled' => Held(None)')
  BY <1>1, HeldSaid DEF DueInv
<1>3. ASSUME (~Unserved)' PROVE Served'
  <2>1. Served
    BY <1>1, <1>3 DEF DueInv
  <2>2. ASSUME pc = "cancel" PROVE ReportedLate(incoming') \subseteq lapsed
    BY <2>1, <2>2 DEF Served, Held
  <2> QED
    BY <1>1, <2>1, <2>2, HeldSaid DEF Served
<1> QED
  BY <1>1, <1>2, <1>3 DEF DueInv

\* The outcome of an answer, and the command a report names.
LEMMA PduParts ==
  /\ \A b \in BOOLEAN : Answer(b).positive = b
  /\ \A n : \A r \in Terminations(n) \cup LastApplErrors(n) : r.number = n
<1>1. \A b \in BOOLEAN : Answer(b).positive = b
  BY DEF Answer, Pdu
<1>2. \A n : \A r \in LastApplErrors(n) : r.number = n
  BY DEF LastApplErrors, Pdu
<1>3. \A n : \A r \in Terminations(n) : r \in LastApplErrors(n) \/ r.number = n
  BY DEF Terminations, Pdu
<1> QED
  BY <1>1, <1>2, <1>3

\* A termination, a lost selection, a process value.
LEMMA ReportDue ==
  ASSUME ControlInv, DueInv, DeviceTerminates \/ DeviceDeselects \/ DeviceReports
  PROVE  DueInv'
<1> ControlTypeOK
  BY DEF ControlInv
<1>1. UNCHANGED <<model, active, outgoing, reports, pc, call, lapsed, unsettled>>
  BY DEF DeviceTerminates, DeviceDeselects, DeviceReports, clientVars, selectionVars
<1>2. ASSUME NEW r \in Pdus, r.kind # "answer", Emit(<<r>>)
      PROVE  /\ Outcomes(incoming') \subseteq Outcomes(incoming)
             /\ Reported(incoming') \subseteq Reported(incoming) \cup Reported(<<r>>)
             /\ ReportedLate(incoming') \subseteq ReportedLate(incoming) \cup Reported(<<r>>)
  <2>1. incoming' = incoming \o <<r>> /\ incoming \in Seq(Pdus) /\ <<r>> \in Seq(Pdus)
    BY <1>2, PduSequences DEF Emit, ControlTypeOK
  <2>2. Outcomes(<<r>>) = {}
    BY <1>2, ReadPieces
  <2> QED
    BY <2>1, <2>2, ReadLast
<1>3. ASSUME dev_selected' \in {None, dev_selected}, dev_running' \in {None, dev_running},
             Outcomes(incoming') \subseteq Outcomes(incoming),
             Reported(incoming') \subseteq Reported(incoming),
             ReportedLate(incoming') \subseteq ReportedLate(incoming)
      PROVE  DueInv'
  <2> DEFINE nothing == {}
  <2>1. \A n \in nothing : FALSE
    OBVIOUS
  <2> HIDE DEF nothing
  <2>2. /\ Reported(incoming') \subseteq Reported(incoming) \cup nothing
        /\ ReportedLate(incoming') \subseteq ReportedLate(incoming) \cup nothing
    BY <1>3
  <2> QED
    BY <1>1, <1>3, <2>1, <2>2, SaidDue
<1>4. CASE DeviceTerminates
  <2>1. /\ dev_running # None /\ dev_running.number \in Numbers
        /\ dev_running' = None /\ dev_selected' = dev_selected
    BY <1>4, PieceTypes DEF DeviceTerminates, ControlTypeOK
  <2>2. PICK r \in Terminations(dev_running.number) : Emit(<<r>>)
    BY <1>4 DEF DeviceTerminates
  <2>3. r \in Pdus /\ r.kind # "answer" /\ r.number = dev_running.number
    BY <2>1, PduTypes, PduParts
  <2>4. Reported(<<r>>) \subseteq {dev_running.number}
    BY <2>3, ReadPieces
  <2> QED
    BY <1>1, <1>2, <2>1, <2>2, <2>3, <2>4, SaidDue
<1>5. CASE DeviceDeselects
  <2>1. /\ dev_selected # None /\ dev_selected.number \in Numbers
        /\ dev_selected' = None /\ dev_running' = dev_running
    BY <1>5, PieceTypes DEF DeviceDeselects, ControlTypeOK
  <2>2. CASE UNCHANGED incoming
    BY <1>3, <2>1, <2>2
  <2>3. ASSUME IsEnhanced, NEW r \in LastApplErrors(dev_selected.number), Emit(<<r>>)
        PROVE  DueInv'
    <3>1. r \in Pdus /\ r.kind # "answer" /\ r.number = dev_selected.number
      BY <2>1, PduTypes, PduParts
    <3>2. Reported(<<r>>) \subseteq {dev_selected.number}
      BY <3>1, ReadPieces
    <3> QED
      BY <1>1, <1>2, <2>1, <2>3, <3>1, <3>2, SaidDue
  <2> QED
    BY <1>5, <2>2, <2>3 DEF DeviceDeselects, IsEnhanced
<1>6. CASE DeviceReports
  <2>1. /\ Emit(<<ProcessReport>>) /\ UNCHANGED <<dev_selected, dev_running>>
        /\ ProcessReport \in Pdus /\ ProcessReport.kind = "process"
    BY <1>6, PduTypes DEF DeviceReports, deviceVars
  <2>2. Reported(<<ProcessReport>>) = {}
    BY <2>1, ReadPieces
  <2> QED
    BY <1>2, <1>3, <2>1, <2>2
<1> QED
  BY <1>4, <1>5, <1>6

\* The device takes a request: what it sends with the answer, and the
\* selection or command it takes on, are the request's own.
LEMMA RequestDue ==
  ASSUME ControlInv, DueInv, DeviceAccepts \/ DeviceRefuses
  PROVE  DueInv'
<1> ControlTypeOK /\ WireInv /\ KnownInv
  BY DEF ControlInv
<1>1. /\ UNCHANGED <<model, active, reports, pc, call, lapsed, unsettled>>
      /\ outgoing # None /\ outgoing' = None /\ (IsEnhanced' <=> IsEnhanced)
  BY DEF DeviceAccepts, DeviceRefuses, clientVars, selectionVars, IsEnhanced
<1>2. /\ incoming \in Seq(Pdus) /\ Outcomes(incoming) = {} /\ ReportedLate(incoming) = {}
      /\ outgoing.leaf = pc /\ (pc # "status" => outgoing.context = call.context)
      /\ pc \in ExchangeSteps
  BY <1>1, ReadPieces DEF ControlTypeOK, WireInv, Requests
<1>3. /\ Held(active) /\ (unsettled => Held(None))
      /\ pc \in {"select", "sbow"} => Held(None)
  BY <1>1 DEF DueInv, Unserved, KnownInv, Selecting
<1>4. ASSUME NEW b \in BOOLEAN, Emit(<<Answer(b)>>)
      PROVE  /\ Outcomes(incoming') \subseteq {b} /\ ReportedLate(incoming') = {}
             /\ Reported(incoming') \subseteq Reported(incoming)
  <2>1. Answer(b) \in Pdus /\ Answer(b).kind = "answer" /\ Answer(b).positive = b
    BY PduTypes, PduParts
  <2>2. Outcomes(<<Answer(b)>>) = {b} /\ Reported(<<Answer(b)>>) = {}
    BY <2>1, ReadPieces
  <2>3. incoming' = incoming \o <<Answer(b)>> /\ <<Answer(b)>> \in Seq(Pdus)
    BY <1>4, <2>1 DEF Emit
  <2> QED
    BY <1>2, <2>2, <2>3, ReadLast
<1>5. CASE DeviceAccepts
  <2>1. /\ Outcomes(incoming') \subseteq {TRUE} /\ ReportedLate(incoming') = {}
        /\ Reported(incoming') \subseteq Reported(incoming) /\ Accepts(outgoing)
    BY <1>4, <1>5 DEF DeviceAccepts
  <2>2. CASE pc \in {"select", "sbow"}
    <3>1. dev_selected' = call.context /\ dev_running' = dev_running
      BY <1>2, <2>1, <2>2 DEF Accepts
    <3>2. Held(call.context)'
      BY <1>1, <1>3, <2>1, <2>2, <3>1 DEF Held, ErrorOf
    <3> QED
      BY <1>1, <2>1, <2>2, <3>2 DEF DueInv, Unserved, Served
  <2>3. CASE pc = "oper"
    <3>1. /\ dev_selected' = None
          /\ dev_running' = IF IsEnhanced THEN call.context ELSE None
          /\ active \in {None, call.context}
      BY <1>2, <2>1, <2>3 DEF Accepts, DueInv
    <3>2. Running(call.context.number)'
      BY <1>1, <1>3, <2>1, <3>1 DEF Held, Running, ErrorOf
    <3>3. ~IsEnhanced => Held(None)'
      BY <1>1, <1>3, <2>1, <3>1 DEF Held, ErrorOf
    <3> QED
      BY <1>1, <2>1, <2>3, <3>2, <3>3 DEF DueInv, Unserved, Served, Selecting
  <2>4. CASE pc = "cancel"
    <3>1. dev_selected' = None /\ dev_running' = dev_running
      BY <1>2, <2>1, <2>4 DEF Accepts
    <3>2. Held(active)'
      BY <1>1, <1>3, <2>1, <3>1 DEF Held, ErrorOf
    <3> QED
      BY <1>1, <2>1, <2>4, <3>1, <3>2 DEF DueInv, Unserved, Served, Selecting, WaitSteps
  <2>5. CASE pc = "status"
    <3>1. UNCHANGED <<dev_selected, dev_running>>
      BY <1>2, <2>1, <2>5 DEF Accepts, deviceVars
    <3>2. Held(active)' /\ (unsettled' => Held(None)')
      BY <1>1, <1>3, <2>1, <3>1 DEF Held, ErrorOf
    <3> QED
      BY <1>1, <2>5, <3>2 DEF DueInv, Unserved, WaitSteps
  <2> QED
    BY <1>2, <2>2, <2>3, <2>4, <2>5 DEF ExchangeSteps
<1>6. CASE DeviceRefuses
  <2>1. /\ UNCHANGED <<dev_selected, dev_running>>
        /\ pc = "cancel" => dev_selected # call.context
    BY <1>2, <1>6 DEF DeviceRefuses, deviceVars
  <2>2. CASE Emit(<<Answer(FALSE)>>)
    <3>1. /\ Outcomes(incoming') \subseteq {FALSE} /\ ReportedLate(incoming') = {}
          /\ Reported(incoming') \subseteq Reported(incoming)
      BY <1>4, <2>2
    <3>2. CASE pc \in {"select", "sbow"}
      <4>1. Held(None)' /\ Held(call.context)'
        BY <1>1, <1>3, <2>1, <3>1, <3>2 DEF Held, ErrorOf
      <4> QED
        BY <1>1, <3>1, <3>2, <4>1 DEF DueInv, Unserved, Served
    <3>3. CASE pc = "oper"
      <4>1. Running(call.context.number)'
        BY <1>1, <1>3, <2>1, <3>1, <3>3 DEF Held, Running, ErrorOf, DueInv
      <4> QED
        BY <1>1, <3>1, <3>3, <4>1 DEF DueInv, Unserved, Served, Selecting
    <3>4. CASE pc = "cancel"
      <4>1. Held(active)' /\ (dev_selected' # None => dev_selected'.number \in lapsed)
        BY <1>1, <1>3, <2>1, <3>1, <3>4 DEF Held, ErrorOf, DueInv
      <4> QED
        BY <1>1, <3>1, <3>4, <4>1 DEF DueInv, Unserved, Served, Selecting, WaitSteps
    <3>5. CASE pc = "status"
      <4>1. Held(active)' /\ (unsettled' => Held(None)')
        BY <1>1, <1>3, <2>1, <3>1 DEF Held, ErrorOf
      <4> QED
        BY <1>1, <3>5, <4>1 DEF DueInv, Unserved, WaitSteps
    <3> QED
      BY <1>2, <3>2, <3>3, <3>4, <3>5 DEF ExchangeSteps
  <2>3. ASSUME pc \in {"sbow", "oper"}, NEW error \in LastApplErrors(call.context.number),
               Emit(<<error, Answer(FALSE)>>) \/ Emit(<<Answer(FALSE), error>>)
        PROVE  DueInv'
    <3>1. call.context # None /\ call.context.number \in Numbers
      BY <2>3, PieceTypes DEF KnownInv, Selecting, ControlTypeOK
    <3>2. /\ error \in Pdus /\ error.kind = "termination" /\ error.number = call.context.number
          /\ Answer(FALSE) \in Pdus /\ Answer(FALSE).kind = "answer"
          /\ Answer(FALSE).positive = FALSE
      BY <3>1, PduTypes, PduParts
    <3>3. PICK t \in {<<error, Answer(FALSE)>>, <<Answer(FALSE), error>>} : Emit(t)
      BY <2>3
    <3>4. /\ Outcomes(t) = {FALSE} /\ Reported(t) \subseteq {call.context.number}
          /\ t \in Seq(Pdus)
      <4>1. \A p, q \in Pdus : <<p, q>> \in Seq(Pdus)
        OBVIOUS
      <4>2. CASE t = <<error, Answer(FALSE)>>
        BY <3>2, <4>1, <4>2, ReadPieces
      <4>3. CASE t = <<Answer(FALSE), error>>
        BY <3>2, <4>1, <4>3, ReadPieces
      <4> QED
        BY <4>2, <4>3
    <3>5. incoming' = incoming \o t
      BY <3>3 DEF Emit
    <3>6. /\ Outcomes(incoming') \subseteq {FALSE}
          /\ Reported(incoming') \subseteq Reported(incoming) \cup {call.context.number}
      BY <1>2, <3>4, <3>5, ReadLast
    <3>7. CASE pc = "sbow"
      <4>1. Held(call.context)'
        BY <1>1, <1>3, <2>1, <3>1, <3>6, <3>7 DEF Held, ErrorOf, DueInv
      <4> QED
        BY <1>1, <3>7, <4>1 DEF DueInv, Unserved, Served
    <3>8. CASE pc = "oper"
      <4>1. Running(call.context.number)'
        BY <1>1, <1>3, <2>1, <3>6, <3>8 DEF Held, Running, ErrorOf, DueInv
      <4> QED
        BY <1>1, <3>6, <3>8, <4>1 DEF DueInv, Unserved, Served, Selecting
    <3> QED
      BY <2>3, <3>7, <3>8
  <2> QED
    BY <1>2, <1>6, <2>2, <2>3 DEF DeviceRefuses
<1> QED
  BY <1>5, <1>6

-----------------------------------------------------------------------------
\* DueInv is inductive, given ControlInv.
LEMMA DueInvariant == ControlLinkSpec => []DueInv
<1>1. ControlLinkInit => DueInv
  <2> SUFFICES ASSUME ControlLinkInit PROVE DueInv
    OBVIOUS
  <2>1. /\ pc = "idle" /\ incoming = <<>> /\ dev_selected = None /\ dev_running = None
    BY DEF ControlLinkInit, SessionInit
  <2>2. Held(active) /\ Held(None)
    BY <2>1, ReadPieces DEF Held
  <2> QED
    BY <2>1, <2>2 DEF DueInv, Unserved, WaitSteps
<1>2. ControlInv /\ DueInv /\ [ControlLinkNext]_controlLinkVars => DueInv'
  <2> SUFFICES ASSUME ControlInv, DueInv, [ControlLinkNext]_controlLinkVars PROVE DueInv'
    OBVIOUS
  <2>1. CASE SessionStep /\ UNCHANGED deviceVars
    BY <2>1, CallsDue, RouteDue, AnswerDue, FreshDue DEF SessionStep
  <2>2. CASE (Fault \/ Disconnect) /\ DeviceForgets
    BY <2>2, FreshDue
  <2>3. CASE /\ pc \in WaitSteps
             /\ TakeReport(Due(call.context.number)) \/ WaitTimesOut(Due(call.context.number))
             /\ UNCHANGED deviceVars
    BY <2>3, WaitDue
  <2>7. CASE /\ \/ pc \in WaitSteps /\ ReportThrows(Due(call.context.number))
                \/ AnswerThrows(pc # "status" /\ Due(call.context.number))
             /\ UNCHANGED deviceVars
    BY <2>7, ThrownDue
  <2>4. CASE DeviceAccepts \/ DeviceRefuses
    BY <2>4, RequestDue
  <2>5. CASE DeviceTerminates \/ DeviceDeselects \/ DeviceReports
    BY <2>5, ReportDue
  <2>6. CASE UNCHANGED controlLinkVars
    BY <2>6, FreshDue
  <2> QED
    BY <2>1, <2>2, <2>3, <2>4, <2>5, <2>6, <2>7 DEF ControlLinkNext
<1> QED
  BY <1>1, <1>2, ControlInvariant, PTL DEF ControlLinkSpec

\* A wait for a LastApplError or a CommandTermination is only ever ended by a
\* report of the command it waits for, or of one that was given up while its
\* report was still due: draining the queue before SBOw and Oper is enough,
\* wherever the other reports are when it is drained.
THEOREM AlwaysCompletedByOwnReport == ControlLinkSpec => CompletedByOwnReport
<1> DEFINE Completed ==
      (pc \in WaitSteps /\ reports # <<>> /\ reports' = Tail(reports) /\ Correlates(Head(reports)))
        => Head(reports).number \in {call.context.number} \cup lapsed
<1>1. ControlInv /\ DueInv => Completed
  <2> SUFFICES ASSUME ControlInv, DueInv, pc \in WaitSteps, reports # <<>>,
                      Correlates(Head(reports))
               PROVE  Head(reports).number \in {call.context.number} \cup lapsed
    OBVIOUS
  <2>1. Head(reports).number \in Reported(reports)
    BY ReadFirst DEF ControlInv, ControlTypeOK, Correlates
  <2> QED
    BY <2>1 DEF DueInv
<1>2. ControlInv /\ DueInv => [Completed]_controlLinkVars
  BY <1>1
<1> QED
  BY <1>2, ControlInvariant, DueInvariant, PTL DEF CompletedByOwnReport

=============================================================================
