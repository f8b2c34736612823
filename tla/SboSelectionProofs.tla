------------------------- MODULE SboSelectionProofs -------------------------
(***************************************************************************)
(* What holds of the server's select-before-operate for any number of      *)
(* associations, commands and retries, and for both kinds of host.         *)
(*                                                                         *)
(* SelectionInv carries what holds under any interleaving of threads.      *)
(* What a granted selection promises until its deadline is proved for a    *)
(* host whose calls do not interleave (LoopInv): there the owner and the   *)
(* deadline change within one call, and agree between calls.               *)
(***************************************************************************)
EXTENDS SboSelection, TLAPS

-----------------------------------------------------------------------------
(* Type correctness.                                                       *)

Call == [op : {"none", "select", "operate", "cancel", "close"},
         command : Commands \cup {None}, start : 0..TimeMax,
         owner : Associations \cup {None}, attempt : 0..(MaxAttempts - 1)]

\* Returning from a call, or retrying it, leaves well-typed registers.
LEMMA ControlTypes ==
  ASSUME SelectionTypeOK, NEW a \in Associations
  PROVE  /\ NoCall \in Call
         /\ Return(a) => /\ pc' \in [Associations -> Accesses \cup {"idle", "closed"}]
                         /\ call' \in [Associations -> Call]
         /\ Retry(a) => /\ pc' \in [Associations -> Accesses \cup {"idle", "closed"}]
                        /\ call' \in [Associations -> Call]
<1>1. NoCall \in Call
  BY SelectionAssumption DEF NoCall, Call
<1>2. call \in [Associations -> Call]
  BY DEF SelectionTypeOK, Call
<1>3. pc \in [Associations -> Accesses \cup {"idle", "closed"}]
  BY DEF SelectionTypeOK
<1>4. Return(a) => /\ pc' \in [Associations -> Accesses \cup {"idle", "closed"}]
                   /\ call' \in [Associations -> Call]
  BY <1>1, <1>2, <1>3 DEF Return, Goto
<1>5. ASSUME Retry(a), call[a].attempt + 1 < MaxAttempts
      PROVE  /\ pc' \in [Associations -> Accesses \cup {"idle", "closed"}]
             /\ call' \in [Associations -> Call]
  <2>1. pc' = [pc EXCEPT ![a] = "load_owner"]
        /\ call' = [call EXCEPT ![a].attempt = @ + 1]
    BY <1>5 DEF Retry, Goto
  <2>2. call[a] \in Call /\ call[a].attempt + 1 \in 0..(MaxAttempts - 1)
    BY <1>2, <1>5, SelectionAssumption DEF Call
  <2>3. [call[a] EXCEPT !.attempt = @ + 1] \in Call
    BY <2>2 DEF Call
  <2> QED
    BY <1>2, <1>3, <2>1, <2>3 DEF Accesses
<1>6. Retry(a) => /\ pc' \in [Associations -> Accesses \cup {"idle", "closed"}]
                  /\ call' \in [Associations -> Call]
  BY <1>4, <1>5 DEF Retry
<1> QED
  BY <1>1, <1>4, <1>6

\* Every step keeps the types.
LEMMA SelectionTypeStep ==
  ASSUME SelectionTypeOK, [SelectionNext]_selectionVars
  PROVE  SelectionTypeOK'
<1> host' = host
  BY DEF SelectionNext, selectionVars
<1> USE DEF SelectionTypeOK
<1>0. /\ call \in [Associations -> Call] /\ NoCall \in Call
      /\ Timeout \in Nat \ {0} /\ TimeMax \in Nat /\ 0 \in 0..(TimeMax + Timeout)
      /\ \A t \in 0..TimeMax : t + Timeout \in 0..(TimeMax + Timeout)
  BY SelectionAssumption DEF NoCall, Call
<1>1. ASSUME NEW a \in Associations, NEW c \in Commands,
             Select(a, c) \/ Operate(a, c) \/ Cancel(a, c)
      PROVE  SelectionTypeOK'
  <2>1. PICK op \in {"select", "operate", "cancel"},
             access \in {"load_owner", "check_owner"} : Begin(a, op, c, access)
    BY <1>1 DEF Select, Operate, Cancel
  <2>2. [NoCall EXCEPT !.op = op, !.command = c, !.start = now] \in Call
    BY <1>0 DEF Call
  <2>3. call' \in [Associations -> Call]
    BY <1>0, <2>1, <2>2 DEF Begin
  <2>4. pc' \in [Associations -> Accesses \cup {"idle", "closed"}]
    BY <2>1 DEF Begin, Goto, Accesses
  <2> QED
    BY <2>1, <2>3, <2>4 DEF Begin, sharedVars, localVars, Call
<1>2. ASSUME NEW a \in Associations, Close(a)
      PROVE  SelectionTypeOK'
  <2>1. [NoCall EXCEPT !.op = "close"] \in Call
    BY <1>0 DEF Call
  <2>2. call' \in [Associations -> Call]
    BY <1>0, <1>2, <2>1 DEF Close
  <2>3. pc' \in [Associations -> Accesses \cup {"idle", "closed"}]
    BY <1>2 DEF Close, Goto, Accesses
  <2> QED
    BY <1>2, <2>2, <2>3 DEF Close, sharedVars, Call
<1>3. ASSUME NEW a \in Associations, SendTermination(a)
      PROVE  SelectionTypeOK'
  BY <1>3 DEF SendTermination, sharedVars
<1>4. CASE Clock
  BY <1>0, <1>4 DEF Clock, sharedVars, localVars
<1>5. ASSUME NEW a \in Associations, LoadOwner(a), UNCHANGED now
      PROVE  SelectionTypeOK'
  <2>1. [call[a] EXCEPT !.owner = selected_association_id] \in Call
    BY <1>0 DEF Call
  <2>2. call' \in [Associations -> Call]
    BY <1>0, <1>5, <2>1 DEF LoadOwner
  <2>3. pc' \in [Associations -> Accesses \cup {"idle", "closed"}]
    BY <1>5 DEF LoadOwner, Goto, Accesses
  <2> QED
    BY <1>5, <2>2, <2>3 DEF LoadOwner, sharedVars, localVars, Call
<1>6. ASSUME NEW a \in Associations, LoadDeadline(a), UNCHANGED now
      PROVE  SelectionTypeOK'
  BY <1>6, ControlTypes DEF LoadDeadline, Denied, Goto, Accesses, sharedVars, localVars, Call
<1>7. ASSUME NEW a \in Associations, Evict(a), UNCHANGED now
      PROVE  SelectionTypeOK'
  BY <1>7, ControlTypes DEF Evict, Goto, Accesses, localVars, Call
<1>8. ASSUME NEW a \in Associations, ClearEvicted(a), UNCHANGED now
      PROVE  SelectionTypeOK'
  BY <1>0, <1>8, ControlTypes DEF ClearEvicted, localVars, Call
<1>9. ASSUME NEW a \in Associations, Claim(a), UNCHANGED now
      PROVE  SelectionTypeOK'
  BY <1>9, ControlTypes DEF Claim, Goto, Accesses, localVars, Call
<1>10. ASSUME NEW a \in Associations, StoreDeadline(a), UNCHANGED now
       PROVE  SelectionTypeOK'
  <2>1. call[a].start + Timeout \in 0..(TimeMax + Timeout)
        /\ call[a].command \in Commands \cup {None}
    BY <1>0 DEF Call
  <2> QED
    BY <1>10, <2>1, ControlTypes DEF StoreDeadline, Granted, Call
<1>11. ASSUME NEW a \in Associations, CheckOwner(a), UNCHANGED now
       PROVE  SelectionTypeOK'
  <2>1. CASE selected_association_id = a
    <3>1. [call[a] EXCEPT !.start = now] \in Call
      BY <1>0 DEF Call
    <3>2. call' \in [Associations -> Call]
      BY <1>0, <1>11, <2>1, <3>1 DEF CheckOwner
    <3>3. pc' \in [Associations -> Accesses \cup {"idle", "closed"}]
      BY <1>11, <2>1 DEF CheckOwner, Goto, Accesses
    <3> QED
      BY <1>11, <2>1, <3>2, <3>3 DEF CheckOwner, sharedVars, localVars, Call
  <2>2. CASE selected_association_id # a
    BY <1>11, <2>2, ControlTypes DEF CheckOwner, Denied, sharedVars, localVars, Call
  <2> QED
    BY <2>1, <2>2
<1>12. ASSUME NEW a \in Associations, CheckDeadline(a), UNCHANGED now
       PROVE  SelectionTypeOK'
  BY <1>12, ControlTypes DEF CheckDeadline, Denied, Goto, Accesses, sharedVars, localVars, Call
<1>13. ASSUME NEW a \in Associations, Apply(a), UNCHANGED now
       PROVE  SelectionTypeOK'
  <2>1. call[a].command \in Commands \cup {None} /\ Enhanced \in BOOLEAN
    BY <1>0, SelectionAssumption DEF Call
  <2>2. value' \in Commands \cup {None}
    BY <1>13, <2>1 DEF Apply
  <2>3. pc' \in [Associations -> Accesses \cup {"idle", "closed"}]
    BY <1>13 DEF Apply, Goto, Accesses
  <2> QED
    BY <1>0, <1>13, <2>1, <2>2, <2>3 DEF Apply
<1>14. ASSUME NEW a \in Associations, ReleaseOwner(a), UNCHANGED now
       PROVE  SelectionTypeOK'
  BY <1>0, <1>14, ControlTypes DEF ReleaseOwner, Goto, Accesses, Call
<1>15. ASSUME NEW a \in Associations, ClearReleased(a), UNCHANGED now
       PROVE  SelectionTypeOK'
  BY <1>0, <1>15, ControlTypes DEF ClearReleased, Call
<1>16. CASE UNCHANGED selectionVars
  BY <1>16 DEF selectionVars, sharedVars, localVars
<1> QED
  BY <1>1, <1>2, <1>3, <1>4, <1>5, <1>6, <1>7, <1>8, <1>9, <1>10, <1>11, <1>12,
     <1>13, <1>14, <1>15, <1>16 DEF SelectionNext, SelectionStep, Access

\* The shared atomics and every association's registers keep their types; in
\* particular no retry of acquire_selection goes past MaxAttempts.
THEOREM SelectionTypeCorrect == SelectionSpec => []SelectionTypeOK
<1>1. SelectionInit => SelectionTypeOK
  BY SelectionAssumption DEF SelectionInit, SelectionTypeOK, NoCall, Accesses
<1> QED
  BY <1>1, SelectionTypeStep, PTL DEF SelectionSpec

-----------------------------------------------------------------------------
(* What a thread knows of the selection at each of its accesses.           *)

\* A closing call only releases; an association past its release does not
\* own the selection, and only its own Claim could make it the owner again.
ReleasedKnows(a) ==
  /\ call[a].op = "close" => pc[a] \in {"release", "clear_released"}
  /\ pc[a] \in {"clear_released", "closed"} => selected_association_id # a

\* An owner was told so, or is about to be told or to release; Oper and
\* Cancel go on past the owner check only for an association that was told.
OwnerKnows(a) ==
  /\ selected_association_id = a => granted[a] # 0 \/ pc[a] \in {"store_deadline", "release"}
  /\ pc[a] \in {"check_deadline", "apply"} => granted[a] # 0

SelectionInv ==
  /\ SelectionTypeOK
  /\ \A a \in Associations : ReleasedKnows(a) /\ OwnerKnows(a)

\* Every step keeps what the threads know.
LEMMA SelectionInvStep ==
  ASSUME SelectionInv, [SelectionNext]_selectionVars
  PROVE  SelectionInv'
<1> SelectionTypeOK /\ SelectionTypeOK'
  BY SelectionTypeStep DEF SelectionInv
<1> USE DEF SelectionTypeOK
<1>1. ASSUME NEW a \in Associations, NEW c \in Commands,
             Select(a, c) \/ Operate(a, c) \/ Cancel(a, c)
      PROVE  SelectionInv'
  <2>1. PICK op \in {"select", "operate", "cancel"},
             access \in {"load_owner", "check_owner"} : Begin(a, op, c, access)
    BY <1>1 DEF Select, Operate, Cancel
  <2> QED
    BY <2>1
       DEF Begin, Idle, Goto, NoCall, sharedVars, localVars, SelectionInv,
           ReleasedKnows, OwnerKnows
<1>2. ASSUME NEW a \in Associations, Close(a)
      PROVE  SelectionInv'
  BY <1>2
     DEF Close, Idle, Goto, NoCall, sharedVars, localVars, SelectionInv, ReleasedKnows,
         OwnerKnows
<1>3. ASSUME NEW a \in Associations, SendTermination(a)
      PROVE  SelectionInv'
  BY <1>3
     DEF SendTermination, sharedVars, localVars, SelectionInv, ReleasedKnows,
         OwnerKnows
<1>4. CASE Clock
  BY <1>4
     DEF Clock, sharedVars, localVars, SelectionInv, ReleasedKnows, OwnerKnows
<1>5. ASSUME NEW a \in Associations, LoadOwner(a), UNCHANGED now
      PROVE  SelectionInv'
  BY <1>5
     DEF LoadOwner, Goto, sharedVars, localVars, SelectionInv, ReleasedKnows,
         OwnerKnows
<1>6. ASSUME NEW a \in Associations, LoadDeadline(a), UNCHANGED now
      PROVE  SelectionInv'
  BY <1>6
     DEF LoadDeadline, Denied, Return, NoCall, Goto, sharedVars, localVars,
         SelectionInv, ReleasedKnows, OwnerKnows
<1>7. ASSUME NEW a \in Associations, Evict(a), UNCHANGED now
      PROVE  SelectionInv'
  BY <1>7, SelectionAssumption
     DEF Evict, Retry, Return, NoCall, Goto, localVars, SelectionInv, ReleasedKnows, OwnerKnows
<1>8. ASSUME NEW a \in Associations, ClearEvicted(a), UNCHANGED now
      PROVE  SelectionInv'
  BY <1>8
     DEF ClearEvicted, Retry, Return, NoCall, Goto, localVars, SelectionInv,
         ReleasedKnows, OwnerKnows
<1>9. ASSUME NEW a \in Associations, Claim(a), UNCHANGED now
      PROVE  SelectionInv'
  BY <1>9, SelectionAssumption
     DEF Claim, Retry, Return, NoCall, Goto, localVars, SelectionInv, ReleasedKnows, OwnerKnows
<1>10. ASSUME NEW a \in Associations, StoreDeadline(a), UNCHANGED now
       PROVE  SelectionInv'
  <2>1. call[a].start + Timeout # 0
    BY SelectionAssumption
  <2> QED
    BY <1>10, <2>1
       DEF StoreDeadline, Granted, Return, NoCall, Goto, SelectionInv, ReleasedKnows,
           OwnerKnows
<1>11. ASSUME NEW a \in Associations, CheckOwner(a), UNCHANGED now
       PROVE  SelectionInv'
  BY <1>11
     DEF CheckOwner, Denied, Return, NoCall, Goto, sharedVars, localVars, SelectionInv,
         ReleasedKnows, OwnerKnows
<1>12. ASSUME NEW a \in Associations, CheckDeadline(a), UNCHANGED now
       PROVE  SelectionInv'
  BY <1>12
     DEF CheckDeadline, Accepts, Denied, Return, NoCall, Goto, sharedVars, localVars,
         SelectionInv, ReleasedKnows, OwnerKnows
<1>13. ASSUME NEW a \in Associations, Apply(a), UNCHANGED now
       PROVE  SelectionInv'
  BY <1>13 DEF Apply, Goto, SelectionInv, ReleasedKnows, OwnerKnows
<1>14. ASSUME NEW a \in Associations, ReleaseOwner(a), UNCHANGED now
       PROVE  SelectionInv'
  BY <1>14, SelectionAssumption
     DEF ReleaseOwner, Return, NoCall, Goto, SelectionInv, ReleasedKnows, OwnerKnows
<1>15. ASSUME NEW a \in Associations, ClearReleased(a), UNCHANGED now
       PROVE  SelectionInv'
  BY <1>15
     DEF ClearReleased, Return, NoCall, Goto, SelectionInv, ReleasedKnows, OwnerKnows
<1>16. CASE UNCHANGED selectionVars
  BY <1>16
     DEF selectionVars, sharedVars, localVars, SelectionInv, ReleasedKnows, OwnerKnows
<1> QED
  BY <1>1, <1>2, <1>3, <1>4, <1>5, <1>6, <1>7, <1>8, <1>9, <1>10, <1>11, <1>12,
     <1>13, <1>14, <1>15, <1>16 DEF SelectionNext, SelectionStep, Access

\* Hence every reachable state satisfies it.
LEMMA SelectionInvariant == SelectionSpec => []SelectionInv
<1>1. SelectionInit => SelectionInv
  BY SelectionAssumption
     DEF SelectionInit, SelectionInv, SelectionTypeOK, NoCall, Accesses, ReleasedKnows, OwnerKnows
<1> QED
  BY <1>1, SelectionInvStep, PTL DEF SelectionSpec

\* A closed association holds no selection, whatever the other threads are
\* in the middle of: on_association_closed leaks none.
THEOREM ClosedAlwaysReleases == SelectionSpec => []ClosedReleases
<1>1. SelectionInv => ClosedReleases
  BY DEF SelectionInv, ReleasedKnows, ClosedReleases
<1> QED
  BY <1>1, SelectionInvariant, PTL

\* A command is applied only for an association that was told it is selected
\* and has not used or given up that selection, for any number of threads.
THEOREM AlwaysOneOperatePerSelect == SelectionSpec => []OneOperatePerSelect
<1>1. SelectionInv => OneOperatePerSelect
  BY DEF SelectionInv, OwnerKnows, OneOperatePerSelect
<1> QED
  BY <1>1, SelectionInvariant, PTL

-----------------------------------------------------------------------------
(* A host that runs one call at a time.                                    *)

Resting(a) == pc[a] \in {"idle", "closed"}

\* While one call runs, the others rest.
OneMover == \A a, b \in Associations : a # b => Resting(a) \/ Resting(b)

\* Nothing is granted ahead of the clock by more than the time-out, and a
\* grant that has not run out is the selection.
GrantKnows(a) ==
  /\ call[a].start <= now
  /\ granted[a] <= now + Timeout
  /\ now < granted[a] => selected_association_id = a

\* The owner's deadline is the one it was granted, except inside the calls
\* that are about to store it or to give the selection up.
DeadlineKnows(a) ==
  (selected_association_id = a /\ pc[a] \notin {"store_deadline", "release"}) =>
    granted[a] = selection_deadline /\ selection_deadline # 0

\* What the running call has learnt of the owner stays true until it ends.
CallKnows(a) ==
  /\ pc[a] \in {"store_deadline", "check_deadline", "apply"} => selected_association_id = a
  /\ pc[a] \in {"clear_evicted", "clear_released"} => selected_association_id = None
  /\ pc[a] \in {"load_deadline", "evict"} => call[a].owner # a
  /\ pc[a] = "evict" => SelectionExpired(call[a].start)

LoopInv ==
  /\ OneMover
  /\ \A a \in Associations : GrantKnows(a) /\ DeadlineKnows(a) /\ CallKnows(a)

SerializedInv == Serialized => LoopInv

\* A step of one association, with every other at rest, leaves the others at
\* rest.
LEMMA OneMoverStep ==
  ASSUME SelectionTypeOK, NEW a \in Associations, NEW access,
         \A b \in Associations : b # a => Resting(b), Goto(a, access)
  PROVE  OneMover'
  BY DEF SelectionTypeOK, Resting, Goto, OneMover

\* In one loop every step keeps what its call knows.
LEMMA LoopStep ==
  ASSUME SelectionInv, LoopInv, Serialized, [SelectionNext]_selectionVars
  PROVE  LoopInv'
<1> SelectionTypeOK /\ SelectionTypeOK'
  BY SelectionTypeStep DEF SelectionInv
<1> /\ Timeout \in Nat \ {0} /\ TimeMax \in Nat /\ now \in Nat
    /\ \A b \in Associations : granted[b] \in Nat /\ call[b].start \in Nat /\ b # None
  BY SelectionAssumption DEF SelectionTypeOK
<1> USE DEF SelectionTypeOK
<1>1. ASSUME NEW a \in Associations, Idle(a), NEW access, Goto(a, access),
             access \in {"load_owner", "check_owner", "release"}, now' = now,
             call' = [call EXCEPT ![a] = call'[a]], call'[a].start <= now,
             UNCHANGED <<sharedVars, granted>>
      PROVE  LoopInv'
  <2>1. \A b \in Associations : Resting(b)
    BY <1>1 DEF Idle, Resting
  <2>2. OneMover'
    BY <1>1, <2>1, OneMoverStep
  <2>3. ASSUME NEW b \in Associations
        PROVE  (GrantKnows(b) /\ DeadlineKnows(b) /\ CallKnows(b))'
    BY <1>1, <2>1 DEF Goto, sharedVars, Resting, LoopInv, GrantKnows, DeadlineKnows, CallKnows
  <2> QED
    BY <2>2, <2>3 DEF LoopInv
<1>2. ASSUME NEW a \in Associations, NEW c \in Commands,
             Select(a, c) \/ Operate(a, c) \/ Cancel(a, c)
      PROVE  LoopInv'
  <2>1. PICK op \in {"select", "operate", "cancel"},
             access \in {"load_owner", "check_owner"} : Begin(a, op, c, access)
    BY <1>2 DEF Select, Operate, Cancel
  <2>2. /\ Idle(a) /\ Goto(a, access) /\ now' = now /\ UNCHANGED <<sharedVars, granted>>
        /\ call' = [call EXCEPT ![a] = call'[a]] /\ call'[a].start <= now
    BY <2>1 DEF Begin, NoCall
  <2> QED
    BY <1>1, <2>2
<1>3. ASSUME NEW a \in Associations, Close(a)
      PROVE  LoopInv'
  <2>1. /\ Idle(a) /\ Goto(a, "release") /\ now' = now /\ UNCHANGED <<sharedVars, granted>>
        /\ call' = [call EXCEPT ![a] = call'[a]] /\ call'[a].start <= now
    BY <1>3 DEF Close, NoCall
  <2> QED
    BY <1>1, <2>1
<1>4. ASSUME NEW a \in Associations, SendTermination(a)
      PROVE  LoopInv'
  BY <1>4 DEF SendTermination, sharedVars, Resting, SelectionExpired, LoopInv, OneMover,
     GrantKnows, DeadlineKnows, CallKnows
<1>5. CASE Clock
  BY <1>5 DEF Clock, sharedVars, Resting, SelectionExpired, LoopInv, OneMover,
     GrantKnows, DeadlineKnows, CallKnows
<1>6. ASSUME NEW a \in Associations, Access(a)
      PROVE  \A b \in Associations : b # a => Resting(b)
  BY <1>6 DEF Access, LoadOwner, LoadDeadline, Evict, ClearEvicted, Claim, StoreDeadline,
     CheckOwner, CheckDeadline, Apply, ReleaseOwner, ClearReleased, Resting, LoopInv, OneMover
<1>7. ASSUME NEW a \in Associations, LoadOwner(a), UNCHANGED now
      PROVE  LoopInv'
  <2>1. \A b \in Associations : b # a => Resting(b)
    BY <1>6, <1>7 DEF Access
  <2>2. OneMover'
    BY <1>7, <2>1, OneMoverStep DEF LoadOwner, Goto, sharedVars, localVars
  <2>3. (GrantKnows(a) /\ DeadlineKnows(a) /\ CallKnows(a))'
    BY <1>7
       DEF LoadOwner, Goto, sharedVars, localVars, SelectionExpired, LoopInv,
           GrantKnows, DeadlineKnows, CallKnows
  <2>4. ASSUME NEW b \in Associations, b # a
        PROVE  (GrantKnows(b) /\ DeadlineKnows(b) /\ CallKnows(b))'
    BY <1>7, <2>1, <2>4
       DEF LoadOwner, Goto, sharedVars, localVars, SelectionExpired, Resting, LoopInv,
           GrantKnows, DeadlineKnows, CallKnows
  <2> QED
    BY <2>2, <2>3, <2>4 DEF LoopInv
<1>8. ASSUME NEW a \in Associations, LoadDeadline(a), UNCHANGED now
      PROVE  LoopInv'
  <2>1. \A b \in Associations : b # a => Resting(b)
    BY <1>6, <1>8 DEF Access
  <2>2. OneMover'
    BY <1>8, <2>1, OneMoverStep
       DEF LoadDeadline, SelectionExpired, Denied, Return, NoCall, Goto, sharedVars,
           localVars
  <2>3. (GrantKnows(a) /\ DeadlineKnows(a) /\ CallKnows(a))'
    BY <1>8
       DEF LoadDeadline, SelectionExpired, Denied, Return, NoCall, Goto, sharedVars,
           localVars, SelectionExpired, LoopInv, GrantKnows, DeadlineKnows, CallKnows
  <2>4. ASSUME NEW b \in Associations, b # a
        PROVE  (GrantKnows(b) /\ DeadlineKnows(b) /\ CallKnows(b))'
    BY <1>8, <2>1, <2>4
       DEF LoadDeadline, SelectionExpired, Denied, Return, NoCall, Goto, sharedVars,
           localVars, SelectionExpired, Resting, LoopInv, GrantKnows, DeadlineKnows,
           CallKnows
  <2> QED
    BY <2>2, <2>3, <2>4 DEF LoopInv
<1>9. ASSUME NEW a \in Associations, Evict(a), UNCHANGED now
      PROVE  LoopInv'
  <2>1. \A b \in Associations : b # a => Resting(b)
    BY <1>6, <1>9 DEF Access
  <2>2. OneMover'
    BY <1>9, <2>1, OneMoverStep DEF Evict, SelectionExpired, Retry, Return, NoCall, Goto, localVars
  <2>3. (GrantKnows(a) /\ DeadlineKnows(a) /\ CallKnows(a))'
    BY <1>9
       DEF Evict, SelectionExpired, Retry, Return, NoCall, Goto, localVars,
           SelectionExpired, LoopInv, GrantKnows, DeadlineKnows, CallKnows
  <2>4. ASSUME NEW b \in Associations, b # a
        PROVE  (GrantKnows(b) /\ DeadlineKnows(b) /\ CallKnows(b))'
    BY <1>9, <2>1, <2>4
       DEF Evict, SelectionExpired, Retry, Return, NoCall, Goto, localVars,
           SelectionExpired, Resting, LoopInv, GrantKnows, DeadlineKnows, CallKnows
  <2> QED
    BY <2>2, <2>3, <2>4 DEF LoopInv
<1>10. ASSUME NEW a \in Associations, ClearEvicted(a), UNCHANGED now
      PROVE  LoopInv'
  <2>1. \A b \in Associations : b # a => Resting(b)
    BY <1>6, <1>10 DEF Access
  <2>2. OneMover'
    BY <1>10, <2>1, OneMoverStep DEF ClearEvicted, Retry, Return, NoCall, Goto, localVars
  <2>3. (GrantKnows(a) /\ DeadlineKnows(a) /\ CallKnows(a))'
    <3>1. /\ selected_association_id' # a /\ granted' = granted
          /\ pc'[a] \in {"load_owner", "idle", "closed"}
      BY <1>10 DEF ClearEvicted, Retry, Return, Goto, localVars, LoopInv, CallKnows
    <3>2. call'[a].start <= now
      BY <1>10 DEF ClearEvicted, Retry, Return, NoCall, LoopInv, GrantKnows
    <3> QED
      BY <1>10, <3>1, <3>2
         DEF ClearEvicted, LoopInv, GrantKnows, DeadlineKnows, CallKnows
  <2>4. ASSUME NEW b \in Associations, b # a
        PROVE  (GrantKnows(b) /\ DeadlineKnows(b) /\ CallKnows(b))'
    BY <1>10, <2>1, <2>4
       DEF ClearEvicted, Retry, Return, NoCall, Goto, localVars, SelectionExpired,
           Resting, LoopInv, GrantKnows, DeadlineKnows, CallKnows
  <2> QED
    BY <2>2, <2>3, <2>4 DEF LoopInv
<1>11. ASSUME NEW a \in Associations, Claim(a), UNCHANGED now
      PROVE  LoopInv'
  <2>1. \A b \in Associations : b # a => Resting(b)
    BY <1>6, <1>11 DEF Access
  <2>2. OneMover'
    BY <1>11, <2>1, OneMoverStep DEF Claim, Retry, Return, NoCall, Goto, localVars
  <2>3. (GrantKnows(a) /\ DeadlineKnows(a) /\ CallKnows(a))'
    BY <1>11
       DEF Claim, Retry, Return, NoCall, Goto, localVars, SelectionExpired, LoopInv,
           GrantKnows, DeadlineKnows, CallKnows
  <2>4. ASSUME NEW b \in Associations, b # a
        PROVE  (GrantKnows(b) /\ DeadlineKnows(b) /\ CallKnows(b))'
    BY <1>11, <2>1, <2>4
       DEF Claim, Retry, Return, NoCall, Goto, localVars, SelectionExpired, Resting,
           LoopInv, GrantKnows, DeadlineKnows, CallKnows
  <2> QED
    BY <2>2, <2>3, <2>4 DEF LoopInv
<1>12. ASSUME NEW a \in Associations, StoreDeadline(a), UNCHANGED now
      PROVE  LoopInv'
  <2>1. \A b \in Associations : b # a => Resting(b)
    BY <1>6, <1>12 DEF Access
  <2>2. OneMover'
    BY <1>12, <2>1, OneMoverStep DEF StoreDeadline, Granted, Return, NoCall, Goto
  <2>3. (GrantKnows(a) /\ DeadlineKnows(a) /\ CallKnows(a))'
    BY <1>12
       DEF StoreDeadline, Granted, Return, NoCall, Goto, SelectionExpired, LoopInv,
           GrantKnows, DeadlineKnows, CallKnows
  <2>4. ASSUME NEW b \in Associations, b # a
        PROVE  (GrantKnows(b) /\ DeadlineKnows(b) /\ CallKnows(b))'
    BY <1>12, <2>1, <2>4
       DEF StoreDeadline, Granted, Return, NoCall, Goto, SelectionExpired, Resting,
           LoopInv, GrantKnows, DeadlineKnows, CallKnows
  <2> QED
    BY <2>2, <2>3, <2>4 DEF LoopInv
<1>13. ASSUME NEW a \in Associations, CheckOwner(a), UNCHANGED now
      PROVE  LoopInv'
  <2>1. \A b \in Associations : b # a => Resting(b)
    BY <1>6, <1>13 DEF Access
  <2>2. OneMover'
    BY <1>13, <2>1, OneMoverStep DEF CheckOwner, Denied, Return, NoCall, Goto, sharedVars, localVars
  <2>3. (GrantKnows(a) /\ DeadlineKnows(a) /\ CallKnows(a))'
    BY <1>13
       DEF CheckOwner, Denied, Return, NoCall, Goto, sharedVars, localVars,
           SelectionExpired, LoopInv, GrantKnows, DeadlineKnows, CallKnows
  <2>4. ASSUME NEW b \in Associations, b # a
        PROVE  (GrantKnows(b) /\ DeadlineKnows(b) /\ CallKnows(b))'
    BY <1>13, <2>1, <2>4
       DEF CheckOwner, Denied, Return, NoCall, Goto, sharedVars, localVars,
           SelectionExpired, Resting, LoopInv, GrantKnows, DeadlineKnows, CallKnows
  <2> QED
    BY <2>2, <2>3, <2>4 DEF LoopInv
<1>14. ASSUME NEW a \in Associations, CheckDeadline(a), UNCHANGED now
      PROVE  LoopInv'
  <2>1. \A b \in Associations : b # a => Resting(b)
    BY <1>6, <1>14 DEF Access
  <2>2. OneMover'
    BY <1>14, <2>1, OneMoverStep
       DEF CheckDeadline, Denied, Return, NoCall, Goto, sharedVars, localVars
  <2>3. (GrantKnows(a) /\ DeadlineKnows(a) /\ CallKnows(a))'
    BY <1>14
       DEF CheckDeadline, Denied, Return, NoCall, Goto, sharedVars, localVars,
           SelectionExpired, LoopInv, GrantKnows, DeadlineKnows, CallKnows
  <2>4. ASSUME NEW b \in Associations, b # a
        PROVE  (GrantKnows(b) /\ DeadlineKnows(b) /\ CallKnows(b))'
    BY <1>14, <2>1, <2>4
       DEF CheckDeadline, Denied, Return, NoCall, Goto, sharedVars, localVars,
           SelectionExpired, Resting, LoopInv, GrantKnows, DeadlineKnows, CallKnows
  <2> QED
    BY <2>2, <2>3, <2>4 DEF LoopInv
<1>15. ASSUME NEW a \in Associations, Apply(a), UNCHANGED now
      PROVE  LoopInv'
  <2>1. \A b \in Associations : b # a => Resting(b)
    BY <1>6, <1>15 DEF Access
  <2>2. OneMover'
    BY <1>15, <2>1, OneMoverStep DEF Apply, Goto
  <2>3. (GrantKnows(a) /\ DeadlineKnows(a) /\ CallKnows(a))'
    BY <1>15 DEF Apply, Goto, SelectionExpired, LoopInv, GrantKnows, DeadlineKnows, CallKnows
  <2>4. ASSUME NEW b \in Associations, b # a
        PROVE  (GrantKnows(b) /\ DeadlineKnows(b) /\ CallKnows(b))'
    BY <1>15, <2>1, <2>4
       DEF Apply, Goto, SelectionExpired, Resting, LoopInv, GrantKnows, DeadlineKnows,
           CallKnows
  <2> QED
    BY <2>2, <2>3, <2>4 DEF LoopInv
<1>16. ASSUME NEW a \in Associations, ReleaseOwner(a), UNCHANGED now
      PROVE  LoopInv'
  <2>1. \A b \in Associations : b # a => Resting(b)
    BY <1>6, <1>16 DEF Access
  <2>2. OneMover'
    BY <1>16, <2>1, OneMoverStep DEF ReleaseOwner, Return, NoCall, Goto
  <2>3. (GrantKnows(a) /\ DeadlineKnows(a) /\ CallKnows(a))'
    BY <1>16
       DEF ReleaseOwner, Return, NoCall, Goto, SelectionExpired, LoopInv, GrantKnows,
           DeadlineKnows, CallKnows
  <2>4. ASSUME NEW b \in Associations, b # a
        PROVE  (GrantKnows(b) /\ DeadlineKnows(b) /\ CallKnows(b))'
    BY <1>16, <2>1, <2>4
       DEF ReleaseOwner, Return, NoCall, Goto, SelectionExpired, Resting, LoopInv,
           GrantKnows, DeadlineKnows, CallKnows
  <2> QED
    BY <2>2, <2>3, <2>4 DEF LoopInv
<1>17. ASSUME NEW a \in Associations, ClearReleased(a), UNCHANGED now
      PROVE  LoopInv'
  <2>1. \A b \in Associations : b # a => Resting(b)
    BY <1>6, <1>17 DEF Access
  <2>2. OneMover'
    BY <1>17, <2>1, OneMoverStep DEF ClearReleased, Return, NoCall, Goto
  <2>3. (GrantKnows(a) /\ DeadlineKnows(a) /\ CallKnows(a))'
    BY <1>17
       DEF ClearReleased, Return, NoCall, Goto, SelectionExpired, LoopInv, GrantKnows,
           DeadlineKnows, CallKnows
  <2>4. ASSUME NEW b \in Associations, b # a
        PROVE  (GrantKnows(b) /\ DeadlineKnows(b) /\ CallKnows(b))'
    BY <1>17, <2>1, <2>4
       DEF ClearReleased, Return, NoCall, Goto, SelectionExpired, Resting, LoopInv,
           GrantKnows, DeadlineKnows, CallKnows
  <2> QED
    BY <2>2, <2>3, <2>4 DEF LoopInv
<1>18. CASE UNCHANGED selectionVars
  BY <1>18 DEF selectionVars, sharedVars, localVars, Resting, SelectionExpired, LoopInv,
     OneMover, GrantKnows, DeadlineKnows, CallKnows
<1> QED
  BY <1>2, <1>3, <1>4, <1>5, <1>7, <1>8, <1>9, <1>10, <1>11, <1>12, <1>13, <1>14, <1>15, <1>16, <1>17, <1>18
     DEF SelectionNext, SelectionStep, Access

\* Hence it holds of every reachable state of such a host.
LEMMA SerializedInvariant == SelectionSpec => []SerializedInv
<1>1. SelectionInit => SerializedInv
  BY SelectionAssumption
     DEF SelectionInit, SerializedInv, LoopInv, OneMover, Resting, NoCall, GrantKnows, DeadlineKnows, CallKnows
<1>2. SelectionInv /\ SerializedInv /\ [SelectionNext]_selectionVars => SerializedInv'
  <2>1. [SelectionNext]_selectionVars => host' = host
    BY DEF SelectionNext, selectionVars
  <2> QED
    BY <2>1, LoopStep DEF SerializedInv, Serialized
<1> QED
  BY <1>1, <1>2, SelectionInvariant, PTL DEF SelectionSpec

\* For any number of associations served by one loop, an association that was
\* told it is selected holds the selection until it gives it up or its
\* deadline passes: no two are told so at once.
THEOREM GrantAlwaysHonoured == SelectionSpec => []GrantHonoured
<1>1. SerializedInv => GrantHonoured
  BY DEF SerializedInv, LoopInv, GrantKnows, GrantHonoured
<1> QED
  BY <1>1, SerializedInvariant, PTL

\* In one loop every selection has a deadline, at most Timeout away.
THEOREM LoopSelectionAlwaysTimesOut == SelectionSpec => []LoopSelectionTimesOut
<1>1. SelectionTypeOK /\ SerializedInv => LoopSelectionTimesOut
  BY SelectionAssumption
     DEF SelectionTypeOK, SerializedInv, LoopInv, GrantKnows, DeadlineKnows, Quiet,
         LoopSelectionTimesOut, SelectionTimesOut
<1> QED
  BY <1>1, SelectionTypeCorrect, SerializedInvariant, PTL

=============================================================================
