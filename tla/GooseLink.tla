----------------------------- MODULE GooseLink ------------------------------
(***************************************************************************)
(* A GOOSE publisher, the station network and a monitor.  Frames are not   *)
(* acknowledged: a frame arrives within NetDelay milliseconds, unless a    *)
(* fault loses it, doubles it or holds it up (for HoldMax at most).        *)
(* Frames on the wire arrive in any order.                                 *)
(***************************************************************************)
EXTENDS GoosePublisher

CONSTANTS
  NetDelay,     \* milliseconds in which the network delivers
  HoldMax,      \* the same for a frame that is held up
  FaultMax,     \* bound on the faults of a behaviour
  CountMod

VARIABLES capturing, slot, expiration_count, timeout_count,
          faults        \* lost, doubled and held frames, and pauses of the capture

INSTANCE GooseMonitor

monitorVars == <<capturing, slot, expiration_count, timeout_count>>
linkVars == <<publisherVars, wire, monitorVars, faults>>

ASSUME LinkAssumption ==
  NetDelay \in Nat /\ HoldMax \in Nat /\ FaultMax \in Nat /\ CountMod \in Nat \ {0}

LinkInit == PublisherInit /\ MonitorInit /\ faults = 0

PublisherStep == Publishing /\ UNCHANGED <<monitorVars, faults>>

Fault == faults < FaultMax /\ faults' = faults + 1

\* pollCapture() takes a frame off the interface.  While no capture runs the
\* interface is closed.
Arrive(p) ==
  IF capturing THEN Ingest(p.frame) ELSE UNCHANGED monitorVars

Deliver(p) ==
  /\ Arrive(p)
  /\ wire' = wire \ {p}
  /\ UNCHANGED <<publisherVars, faults>>

DeliverTwice(p) ==
  /\ Fault
  /\ Arrive(p)
  /\ UNCHANGED <<publisherVars, wire>>

Lose(p) ==
  /\ Fault
  /\ wire' = wire \ {p}
  /\ UNCHANGED <<publisherVars, monitorVars>>

Hold(p) ==
  /\ Fault /\ ~p.held
  /\ wire' = (wire \ {p}) \cup {[p EXCEPT !.held = TRUE]}
  /\ UNCHANGED <<publisherVars, monitorVars>>

\* The user pauses the capture, resumes it or clears the table.
UserStep ==
  /\ \/ StopCapture /\ Fault
     \/ StartCapture /\ UNCHANGED faults
     \/ Clear /\ Fault
  /\ UNCHANGED <<publisherVars, wire>>

ExpiryScan == CheckTimeouts /\ UNCHANGED <<publisherVars, wire, faults>>

\* One millisecond passes.
Tick ==
  /\ \A p \in wire : p.age < IF p.held THEN HoldMax ELSE NetDelay
  /\ PublisherTicks /\ MonitorTicks
  /\ wire' = {[p EXCEPT !.age = @ + 1] : p \in wire}
  /\ UNCHANGED faults

LinkNext ==
  \/ PublisherStep
  \/ \E p \in wire : Deliver(p) \/ DeliverTwice(p) \/ Lose(p) \/ Hold(p)
  \/ UserStep \/ ExpiryScan \/ Tick

\* Time passes, the two timers run, and what the network has not lost arrives.
LinkFairness ==
  /\ WF_linkVars(Tick)
  /\ WF_linkVars((Advance \/ AdvanceFails) /\ UNCHANGED <<monitorVars, faults>>)
  /\ WF_linkVars(\E p \in wire : Deliver(p))
  /\ WF_linkVars(ExpiryScan)

LinkSpec == LinkInit /\ [][LinkNext]_linkVars /\ LinkFairness

-----------------------------------------------------------------------------
(* Properties.                                                             *)

Followed == slot # None /\ runtime[Watched] # None
            /\ slot.session = runtime[Watched].session

\* Timer and network together are not as late as the shortest delay is long.
\* The code does not see to it: its timer runs every 10 ms, or every MinTime if
\* that is shorter, and so it serves a deadline up to one such period late.
ShortLateness == NetDelay + PollJitter < MinDelay

\* On a network without faults whose delay leaves room for the timer's, a
\* stream that is being published never times out at the monitor, through the
\* doubling delays, the state changes that restart them and the lateness of
\* timer and network together.
NoFalseTimeout == ShortLateness /\ faults = 0 /\ Followed => ~slot.timedOut

\* The monitor never passes over a state, or goes back to one, without showing
\* an anomaly, also where stNum wraps: an unmarked frame belongs to the state
\* shown before or to its successor.
NoSilentSkip ==
  [][slot # None /\ slot' # None /\ slot'.session = slot.session /\ ~slot'.anomaly =>
       slot'.epoch \in {slot.epoch, slot.epoch + 1}]_linkVars

\* Whatever the network did to frames, the retransmissions bring the monitor
\* to the state that is being published, for good.
Converges ==
  <>[](runtime[Watched] # None /\ capturing =>
         Followed /\ slot.epoch = runtime[Watched].epoch)

\* A publisher that falls silent is noticed.
SilenceNoticed ==
  slot # None /\ runtime[Watched] = None /\ capturing ~>
    slot = None \/ slot.timedOut \/ runtime[Watched] # None \/ ~capturing

=============================================================================
