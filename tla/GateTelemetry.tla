--------------------------- MODULE GateTelemetry ---------------------------
(***************************************************************************)
(* One physical gate, the cloud copy of its status, the two telemetry      *)
(* streams that reach Home Assistant, and the state the hub shows.         *)
(*                                                                         *)
(* The hub never asks "where is the gate?" and waits: it fuses percentages *)
(* from the /position topic, status frames that may be older than the      *)
(* percentages already seen, and what it assumes after its own commands.   *)
(* The question of this module is whether the fusion can stay wrong.       *)
(*                                                                         *)
(* The gate, the Shadow document and the streams are the environment: the  *)
(* two streams are FIFO each but unordered with respect to one another.    *)
(***************************************************************************)
EXTENDS PhysicalGate, Sequences

CONSTANTS StatusSource,  \* "shadow", or "rs" for the PS24118 profile
          Issued,        \* the commands the hub issues
          MaxLive,       \* bound: live percentages in flight
          MaxStatus,     \* bound: status frames in flight
          MaxFaults      \* bound: status frames lost or garbled

ASSUME SourceAssumption == StatusSource \in {"shadow", "rs"}
ASSUME IssuedAssumption == Issued \subseteq Commands
ASSUME BoundAssumption  == /\ MaxLive \in Nat
                           /\ MaxStatus \in Nat
                           /\ MaxFaults \in Nat

VARIABLES
  gate,      \* the physical gate: [position, motion]
  shadow,    \* the reported DEV STATUS in the cloud, updated field by field
  live,      \* percentages on their way on the /position topic
  status,    \* status frames on their way
  hub,       \* the State shown by the hub
  pending,   \* the command the gate accepted and whose caller has not resumed
  faults     \* status frames lost or garbled so far

vars == <<gate, shadow, live, status, hub, pending, faults>>

TypeOK ==
  /\ gate \in Gates
  /\ shadow \in StatusFrame
  /\ live \in Seq(Percent)
  /\ status \in Seq(StatusFrame)
  /\ hub \in State
  /\ pending \in Commands \cup {"none"}
  /\ faults \in 0..MaxFaults

Init ==
  /\ gate \in GatesAtRest
  /\ shadow = Snapshot(gate)
  /\ live = <<>>
  /\ status = <<>>
  /\ hub = Unknown
  /\ pending = "none"
  /\ faults = 0

----------------------------------------------------------------------------
(***************************************************************************)
(* The gate.  It is moved by its remote control and its own app as well as *)
(* by this hub, it stops anywhere, and it may turn around.                 *)
(***************************************************************************)

RemoteControl(dir) ==
  /\ gate' = Steered(gate, dir)
  /\ gate' # gate
  /\ UNCHANGED <<shadow, live, status, hub, pending, faults>>

\* A percentage on the /position topic may be lost at any time.
Travels ==
  /\ gate' \in Advanced(gate)
  /\ \/ live' = live
     \/ Len(live) < MaxLive /\ live' = Append(live, gate'.position)
  /\ UNCHANGED <<shadow, status, hub, pending, faults>>

\* The motor bits and the position bits of the Shadow are not updated together:
\* a stop may be reported with the position of before.  (With the RS frames of
\* the PS24118 profile the DEV STATUS of the Shadow is not consulted.)
ReportsMotion ==
  /\ StatusSource = "shadow"
  /\ shadow' = [Snapshot(gate) EXCEPT !.position = shadow.position]
  /\ shadow' # shadow
  /\ UNCHANGED <<gate, live, status, hub, pending, faults>>

ReportsPosition ==
  /\ StatusSource = "shadow"
  /\ shadow' = [shadow EXCEPT !.position = gate.position]
  /\ shadow' # shadow
  /\ UNCHANGED <<gate, live, status, hub, pending, faults>>

----------------------------------------------------------------------------
(***************************************************************************)
(* The hub                                                                 *)
(***************************************************************************)

\* One round of _shadow_refresh_loop and its answer.  The PS24118 profile drops
\* the DEV STATUS of Shadow documents and asks the controller for an RS frame.
Poll ==
  /\ Len(status) < MaxStatus
  /\ status' = Append(status, IF StatusSource = "shadow" THEN shadow ELSE Snapshot(gate))
  /\ UNCHANGED <<gate, shadow, live, hub, pending, faults>>

StatusFault ==
  /\ status # <<>>
  /\ faults < MaxFaults
  /\ faults' = faults + 1
  /\ \/ status' = Tail(status)
     \/ Head(status) # Malformed /\ status' = <<Malformed>> \o Tail(status)
  /\ UNCHANGED <<gate, shadow, live, hub, pending>>

LivePosition ==
  /\ live # <<>>
  /\ live' = Tail(live)
  /\ hub' = ApplyPosition(hub, Head(live), TRUE)
  /\ UNCHANGED <<gate, shadow, status, pending, faults>>

StatusArrives ==
  /\ status # <<>>
  /\ status' = Tail(status)
  /\ hub' = ApplyStatus(hub, Head(status))
  /\ UNCHANGED <<gate, shadow, live, pending, faults>>

\* 30 s after the last live percentage that proved a direction.
GuardExpires ==
  /\ hub.guard # "none"
  /\ hub' = [hub EXCEPT !.guard = "none"]
  /\ UNCHANGED <<gate, shadow, live, status, pending, faults>>

\* The gate executes the hub's command; the transaction lock lets the hub have
\* one command under way.
GateAccepts(cmd) ==
  /\ pending = "none"
  /\ pending' = cmd
  /\ gate' = Steered(gate, MotionOf(cmd))
  /\ UNCHANGED <<shadow, live, status, hub, faults>>

\* The caller resumes: with its acknowledgement, with motion proof, or with an
\* error.  Frames that arrived since the gate accepted are already applied.
CommandReturns ==
  /\ pending # "none"
  /\ \/ hub' = AfterAck(hub, pending)
     \/ pending \in Motions /\ hub' = AfterMotionProof(hub, pending)
     \/ hub' = hub
  /\ pending' = "none"
  /\ UNCHANGED <<gate, shadow, live, status, faults>>

Next ==
  \/ \E dir \in Movements : RemoteControl(dir)
  \/ Travels
  \/ ReportsMotion
  \/ ReportsPosition
  \/ Poll
  \/ StatusFault
  \/ LivePosition
  \/ StatusArrives
  \/ GuardExpires
  \/ \E cmd \in Issued : GateAccepts(cmd)
  \/ CommandReturns

\* The controller keeps reporting, the refresh loop keeps polling, the stream
\* reader delivers what has arrived, the guard is a timer and every exchange
\* ends; nothing is assumed of the gate's motion, of the remote control or of
\* faults (of which there are finitely many).
Fairness ==
  /\ WF_vars(ReportsMotion)
  /\ WF_vars(ReportsPosition)
  /\ WF_vars(Poll)
  /\ WF_vars(LivePosition)
  /\ WF_vars(StatusArrives)
  /\ WF_vars(GuardExpires)
  /\ WF_vars(CommandReturns)

SafetySpec == Init /\ [][Next]_vars
Spec == SafetySpec /\ Fairness

----------------------------------------------------------------------------
(***************************************************************************)
(* Properties                                                              *)
(***************************************************************************)

\* A gate shown as stopped is never shown as opening or closing, whatever the
\* order of live percentages, status frames, end positions and acknowledgements
\* (cover.is_opening and cover.is_closing read movement alone).
StoppedIsStill == hub.operating = "no" => hub.movement = "none"

AtRest  == gate.motion = "none" /\ pending = "none"
Settled == Shows(hub, gate)

\* Everything under way tells of the gate as it is.
InStep ==
  /\ \A i \in DOMAIN live : live[i] = gate.position
  /\ \A i \in DOMAIN status : status[i] \in {Snapshot(gate), Malformed}

\* Once the hub shows a gate at rest as it is, and no frame of an older time is
\* under way, nothing but a new motion or command changes what it shows: late
\* duplicates of the final frames, malformed frames and the end of the guard
\* window leave it alone.
SettledStaysSettled == [][ AtRest /\ InStep /\ Settled /\ AtRest' => Settled' ]_vars

\* When the gate comes to rest for good, the hub comes to show it for good: no
\* overtaken percentage, stale stop position, optimistic write or guard window
\* leaves the display wrong for ever.
Convergence == <>[]AtRest => <>[]Settled

=============================================================================
