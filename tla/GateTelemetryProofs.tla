------------------------ MODULE GateTelemetryProofs ------------------------
(***************************************************************************)
(* Proofs about GateTelemetry for every set of percentages, every bound on *)
(* the streams and both status sources.                                    *)
(***************************************************************************)
EXTENDS GateTelemetry, GateStateProofs

\* The inductive invariant: types, and no motion shown of a stopped gate.  The
\* Shadow document needs a known position, so that its two halves can be
\* updated one at a time and still form a frame.
Shadowed == shadow.position # NoPosition
IInv == TypeOK /\ Shadowed /\ StoppedIsStill

LEMMA InitInv == Init => IInv
<1> SUFFICES ASSUME Init PROVE IInv
  OBVIOUS
<1>1. gate \in Gates
  BY DEF Init, GatesAtRest
<1>2. shadow \in StatusFrame /\ Shadowed
  BY <1>1, SnapshotType, PercentAssumption
     DEF Init, Shadowed, Snapshot, Gates, Travel, NoPosition
<1>3. hub \in State /\ StoppedIsStill
  BY DEF Init, Unknown, State, ShownPositions, Movements, Operating, StoppedIsStill
<1>4. live \in Seq(Percent) /\ status \in Seq(StatusFrame) /\ faults \in 0..MaxFaults
  BY BoundAssumption DEF Init
<1> QED
  BY <1>1, <1>2, <1>3, <1>4 DEF Init, IInv, TypeOK

LEMMA NextInv == IInv /\ [Next]_vars => IInv'
<1> SUFFICES ASSUME IInv, [Next]_vars PROVE IInv'
  OBVIOUS
<1> USE DEF IInv, TypeOK, Shadowed
<1>1. ASSUME NEW dir \in Movements, RemoteControl(dir) PROVE IInv'
  BY <1>1, SteeredType DEF RemoteControl, StoppedIsStill
<1>2. CASE Travels
  <2>1. PICK p \in Travel :
          /\ gate' = [position |-> p,
                      motion |-> IF AtEnd(p, gate.motion) THEN "none" ELSE gate.motion]
          /\ live' = live \/ live' = Append(live, p)
    BY <1>2 DEF Travels, Advanced
  <2>2. gate' \in Gates /\ p \in Percent
    BY <2>1 DEF Gates, Travel, Movements
  <2>3. live' \in Seq(Percent)
    BY <2>1, <2>2
  <2> QED
    BY <1>2, <2>2, <2>3 DEF Travels, StoppedIsStill
<1>3. CASE ReportsMotion
  <2>1. Snapshot(gate) \in StatusFrame
    BY SnapshotType
  <2>2. shadow' \in StatusFrame /\ shadow'.position = shadow.position
    <3>1. Snapshot(gate).direction # "none"
      BY DEF Snapshot, Gates, Movements, Directions
    <3> QED
      BY <1>3, <2>1, <3>1 DEF ReportsMotion, StatusFrame
  <2> QED
    BY <1>3, <2>2 DEF ReportsMotion, StoppedIsStill
<1>4. CASE ReportsPosition
  <2>1. gate.position \in Percent /\ gate.position # NoPosition
    BY PercentAssumption DEF Gates, Travel, NoPosition
  <2>2. shadow' \in StatusFrame /\ shadow'.position # NoPosition
    BY <1>4, <2>1 DEF ReportsPosition, StatusFrame
  <2> QED
    BY <1>4, <2>2 DEF ReportsPosition, StoppedIsStill
<1>5. CASE Poll
  <2>1. status' \in Seq(StatusFrame)
    BY <1>5, SnapshotType DEF Poll
  <2> QED
    BY <1>5, <2>1 DEF Poll, StoppedIsStill
<1>6. CASE StatusFault
  <2>1. Tail(status) \in Seq(StatusFrame)
    BY <1>6 DEF StatusFault
  <2>2. <<Malformed>> \o Tail(status) \in Seq(StatusFrame)
    BY <2>1, MalformedType
  <2>3. status' \in Seq(StatusFrame)
    BY <1>6, <2>1, <2>2 DEF StatusFault
  <2>4. faults' \in 0..MaxFaults
    BY <1>6, BoundAssumption DEF StatusFault
  <2> QED
    BY <1>6, <2>3, <2>4 DEF StatusFault, StoppedIsStill
<1>7. CASE LivePosition
  <2>1. Head(live) \in Percent /\ Tail(live) \in Seq(Percent)
    BY <1>7 DEF LivePosition
  <2>2. hub' \in State /\ StoppedIsStill'
    BY <1>7, <2>1, ApplyPositionOK DEF LivePosition, StoppedIsStill, Still
  <2> QED
    BY <1>7, <2>1, <2>2 DEF LivePosition
<1>8. CASE StatusArrives
  <2>1. Head(status) \in StatusFrame /\ Tail(status) \in Seq(StatusFrame)
    BY <1>8 DEF StatusArrives
  <2>2. hub' \in State /\ StoppedIsStill'
    BY <1>8, <2>1, ApplyStatusOK DEF StatusArrives, StoppedIsStill, Still
  <2> QED
    BY <1>8, <2>1, <2>2 DEF StatusArrives
<1>9. CASE GuardExpires
  <2>1. hub' \in State /\ hub'.operating = hub.operating /\ hub'.movement = hub.movement
    BY <1>9 DEF GuardExpires, State, Movements
  <2> QED
    BY <1>9, <2>1 DEF GuardExpires, StoppedIsStill
<1>10. ASSUME NEW cmd \in Commands, GateAccepts(cmd) PROVE IInv'
  <2>1. gate' \in Gates
    BY <1>10, SteeredType, MotionOfType DEF GateAccepts
  <2> QED
    BY <1>10, <2>1 DEF GateAccepts, StoppedIsStill
<1>11. CASE CommandReturns
  <2>1. pending \in Commands
    BY <1>11 DEF CommandReturns
  <2>2. hub' \in State /\ StoppedIsStill'
    BY <1>11, <2>1, AfterCommandOK DEF CommandReturns, StoppedIsStill, Still
  <2> QED
    BY <1>11, <2>2 DEF CommandReturns
<1>12. CASE UNCHANGED vars
  BY <1>12 DEF vars, StoppedIsStill
<1> QED
  BY <1>1, <1>2, <1>3, <1>4, <1>5, <1>6, <1>7, <1>8, <1>9, <1>10, <1>11, <1>12,
     IssuedAssumption DEF Next

LEMMA Invariance == SafetySpec => []IInv
BY InitInv, NextInv, PTL DEF SafetySpec

\* Every variable keeps its type: in particular only folded percentages are
\* ever shown.
THEOREM TypeCorrect == SafetySpec => []TypeOK
BY Invariance, PTL DEF IInv

\* A gate shown as stopped is never shown as opening or closing.
THEOREM NoMotionWhenStopped == SafetySpec => []StoppedIsStill
BY Invariance, PTL DEF IInv

----------------------------------------------------------------------------
(***************************************************************************)
(* A display that shows the resting gate as it is                          *)
(***************************************************************************)

SettledState(s, p) == /\ s.position = Normalize(p)
                      /\ s.movement = "none"
                      /\ s.operating = "no"
                      /\ ~s.pedAssumed

\* Showing once more the position a stopped gate is shown at changes nothing
\* but, perhaps, the guard.
LEMMA ShowAgain ==
  ASSUME NEW s \in State, NEW p \in Percent, NEW derive \in BOOLEAN, SettledState(s, p)
  PROVE  /\ ApplyPosition(s, p, derive) \in State
         /\ SettledState(ApplyPosition(s, p, derive), p)
<1> DEFINE t == ShowPosition(s, p, derive)
           d == IF derive THEN ProvenDirection(s, Normalize(p)) ELSE "none"
<1>1. t \in State
  BY ShowPositionOK
<1>2. SettledState(t, p)
  <2>1. DerivedMovement(s, Normalize(p)) = "none"
    BY DEF DerivedMovement, SettledState
  <2> QED
    BY <2>1 DEF ShowPosition, SettledState, State
<1> HIDE DEF t, d
<1>3. ApplyPosition(s, p, derive) = IF d = "none" THEN t ELSE [t EXCEPT !.guard = d]
  BY DEF ApplyPosition, t, d
<1> QED
  BY <1>1, <1>2, <1>3, ApplyPositionOK DEF SettledState, State

\* So does a status frame that is exact or malformed.
LEMMA StatusAgain ==
  ASSUME NEW s \in State, NEW g \in Gates, g.motion = "none",
         SettledState(s, g.position), NEW f \in {Snapshot(g), Malformed}
  PROVE  SettledState(ApplyStatus(s, f), g.position)
<1> DEFINE t == OperatingSeen(s, f)
           u == StopPositionSeen(t, f)
<1>1. f \in StatusFrame /\ f.operating # "yes" /\ f.operating \in {"no", "unknown"}
  BY SnapshotType, MalformedType DEF Snapshot, Malformed
<1>2. t \in State /\ SettledState(t, g.position)
  BY <1>1, OperatingSeenOK DEF OperatingSeen, SettledState, State
<1>3. f.position = NoPosition \/ f.position = g.position
  BY DEF Snapshot, Malformed
<1>4. u \in State /\ SettledState(u, g.position)
  <2>1. g.position \in Percent
    BY DEF Gates, Travel
  <2> QED
    BY <1>2, <1>3, <2>1, ShowAgain DEF StopPositionSeen
<1> HIDE DEF t, u
<1>5. ApplyStatus(s, f) = [u EXCEPT !.movement = "none"]
  BY <1>1 DEF ApplyStatus, t, u
<1> QED
  BY <1>4, <1>5 DEF SettledState, State

LEMMA SettledStep ==
  IInv /\ [Next]_vars /\ AtRest /\ InStep /\ Settled /\ AtRest' => Settled'
<1> SUFFICES ASSUME IInv, [Next]_vars, AtRest, InStep, Settled, AtRest'
             PROVE  Settled'
  OBVIOUS
<1> USE DEF IInv, TypeOK
<1>1. hub \in State /\ gate \in Gates /\ SettledState(hub, gate.position)
  BY DEF Settled, Shows, SettledState
<1>2. CASE gate' = gate /\ hub' = hub
  BY <1>2 DEF Settled, Shows
<1>3. ASSUME NEW dir \in Movements, RemoteControl(dir) PROVE Settled'
  BY <1>3 DEF RemoteControl, Steered, AtRest, Settled, Shows, Gates
<1>4. CASE LivePosition
  <2>1. Head(live) = gate.position /\ gate.position \in Percent
    BY <1>4 DEF LivePosition, InStep, Gates, Travel
  <2>2. SettledState(hub', gate.position)
    BY <1>1, <1>4, <2>1, ShowAgain DEF LivePosition
  <2> QED
    BY <1>4, <2>2 DEF LivePosition, SettledState, Settled, Shows
<1>5. CASE StatusArrives
  <2>1. Head(status) \in {Snapshot(gate), Malformed}
    BY <1>5 DEF StatusArrives, InStep
  <2>2. SettledState(hub', gate.position)
    BY <1>1, <1>5, <2>1, StatusAgain DEF StatusArrives, AtRest
  <2> QED
    BY <1>5, <2>2 DEF StatusArrives, SettledState, Settled, Shows
<1>6. CASE GuardExpires
  BY <1>6 DEF GuardExpires, Settled, Shows, State
<1>7. ASSUME NEW cmd \in Commands, GateAccepts(cmd) PROVE FALSE
  BY <1>7 DEF GateAccepts, AtRest, Commands, Motions
<1>8. ~Travels /\ ~CommandReturns
  BY DEF Travels, Advanced, CommandReturns, AtRest
<1> QED
  BY <1>2, <1>3, <1>4, <1>5, <1>6, <1>7, <1>8, IssuedAssumption
     DEF Next, vars, ReportsMotion, ReportsPosition, Poll, StatusFault

\* Once the hub shows a gate at rest as it is and no older frame is under way,
\* only a new motion or a new command changes what it shows.
THEOREM SettledIsStable == SafetySpec => SettledStaysSettled
<1>1. IInv /\ [Next]_vars => [AtRest /\ InStep /\ Settled /\ AtRest' => Settled']_vars
  BY SettledStep
<1> QED
  BY <1>1, Invariance, PTL DEF SafetySpec, SettledStaysSettled

=============================================================================
