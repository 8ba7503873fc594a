----------------------------- MODULE GateState -----------------------------
(***************************************************************************)
(* The state of one gate as the hub shows it to Home Assistant, and the    *)
(* pure operators by which telemetry frames and command outcomes change    *)
(* it.  No variables: GateTelemetry, CommandExchange, NativeControl and    *)
(* Ps24118Command hold such a state and decide when each operator applies. *)
(*                                                                         *)
(* The Python attributes position, movement, is_operating and              *)
(* _pedestrian_state_assumed of TmtChowHub are the fields of the record.   *)
(* A None position is NoPosition, a None movement is "none", and           *)
(* is_operating True / False / None is "yes" / "no" / "unknown".  The pair  *)
(* (_last_completed_motion_direction, _last_completed_motion_monotonic) is  *)
(* the field guard: the remembered direction while the 30 s window of the  *)
(* stale-stop guard is open, "none" before any motion and after the window.*)
(***************************************************************************)
EXTENDS Integers

CONSTANT Percent   \* the percentages a frame may carry

\* DEV STATUS masks its position byte with 0x7F, so 101..127 can be seen too.
ASSUME PercentAssumption == Percent \subseteq 0..127

NoPosition == -1
Directions == {"opening", "closing"}
Movements  == Directions \cup {"none"}
Operating  == {"yes", "no", "unknown"}

\* decode_dev_status: every field may be missing; the direction bit and the
\* position come from the same byte and are known or unknown together.
StatusFrame ==
  { f \in [position  : Percent \cup {NoPosition},
           operating : Operating,
           direction : Movements] :
      f.position = NoPosition <=> f.direction = "none" }

Malformed == [position |-> NoPosition, operating |-> "unknown", direction |-> "none"]

\* The end bands 0..5 and 95.. are shown as 0 and 100.
Normalize(p) == IF p <= 5 THEN 0 ELSE IF p >= 95 THEN 100 ELSE p

ShownPositions == {NoPosition} \cup { Normalize(p) : p \in Percent }

State == [position   : ShownPositions,
          movement   : Movements,
          operating  : Operating,
          pedAssumed : BOOLEAN,
          guard      : Movements]

Unknown == [position   |-> NoPosition,
            movement   |-> "none",
            operating  |-> "unknown",
            pedAssumed |-> FALSE,
            guard      |-> "none"]

----------------------------------------------------------------------------
(***************************************************************************)
(* Positions                                                               *)
(***************************************************************************)

\* The direction from one shown position to another.
Toward(from, to) == CASE to > from -> "opening"
                      [] to < from -> "closing"
                      [] OTHER     -> "none"

\* A faulty DerivedMovement: a late percentage moves a gate held stopped.
DerivedMovementAlways(s, n) ==
  IF s.position # NoPosition /\ n # s.position THEN Toward(s.position, n) ELSE s.movement

\* A live percentage gives a direction unless the hub holds the gate stopped.
DerivedMovement(s, n) ==
  IF s.operating # "no" /\ s.position # NoPosition /\ n # s.position
  THEN Toward(s.position, n)
  ELSE s.movement

\* An end position ends the motion, unless the gate is just leaving that end.
ReachedEnd(n, movement) == \/ n = 0   /\ movement # "opening"
                           \/ n = 100 /\ movement # "closing"

\* A faulty ShowPosition: the end bands are tested on the raw percentage.
ShowPositionRaw(s, p, derive) ==
  LET m == IF derive THEN DerivedMovement(s, p) ELSE s.movement
  IN  IF ReachedEnd(p, m)
      THEN [s EXCEPT !.position = p, !.movement = "none",
                     !.operating = "no", !.pedAssumed = FALSE]
      ELSE [s EXCEPT !.position = p, !.movement = m]

\* _apply_position of the base hub.
ShowPosition(s, p, derive) ==
  LET n == Normalize(p)
      m == IF derive THEN DerivedMovement(s, n) ELSE s.movement
  IN  IF ReachedEnd(n, m)
      THEN [s EXCEPT !.position = n, !.movement = "none",
                     !.operating = "no", !.pedAssumed = FALSE]
      ELSE [s EXCEPT !.position = n, !.movement = m]

\* The motion a live percentage proves, remembered by the subclass even when
\* the end position has just cleared the movement.
ProvenDirection(s, n) ==
  CASE s.position = NoPosition -> "none"
    [] n # s.position          -> Toward(s.position, n)
    [] n \in {0, 100}          -> s.movement
    [] OTHER                   -> "none"

\* _apply_position of the subclass that every config entry instantiates.
ApplyPosition(s, p, derive) ==
  LET t == ShowPosition(s, p, derive)
      d == IF derive THEN ProvenDirection(s, Normalize(p)) ELSE "none"
  IN  IF d = "none" THEN t ELSE [t EXCEPT !.guard = d]

\* A stop position contradicts a motion when it lies behind the shown position.
Agrees(s, p, direction) ==
  \/ s.position = NoPosition
  \/ direction = "none"
  \/ direction = "closing" /\ Normalize(p) <= s.position
  \/ direction = "opening" /\ Normalize(p) >= s.position

\* A stop position is believed unless it contradicts the motion being shown
\* or, for 30 s, the motion that was proven last.
Plausible(s, p) == Agrees(s, p, IF s.movement # "none" THEN s.movement ELSE s.guard)

----------------------------------------------------------------------------
(***************************************************************************)
(* Status frames                                                           *)
(***************************************************************************)

\* A faulty OperatingSeen: a frame without the bit clears what was known.
OperatingSeenForgets(s, f) ==
  [s EXCEPT !.operating  = f.operating,
            !.pedAssumed = @ /\ f.operating # "no"]

\* Whether the motor runs, and the pedestrian assumption a stop ends.
OperatingSeen(s, f) ==
  [s EXCEPT !.operating  = IF f.operating = "unknown" THEN @ ELSE f.operating,
            !.pedAssumed = @ /\ f.operating # "no"]

\* The position of a frame that does not say the gate is moving.
StopPositionSeen(s, f) ==
  IF f.position # NoPosition /\ Plausible(s, f.position)
  THEN ApplyPosition(s, f.position, FALSE) ELSE s

Heading(s, f) == IF f.direction = "none" THEN s.movement ELSE f.direction

\* A faulty ApplyStatus: a stop keeps the pedestrian assumption.
ApplyStatusKeepsAssumption(s, f) ==
  LET t == [OperatingSeen(s, f) EXCEPT !.pedAssumed = s.pedAssumed]
  IN  IF f.operating = "yes" THEN [t EXCEPT !.movement = Heading(t, f)]
                             ELSE [StopPositionSeen(t, f) EXCEPT !.movement = "none"]

\* _apply_status: DEV STATUS of a Shadow document, or an ACK RS on MQTT.  The
\* position of a moving status is ignored, the dedicated topic carries it.
ApplyStatus(s, f) ==
  LET t == OperatingSeen(s, f)
  IN  IF f.operating = "yes" THEN [t EXCEPT !.movement = Heading(t, f)]
                             ELSE [StopPositionSeen(t, f) EXCEPT !.movement = "none"]

\* A faulty ApplyNative: the position is taken from moving frames only.
ApplyNativeLiveOnly(s, f) ==
  LET t == [s EXCEPT !.pedAssumed = @ /\ f.operating # "no"]
      u == IF f.operating = "yes" THEN ApplyPosition(t, f.position, FALSE) ELSE t
  IN  [u EXCEPT !.operating = f.operating,
                !.movement  = IF f.operating = "yes" THEN Heading(u, f) ELSE "none"]

\* apply_ouranos_status_response: a native frame carries the live percentage
\* itself, so its position is applied while the gate moves as well.
ApplyNative(s, f) ==
  LET t == [s EXCEPT !.pedAssumed = @ /\ f.operating # "no"]
      u == IF f.position # NoPosition THEN ApplyPosition(t, f.position, FALSE) ELSE t
  IN  [u EXCEPT !.operating = f.operating,
                !.movement  = IF f.operating = "yes" THEN Heading(u, f) ELSE "none"]

----------------------------------------------------------------------------
(***************************************************************************)
(* Command outcomes                                                        *)
(***************************************************************************)

Motions  == {"FULL OPEN", "FULL CLOSE", "PED OPEN"}
Commands == Motions \cup {"STOP"}

MotionOf(cmd) == CASE cmd = "FULL CLOSE"               -> "closing"
                   [] cmd \in {"FULL OPEN", "PED OPEN"} -> "opening"
                   [] OTHER                            -> "none"

\* What a caller writes when its command was acknowledged ...
AfterAck(s, cmd) ==
  [s EXCEPT !.pedAssumed = (cmd = "PED OPEN"),
            !.operating  = IF cmd = "STOP" THEN "no" ELSE "yes",
            !.movement   = MotionOf(cmd)]

\* ... and when live telemetry confirmed the motion instead.
AfterMotionProof(s, cmd) == [s EXCEPT !.pedAssumed = (cmd = "PED OPEN")]

=============================================================================
