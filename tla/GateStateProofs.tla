-------------------------- MODULE GateStateProofs --------------------------
(***************************************************************************)
(* Lemmas about the operators of GateState and PhysicalGate: they keep a   *)
(* well-formed state well formed and never show a motion of a gate shown   *)
(* as stopped; a gate stays a gate, and what it reports is a status frame. *)
(***************************************************************************)
EXTENDS PhysicalGate, TLAPS

Still(s) == s.operating = "no" => s.movement = "none"

\* What the end bands are folded into is a position that can be shown.
LEMMA NormalizeShown ==
  ASSUME NEW p \in Percent
  PROVE  Normalize(p) \in ShownPositions
BY DEF ShownPositions

LEMMA ShownIsInt == ShownPositions \subseteq Int /\ Percent \subseteq Int
BY PercentAssumption DEF ShownPositions, NoPosition, Normalize

LEMMA TowardType ==
  ASSUME NEW from \in Int, NEW to \in Int
  PROVE  Toward(from, to) \in Movements
BY DEF Toward, Movements, Directions

LEMMA ShowPositionOK ==
  ASSUME NEW s \in State, NEW p \in Percent, NEW derive \in BOOLEAN
  PROVE  /\ ShowPosition(s, p, derive) \in State
         /\ Still(s) => Still(ShowPosition(s, p, derive))
<1> DEFINE n == Normalize(p)
           m == IF derive THEN DerivedMovement(s, n) ELSE s.movement
<1>1. n \in ShownPositions /\ n \in Int /\ s.position \in Int
  BY NormalizeShown, ShownIsInt DEF State
<1>2. m \in Movements
  BY <1>1, TowardType DEF DerivedMovement, State
<1>3. Still(s) /\ s.operating = "no" => m = "none"
  BY DEF DerivedMovement, Still
<1> HIDE DEF n, m
<1>4. ShowPosition(s, p, derive) =
        IF ReachedEnd(n, m)
        THEN [s EXCEPT !.position = n, !.movement = "none",
                       !.operating = "no", !.pedAssumed = FALSE]
        ELSE [s EXCEPT !.position = n, !.movement = m]
  BY DEF ShowPosition, n, m
<1> QED
  BY <1>1, <1>2, <1>3, <1>4 DEF State, Still, Movements, Operating

LEMMA ApplyPositionOK ==
  ASSUME NEW s \in State, NEW p \in Percent, NEW derive \in BOOLEAN
  PROVE  /\ ApplyPosition(s, p, derive) \in State
         /\ Still(s) => Still(ApplyPosition(s, p, derive))
<1> DEFINE t == ShowPosition(s, p, derive)
           d == IF derive THEN ProvenDirection(s, Normalize(p)) ELSE "none"
<1>1. t \in State /\ (Still(s) => Still(t))
  BY ShowPositionOK
<1>2. d \in Movements
  <2>1. Normalize(p) \in Int /\ s.position \in Int
    BY NormalizeShown, ShownIsInt DEF State
  <2>2. s.movement \in Movements
    BY DEF State
  <2> QED
    BY <2>1, <2>2, TowardType DEF ProvenDirection, Movements
<1> HIDE DEF t, d
<1>3. ApplyPosition(s, p, derive) = IF d = "none" THEN t ELSE [t EXCEPT !.guard = d]
  BY DEF ApplyPosition, t, d
<1> QED
  BY <1>1, <1>2, <1>3 DEF State, Still

LEMMA OperatingSeenOK ==
  ASSUME NEW s \in State, NEW f \in StatusFrame
  PROVE  /\ OperatingSeen(s, f) \in State
         /\ OperatingSeen(s, f).movement = s.movement
BY DEF OperatingSeen, State, StatusFrame, Operating

LEMMA HeadingType ==
  ASSUME NEW s \in State, NEW f \in StatusFrame
  PROVE  Heading(s, f) \in Movements
BY DEF Heading, State, StatusFrame

LEMMA StopPositionSeenOK ==
  ASSUME NEW s \in State, NEW f \in StatusFrame
  PROVE  StopPositionSeen(s, f) \in State
BY ApplyPositionOK DEF StopPositionSeen, StatusFrame

\* A status frame, however stale or malformed, keeps the state well formed and
\* never shows a stopped gate in motion.
LEMMA ApplyStatusOK ==
  ASSUME NEW s \in State, NEW f \in StatusFrame
  PROVE  /\ ApplyStatus(s, f) \in State
         /\ Still(ApplyStatus(s, f))
<1> DEFINE t == OperatingSeen(s, f)
           u == StopPositionSeen(t, f)
           h == Heading(t, f)
<1>1. t \in State /\ u \in State /\ h \in Movements
  BY OperatingSeenOK, StopPositionSeenOK, HeadingType
<1>2. f.operating = "yes" => t.operating = "yes"
  BY DEF OperatingSeen, State
<1> HIDE DEF t, u, h
<1>3. ApplyStatus(s, f) = IF f.operating = "yes" THEN [t EXCEPT !.movement = h]
                                               ELSE [u EXCEPT !.movement = "none"]
  BY DEF ApplyStatus, t, u, h
<1> QED
  BY <1>1, <1>2, <1>3 DEF State, Still, Movements

\* The same for the frames of the native transport.
LEMMA ApplyNativeOK ==
  ASSUME NEW s \in State, NEW f \in StatusFrame
  PROVE  /\ ApplyNative(s, f) \in State
         /\ Still(ApplyNative(s, f))
<1> DEFINE t == [s EXCEPT !.pedAssumed = @ /\ f.operating # "no"]
           u == IF f.position # NoPosition THEN ApplyPosition(t, f.position, FALSE) ELSE t
           h == Heading(u, f)
<1>1. t \in State
  BY DEF State
<1>2. u \in State
  BY <1>1, ApplyPositionOK DEF StatusFrame
<1>3. h \in Movements /\ f.operating \in Operating
  BY <1>2, HeadingType DEF StatusFrame
<1> HIDE DEF t, u, h
<1>4. ApplyNative(s, f) = [u EXCEPT !.operating = f.operating,
                                    !.movement = IF f.operating = "yes" THEN h ELSE "none"]
  BY DEF ApplyNative, t, u, h
<1> QED
  BY <1>2, <1>3, <1>4 DEF State, Still, Movements, Operating

LEMMA AfterCommandOK ==
  ASSUME NEW s \in State, NEW cmd \in Commands
  PROVE  /\ AfterAck(s, cmd) \in State
         /\ Still(AfterAck(s, cmd))
         /\ AfterMotionProof(s, cmd) \in State
         /\ Still(s) => Still(AfterMotionProof(s, cmd))
<1>1. MotionOf(cmd) \in Movements /\ (cmd = "STOP" => MotionOf(cmd) = "none")
  BY DEF MotionOf, Movements, Directions
<1> QED
  BY <1>1 DEF AfterAck, AfterMotionProof, State, Still, Operating

(***************************************************************************)
(* The physical gate                                                       *)
(***************************************************************************)

LEMMA SteeredType ==
  ASSUME NEW g \in Gates, NEW dir \in Movements
  PROVE  Steered(g, dir) \in Gates
BY DEF Steered, Gates

LEMMA SnapshotType ==
  ASSUME NEW g \in Gates
  PROVE  Snapshot(g) \in StatusFrame
<1>1. Snapshot(g) \in [position : Percent \cup {NoPosition},
                       operating : Operating, direction : Movements]
  BY DEF Snapshot, Gates, Travel, Operating, Movements, Directions
<1>2. Snapshot(g).position # NoPosition /\ Snapshot(g).direction # "none"
  BY PercentAssumption DEF Snapshot, Gates, Travel, NoPosition, Movements, Directions
<1> QED
  BY <1>1, <1>2 DEF StatusFrame

LEMMA MalformedType == Malformed \in StatusFrame
BY DEF Malformed, StatusFrame, NoPosition, Operating, Movements

LEMMA MotionOfType == \A cmd \in Commands : MotionOf(cmd) \in Movements
BY DEF MotionOf, Movements, Directions

LEMMA AdvancedType ==
  ASSUME NEW g \in Gates
  PROVE  /\ Advanced(g) \subseteq Gates
         /\ g.motion = "none" => Advanced(g) = {}
BY DEF Advanced, Gates, Travel, Movements

\* A frame says that the gate stands still exactly when it does.
LEMMA SnapshotOperating ==
  ASSUME NEW g \in Gates
  PROVE  Snapshot(g).operating = IF g.motion = "none" THEN "no" ELSE "yes"
BY DEF Snapshot

=============================================================================
