---------------------------- MODULE Ps24118Proofs ----------------------------
(***************************************************************************)
(* Proofs about Ps24118Command for any number of calls, faults, movements  *)
(* by remote control and polls, and any number of RS rounds.               *)
(***************************************************************************)
EXTENDS Ps24118Command, GateStateProofs

Track == {0, 50, 100}

Frames == [position : Reports, operating : {"yes", "no"}, direction : Directions]

Message == [type : {"nak"}]
           \cup [type : {"ack"}, command : Motions]
           \cup [type : {"text"}, text : Texts]
           \cup [type : {"rs"}, frame : Frames]
           \cup [type : {"live"}, position : Track]

Stages == {"idle", "preflight", "proof", "rearm", "settle", "command", "fallback",
           "monitor", "poll", "dead", "done"}

Outcomes == {"none", "acked", "proved", "failed", "unproven"}

Starts == [position  : Track \cup {NoPosition},
           operating : Operating,
           standby   : BOOLEAN,
           pending   : Movements]

(***************************************************************************)
(* The inductive invariant.  Types leaves the queue out: nothing below     *)
(* depends on who is in it.                                                *)
(***************************************************************************)
ClientTypes ==
  /\ stage \in [Clients -> Stages]
  /\ start \in [Calls -> Starts]
  /\ pending \in Movements
  /\ result \in [Calls -> Outcomes]
  /\ overlapped \in SUBSET Calls /\ informed \in SUBSET Calls

GateTypes ==
  /\ gate \in [position : Track, motion : Movements]
  /\ moved \in [Calls -> SUBSET Directions]

NetTypes ==
  /\ answer \in Message \cup [type : {"pending", "timeout", "down", "unsent"}]
  /\ answers \in Seq(Message)

HubTypes ==
  /\ hub \in State /\ hub.position \in Track /\ hub.operating \in {"yes", "no"}

Types == ClientTypes /\ GateTypes /\ NetTypes /\ HubTypes

\* Two calls that run at the same time are both known to.
Beside ==
  \A c, d \in Calls : c # d /\ Active(c) /\ Active(d) => c \in overlapped /\ d \in overlapped

\* An RS in the future belongs to a client that is in an exchange.
AnswerTaken == \A c \in Clients : holder = c /\ answer.type = "rs" => stage[c] # "idle"

\* A call is said to be well informed when it begins.
InformedBegan == \A c \in informed : stage[c] # "idle"

\* Two sights of the gate, an earlier and a later one, differ by motions since c began.
Explained(c, p, q) ==
  /\ Normalize(q) > Normalize(p) => "opening" \in moved[c]
  /\ Normalize(q) < Normalize(p) => "closing" \in moved[c]

Sight(m) == IF m.type = "rs" THEN m.frame.position ELSE m.position
Telling(m) == m.type \in {"rs", "live"}

\* A frame shows the motor running in a direction the gate took since c began.
Honest(c, m) ==
  m.type = "rs" /\ m.frame.operating = "yes" => m.frame.direction \in moved[c]

Aware(c) == Active(c) /\ c \in informed

Began(c) == start[c].position \in Track /\ Explained(c, start[c].position, hub.position)

Travelled(c) ==
  /\ gate.motion \in moved[c] \cup {"none"}
  /\ Explained(c, hub.position, gate.position)

\* What is on its way to the hub lies between what is shown and the gate, in its order.
InOrder(c, i) ==
  /\ Honest(c, answers[i])
  /\ Telling(answers[i]) =>
       /\ Explained(c, hub.position, Sight(answers[i]))
       /\ Explained(c, Sight(answers[i]), gate.position)
       /\ \A j \in DOMAIN answers :
            i < j /\ Telling(answers[j]) => Explained(c, Sight(answers[i]), Sight(answers[j]))

UnderWay(c) == \A i \in DOMAIN answers : InOrder(c, i)

Arrived(c) ==
  holder = c /\ answer.type = "rs" =>
    /\ Honest(c, answer) /\ Explained(c, start[c].position, Sight(answer))
    /\ hub.movement \in moved[c] \cup {"none"}

\* Whatever a call that began well informed has seen of the gate since, or will see,
\* differs from where it began by motions of the gate since then.
Accounted ==
  \A c \in Calls : Aware(c) => Began(c) /\ Travelled(c) /\ UnderWay(c) /\ Arrived(c)

WhoRuns == Beside /\ AnswerTaken /\ InformedBegan /\ MonitorYields

IInv == Types /\ WhoRuns /\ Accounted

(***************************************************************************)
(* Operators                                                               *)
(***************************************************************************)

LEMMA Positions == Track \subseteq Reports /\ Reports \subseteq Int /\ Reports \subseteq Percent
BY ReportsAssumption DEF Track, Reports

LEMMA NormalizeReport ==
  /\ \A p \in Reports : Normalize(p) \in Track
  /\ \A p \in Track : Normalize(p) = p
BY DEF Normalize, Reports, Track

LEMMA ExplainedSame ==
  ASSUME NEW c, NEW p \in Int, NEW q \in Int, Normalize(p) = Normalize(q)
  PROVE  Explained(c, p, q)
BY DEF Explained, Normalize

LEMMA ExplainedTrans ==
  ASSUME NEW c, NEW p \in Int, NEW q \in Int, NEW r \in Int,
         Explained(c, p, q), Explained(c, q, r)
  PROVE  Explained(c, p, r)
<1> DEFINE P == Normalize(p)  Q == Normalize(q)  R == Normalize(r)
<1>1. P \in Int /\ Q \in Int /\ R \in Int
  BY DEF Normalize
<1>2. /\ Q > P => "opening" \in moved[c]
      /\ Q < P => "closing" \in moved[c]
      /\ R > Q => "opening" \in moved[c]
      /\ R < Q => "closing" \in moved[c]
  BY DEF Explained
<1>3. SUFFICES /\ R > P => "opening" \in moved[c]
               /\ R < P => "closing" \in moved[c]
  BY DEF Explained
<1> HIDE DEF P, Q, R
<1> QED
  BY <1>1, <1>2

LEMMA FramesAreStatus == Frames \subseteq StatusFrame
<1>1. Reports \subseteq Percent /\ NoPosition \notin Reports
  BY ReportsAssumption DEF Reports, NoPosition
<1> QED
  BY <1>1 DEF Frames, StatusFrame, Operating, Movements, Directions

\* What an RS does to the shown state.
LEMMA StatusSeen ==
  ASSUME NEW s \in State, s.operating \in {"yes", "no"}, NEW f \in Frames
  PROVE  LET t == ApplyStatus(s, f)
         IN  /\ t \in State /\ t.operating \in {"yes", "no"}
             /\ t.position \in {s.position, Normalize(f.position)}
             /\ t.movement \in {"none"} \cup (IF f.operating = "yes" THEN {f.direction} ELSE {})
<1> DEFINE t == ApplyStatus(s, f)
           u == OperatingSeen(s, f)
<1>1. t \in State
  BY FramesAreStatus, ApplyStatusOK
<1>2. u \in State /\ u.position = s.position /\ u.operating = f.operating
  BY FramesAreStatus, OperatingSeenOK DEF OperatingSeen, State, Frames
<1>3. f.direction # "none" /\ f.position \in Percent /\ f.operating \in {"yes", "no"}
  BY Positions DEF Frames, Directions
<1>4. CASE f.operating = "yes"
  <2>1. t = [u EXCEPT !.movement = f.direction]
    BY <1>3, <1>4 DEF ApplyStatus, Heading
  <2> QED
    BY <1>1, <1>2, <1>4, <2>1 DEF State
<1>5. CASE f.operating = "no"
  <2> DEFINE w == StopPositionSeen(u, f)
  <2>1. t = [w EXCEPT !.movement = "none"]
    BY <1>5 DEF ApplyStatus
  <2>2. w \in State
    BY <1>2, FramesAreStatus, StopPositionSeenOK
  <2>3. w.position \in {s.position, Normalize(f.position)} /\ w.operating = "no"
    BY <1>2, <1>3, <1>5
       DEF StopPositionSeen, ApplyPosition, ShowPosition, State
  <2> QED
    BY <1>1, <2>1, <2>2, <2>3 DEF State
<1> QED
  BY <1>3, <1>4, <1>5

\* What a live percentage does to it.
LEMMA LiveSeen ==
  ASSUME NEW s \in State, s.operating \in {"yes", "no"}, NEW p \in Track
  PROVE  LET t == ApplyPosition(s, p, TRUE)
         IN  /\ t \in State /\ t.operating \in {"yes", "no"}
             /\ t.position = p
             /\ t.movement \in {"none", s.movement, Toward(s.position, p)}
<1> DEFINE t == ApplyPosition(s, p, TRUE)
           w == ShowPosition(s, p, TRUE)
<1>1. t \in State /\ w \in State /\ Normalize(p) = p
  BY ApplyPositionOK, ShowPositionOK, Positions, NormalizeReport
<1>2. t.position = w.position /\ t.movement = w.movement /\ t.operating = w.operating
  BY <1>1 DEF ApplyPosition, State
<1>3. w.position = p /\ w.operating \in {s.operating, "no"}
  BY <1>1 DEF ShowPosition, State
<1>4. w.movement \in {"none", s.movement, Toward(s.position, p)}
  BY <1>1 DEF ShowPosition, DerivedMovement, State
<1> QED
  BY <1>1, <1>2, <1>3, <1>4

LEMMA MotionsMove == \A cmd \in Motions : MotionOf(cmd) \in Directions
BY DEF Motions, MotionOf, Directions

LEMMA AskedMotion == \A c \in Calls : AskedFor[c] \in Motions /\ MotionOf(AskedFor[c]) \in Directions
BY CallsAssumption, MotionsMove

\* What a caller writes itself changes neither the position nor, after a proof, the motion.
LEMMA CallerWrites ==
  ASSUME NEW s \in State, s.operating \in {"yes", "no"}, NEW cmd \in Motions
  PROVE  /\ AfterAck(s, cmd) \in State /\ AfterMotionProof(s, cmd) \in State
         /\ AfterAck(s, cmd).operating = "yes"
         /\ AfterMotionProof(s, cmd).operating = s.operating
         /\ AfterAck(s, cmd).position = s.position
         /\ AfterMotionProof(s, cmd).position = s.position
<1>1. cmd \in Commands /\ cmd # "STOP"
  BY DEF Commands, Motions
<1>2. AfterAck(s, cmd) \in State /\ AfterMotionProof(s, cmd) \in State
  BY <1>1, AfterCommandOK
<1> QED
  BY <1>1, <1>2 DEF AfterAck, AfterMotionProof, State

\* A report of the gate is a frame that tells where it stands and how it moves.
LEMMA StatusTrue ==
  ASSUME GateTypes, NEW f \in Status
  PROVE  /\ f \in Frames
         /\ Normalize(f.position) = Normalize(gate.position)
         /\ f.operating = "yes" => gate.motion # "none" /\ f.direction = gate.motion
<1>1. PICK p \in Reported(gate.position) :
        f = [position  |-> p,
             operating |-> IF gate.motion = "none" THEN "no" ELSE "yes",
             direction |-> IF gate.motion = "closing" THEN "closing" ELSE "opening"]
  BY DEF Status
<1>2. gate.position \in Track /\ gate.motion \in Movements
  BY DEF GateTypes
<1>3. p \in Reports /\ Normalize(p) = Normalize(gate.position)
  BY <1>2 DEF Reported, Track, Reports, Normalize
<1> QED
  BY <1>1, <1>2, <1>3 DEF Frames, Movements, Directions

(***************************************************************************)
(* Types                                                                   *)
(***************************************************************************)

\* The steps of a client but for its beginning.
ClientStep ==
  \/ \E c \in Calls : Resume(c) \/ Settled(c)
  \/ \E c \in Clients : Acquire(c)
  \/ Polled(Poller) \/ Polled(Hello)
  \/ Timeout \/ MonitorRound \/ Poll \/ Reconnect

LEMMA PendingAfterType ==
  ASSUME Types, NEW c \in Calls
  PROVE  PendingAfter(c) \in Movements
BY AskedMotion DEF PendingAfter, Types, ClientTypes, Movements

LEMMA Named ==
  /\ Calls \subseteq Clients /\ Monitor \in Clients /\ Poller \in Clients /\ Hello \in Clients
  /\ Monitor \notin Calls /\ Poller \notin Calls /\ Hello \notin Calls /\ Nobody \notin Clients
  /\ Monitor # Poller /\ Monitor # Hello /\ Poller # Hello
BY CallsAssumption DEF Clients

LEMMA NoStartType == NoStart \in Starts
BY DEF NoStart, Starts, Operating, Movements

\* A step that ends an exchange leaves the types of stages, starts and answer alone.
LEMMA GoesType ==
  ASSUME Types, NEW c \in Clients, NEW next \in Stages, NEW waits, Goes(c, next, waits)
  PROVE  stage' \in [Clients -> Stages] /\ answer' = Pending
BY DEF Goes, Types, ClientTypes

LEMMA PendingTyped == Pending \in [type : {"pending", "timeout", "down", "unsent"}]
BY DEF Pending

LEMMA SucceedsTypes ==
  ASSUME Types, NEW c \in Calls, NEW outcome \in Outcomes, Succeeds(c, outcome),
         UNCHANGED <<netVars, envVars, historyVars>>
  PROVE  Types'
<1>1. ClientTypes'
  BY Named, PendingAfterType, NoStartType
     DEF Succeeds, Forget, Types, ClientTypes, historyVars, Stages
<1>2. GateTypes'
  BY DEF Succeeds, Forget, Types, GateTypes, envVars
<1>3. NetTypes'
  BY PendingTyped DEF Succeeds, Types, NetTypes, netVars
<1>4. HubTypes'
  BY AskedMotion, CallerWrites DEF Succeeds, Types, HubTypes
<1> QED
  BY <1>1, <1>2, <1>3, <1>4 DEF Types

\* An exchange that ends without success.
LEMMA OtherEndTypes ==
  ASSUME Types, NEW c \in Clients, NEW next \in Stages, NEW waits, Goes(c, next, waits),
         start' \in [Calls -> Starts], moved' \in [Calls -> SUBSET Directions],
         result' \in [Calls -> Outcomes],
         UNCHANGED <<pending, hub, netVars, envVars, historyVars>>
  PROVE  Types'
BY GoesType, PendingTyped
   DEF Types, ClientTypes, GateTypes, NetTypes, HubTypes, netVars, envVars, historyVars

LEMMA ResultTyped ==
  Types => /\ result \in [Calls -> Outcomes]
           /\ \A c \in Calls, outcome \in Outcomes : [result EXCEPT ![c] = outcome] \in [Calls -> Outcomes]
BY DEF Types, ClientTypes

LEMMA KeepsTyped ==
  Types => /\ Remember => /\ start' \in [Calls -> Starts]
                          /\ moved' \in [Calls -> SUBSET Directions]
           /\ \A c \in Calls : Forget(c) => /\ start' \in [Calls -> Starts]
                                            /\ moved' \in [Calls -> SUBSET Directions]
BY NoStartType DEF Remember, Forget, Types, ClientTypes, GateTypes

LEMMA EndsTypes ==
  ASSUME Types, NEW c \in Calls, NEW outcome \in Outcomes, Ends(c, outcome),
         UNCHANGED <<pending, hub, netVars, envVars, historyVars>>
  PROVE  Types'
<1>1. Goes(c, "done", FALSE) /\ Forget(c) /\ result' = [result EXCEPT ![c] = outcome]
  BY DEF Ends
<1>2. c \in Clients /\ "done" \in Stages
  BY Named DEF Stages
<1> QED
  BY <1>1, <1>2, KeepsTyped, ResultTyped, OtherEndTypes

\* An exchange that another one follows.
LEMMA GoesOnTypes ==
  ASSUME Types, NEW c \in Calls, NEW next \in Stages, NEW waits, Goes(c, next, waits),
         Remember, UNCHANGED <<result, pending, hub, netVars, envVars, historyVars>>
  PROVE  Types'
BY Named, KeepsTyped, ResultTyped, OtherEndTypes

LEMMA ClientStepTypes == ASSUME Types, ClientStep PROVE Types'
<1>1. ASSUME NEW c \in Calls, Decide(c) PROVE Types'
  <2>1. start' \in [Calls -> Starts]
    BY <1>1 DEF Decide, Types, ClientTypes, Starts
  <2> QED
    BY <1>1, <2>1, Named, ResultTyped, OtherEndTypes DEF Decide, Stages, Types, GateTypes
<1>2. ASSUME NEW c \in Calls, EndProven(c) \/ Rearmed(c) PROVE Types'
  BY <1>2, EndsTypes, GoesOnTypes DEF EndProven, Rearmed, Stages, Outcomes
<1>3. ASSUME NEW c \in Calls, CommandAnswered(c) PROVE Types'
  BY <1>3, EndsTypes, GoesOnTypes, SucceedsTypes DEF CommandAnswered, Stages, Outcomes
<1>4. ASSUME NEW c \in Calls, Fallback(c) PROVE Types'
  BY <1>4, EndsTypes, GoesOnTypes, SucceedsTypes DEF Fallback, Stages, Outcomes
<1>5. ASSUME NEW c \in Calls, Settled(c) PROVE Types'
  BY <1>5, Named DEF Settled, Types, ClientTypes, GateTypes, NetTypes, HubTypes, Stages,
                     netVars, envVars, historyVars, Movements
<1>6. ASSUME NEW c \in Clients, Acquire(c) PROVE Types'
  BY <1>6, PendingTyped
     DEF Acquire, Types, ClientTypes, GateTypes, NetTypes, HubTypes, callVars, envVars, historyVars
<1>7. CASE Polled(Poller) \/ Polled(Hello)
  BY <1>7, Named, OtherEndTypes DEF Polled, callVars, Stages, Types, ClientTypes, GateTypes
<1>8. CASE MonitorRound
  BY <1>8, Named, OtherEndTypes DEF MonitorRound, Stages, Types, ClientTypes, GateTypes
<1>9. CASE Timeout
  BY <1>9 DEF Timeout, Types, ClientTypes, GateTypes, NetTypes, HubTypes,
              callVars, netVars, historyVars
<1>10. CASE Poll \/ Reconnect
  BY <1>10, Named DEF Poll, Reconnect, Types, ClientTypes, GateTypes, NetTypes, HubTypes, Stages,
                      callVars, netVars, envVars, historyVars
<1> QED
  BY <1>1, <1>2, <1>3, <1>4, <1>5, <1>6, <1>7, <1>8, <1>9, <1>10 DEF ClientStep, Resume

LEMMA BeginTypes == ASSUME Types, NEW c \in Calls, Begin(c) PROVE Types'
<1>1. stage' \in [Clients -> Stages]
  BY Named DEF Begin, CancelMonitor, MonitorGone, Types, ClientTypes, Stages
<1>2. start' \in [Calls -> Starts]
  BY DEF Begin, Types, ClientTypes, HubTypes, Starts, Operating
<1>3. ClientTypes'
  BY <1>1, <1>2 DEF Begin, Types, ClientTypes
<1>4. GateTypes'
  BY DEF Begin, Types, GateTypes, Movements
<1>5. NetTypes'
  BY PendingTyped DEF Begin, CancelMonitor, MonitorGone, Types, NetTypes, netVars
<1> QED
  BY <1>3, <1>4, <1>5 DEF Begin, Types, HubTypes

\* The first message under way, and what it does to the shown state.
LEMMA FirstAnswer ==
  ASSUME Types, answers # <<>>
  PROVE  /\ Head(answers) \in Message
         /\ Head(answers) = answers[1] /\ 1 \in DOMAIN answers
         /\ answers[1].type = "rs" => answers[1].frame \in Frames
         /\ answers[1].type = "live" => answers[1].position \in Track
<1>1. answers[1] \in Message /\ Head(answers) = answers[1] /\ 1 \in DOMAIN answers
  BY DEF Types, NetTypes
<1> QED
  BY <1>1 DEF Message

LEMMA DeliverTypes == ASSUME Types, Deliver PROVE Types'
<1> DEFINE m == Head(answers)
<1>1. /\ m \in Message
      /\ m.type = "rs" => m.frame \in Frames
      /\ m.type = "live" => m.position \in Track
  BY FirstAnswer DEF Deliver
<1>2. hub' = Seen(m) /\ (answer' = m \/ answer' = answer) /\ answers' = Tail(answers)
  BY DEF Deliver
<1> HIDE DEF m
<1>3. HubTypes'
  <2>1. CASE m.type = "rs"
    <3>1. m.frame.position \in Reports
      BY <1>1, <2>1 DEF Frames
    <3> QED
      BY <1>1, <1>2, <2>1, <3>1, StatusSeen, NormalizeReport DEF Seen, Types, HubTypes
  <2>2. CASE m.type = "live"
    BY <1>1, <1>2, <2>2, LiveSeen DEF Seen, Types, HubTypes
  <2>3. CASE m.type \notin {"rs", "live"}
    BY <1>2, <2>3 DEF Seen, Types, HubTypes
  <2> QED
    BY <2>1, <2>2, <2>3
<1>4. NetTypes'
  BY <1>1, <1>2 DEF Deliver, Types, NetTypes
<1> QED
  BY <1>3, <1>4 DEF Deliver, Types, ClientTypes, GateTypes, envVars, historyVars

LEMMA MovingType ==
  ASSUME Types, NEW d \in Directions
  PROVE  Moving(d) \in [Calls -> SUBSET Directions]
BY DEF Moving, Types, GateTypes

LEMMA GateServesTypes == ASSUME Types, GateServes PROVE Types'
<1>1. ClientTypes' /\ HubTypes'
  BY DEF GateServes, lockVars, callVars, historyVars, Types, ClientTypes, HubTypes
<1>2. GateTypes' /\ NetTypes'
  <2>1. answer' = answer
    BY DEF GateServes, lockVars
  <2> DEFINE r == Head(requests)
  <2>2. CASE \E f \in Status : /\ answers' = Append(answers, [type |-> "rs", frame |-> f])
                               /\ UNCHANGED <<gate, moved>>
    BY <2>1, <2>2, StatusTrue DEF Types, GateTypes, NetTypes, Message
  <2>3. CASE \E t \in Texts : /\ answers' = Append(answers, [type |-> "text", text |-> t])
                              /\ UNCHANGED <<gate, moved>>
    BY <2>1, <2>3 DEF Types, GateTypes, NetTypes, Message
  <2>4. CASE /\ r \in Motions
             /\ answers' = Append(answers, [type |-> "ack", command |-> r])
             /\ \/ gate' = [gate EXCEPT !.motion = MotionOf(r)] /\ moved' = Moving(MotionOf(r))
                \/ UNCHANGED <<gate, moved>>
    BY <2>1, <2>4, MotionsMove, MovingType DEF Types, GateTypes, NetTypes, Message, Movements
  <2>5. CASE answers' = Append(answers, [type |-> "nak"]) /\ UNCHANGED <<gate, moved>>
    BY <2>1, <2>5 DEF Types, GateTypes, NetTypes, Message
  <2> QED
    BY <2>2, <2>3, <2>4, <2>5 DEF GateServes
<1> QED
  BY <1>1, <1>2 DEF Types

\* A running gate is at its next position, or has stopped where it is.
LEMMA GateRunsOn ==
  ASSUME Types, GateRuns
  PROVE  /\ gate.motion \in Directions
         /\ gate'.position \in Track /\ gate'.motion \in {gate.motion, "none"}
         /\ gate' \in [position : Track, motion : Movements]
         /\ gate'.position > gate.position => gate.motion = "opening"
         /\ gate'.position < gate.position => gate.motion = "closing"
         /\ \/ answers' = answers
            \/ answers' = Append(answers, [type |-> "live", position |-> gate'.position])
BY DEF GateRuns, Types, GateTypes, Track, Movements, Directions

LEMMA WorldTypes ==
  ASSUME Types, GateRuns \/ RemoteControl \/ Lose \/ Disconnect
  PROVE  Types'
<1>1. CASE GateRuns
  <2> DEFINE m == [type |-> "live", position |-> gate'.position]
  <2>1. GateTypes'
    BY <1>1, GateRunsOn DEF GateRuns, Types, GateTypes
  <2>2. m \in Message
    BY <1>1, GateRunsOn DEF Message
  <2>3. answer' = answer /\ (answers' = answers \/ answers' = Append(answers, m))
    BY <1>1, GateRunsOn DEF GateRuns, lockVars
  <2> HIDE DEF m
  <2>4. NetTypes'
    BY <2>2, <2>3 DEF Types, NetTypes
  <2> QED
    BY <1>1, <2>1, <2>4 DEF GateRuns, lockVars, callVars, historyVars, Types, ClientTypes, HubTypes
<1>2. CASE RemoteControl
  <2>1. GateTypes'
    BY <1>2, MovingType DEF RemoteControl, Types, GateTypes, Movements
  <2> QED
    BY <1>2, <2>1 DEF RemoteControl, lockVars, callVars, netVars, historyVars,
                      Types, ClientTypes, NetTypes, HubTypes
<1>3. CASE Lose
  <2>1. NetTypes'
    <3>1. answers' = answers \/ (answers # <<>> /\ answers' = Tail(answers))
      BY <1>3 DEF Lose
    <3> QED
      BY <1>3, <3>1 DEF Lose, lockVars, Types, NetTypes
  <2> QED
    BY <1>3, <2>1 DEF Lose, callVars, historyVars, Types, ClientTypes, GateTypes, HubTypes
<1>4. CASE Disconnect
  <2>1. NetTypes'
    BY <1>4 DEF Disconnect, Types, NetTypes
  <2> QED
    BY <1>4, <2>1 DEF Disconnect, callVars, historyVars, Types, ClientTypes, GateTypes, HubTypes
<1> QED
  BY <1>1, <1>2, <1>3, <1>4

(***************************************************************************)
(* Who runs beside whom                                                    *)
(***************************************************************************)

\* No step but Begin sets a call going, and none forgets who ran beside another.
LEMMA NoneBegins ==
  ASSUME Types, ClientStep
  PROVE  /\ \A c \in Calls : /\ Active(c)' => Active(c)
                             /\ stage'[c] = "idle" => stage[c] = "idle"
         /\ UNCHANGED <<overlapped, informed>>
<1> USE Named DEF Types, ClientTypes, Active, historyVars, Goes
<1> DEFINE Kept == \A d \in Calls : /\ Active(d)' => Active(d)
                                    /\ stage'[d] = "idle" => stage[d] = "idle"
<1>1. ASSUME NEW c \in Calls, Decide(c)
      PROVE  Kept /\ UNCHANGED <<overlapped, informed>>
  BY <1>1 DEF Decide
<1>2. ASSUME NEW c \in Calls, EndProven(c) \/ Rearmed(c)
      PROVE  Kept /\ UNCHANGED <<overlapped, informed>>
  BY <1>2 DEF EndProven, Rearmed, Ends
<1>3. ASSUME NEW c \in Calls, CommandAnswered(c)
      PROVE  Kept /\ UNCHANGED <<overlapped, informed>>
  BY <1>3 DEF CommandAnswered, Ends, Succeeds
<1>4. ASSUME NEW c \in Calls, Fallback(c)
      PROVE  Kept /\ UNCHANGED <<overlapped, informed>>
  BY <1>4 DEF Fallback, Ends, Succeeds
<1>5. ASSUME NEW c \in Calls, Settled(c)
      PROVE  Kept /\ UNCHANGED <<overlapped, informed>>
  BY <1>5 DEF Settled
<1>6. ASSUME NEW c \in Clients, Acquire(c)
      PROVE  Kept /\ UNCHANGED <<overlapped, informed>>
  BY <1>6 DEF Acquire
<1>7. CASE Polled(Poller) \/ Polled(Hello) \/ MonitorRound \/ Timeout \/ Poll \/ Reconnect
  BY <1>7 DEF Polled, MonitorRound, Timeout, Poll, Reconnect
<1> QED
  BY <1>1, <1>2, <1>3, <1>4, <1>5, <1>6, <1>7 DEF ClientStep, Resume

\* The monitor starts anew only where a movement succeeds.
LEMMA MonitorStarts ==
  ASSUME Types, ClientStep
  PROVE  \/ stage'[Monitor] \in {stage[Monitor], "idle"}
         \/ \E c \in Calls : Active(c) /\ ~Active(c)'
<1> USE Named DEF Types, ClientTypes, Active, Goes
<1>1. ASSUME NEW c \in Calls, Decide(c) \/ EndProven(c) \/ Rearmed(c) \/ Settled(c)
      PROVE  stage'[Monitor] = stage[Monitor]
  BY <1>1 DEF Decide, EndProven, Rearmed, Settled, Ends
<1>2. ASSUME NEW c \in Calls, CommandAnswered(c) \/ Fallback(c)
      PROVE  stage'[Monitor] = stage[Monitor] \/ (Active(c) /\ ~Active(c)')
  BY <1>2 DEF CommandAnswered, Fallback, Ends, Succeeds
<1>3. ASSUME NEW c \in Clients, Acquire(c)
      PROVE  stage' = stage
  BY <1>3 DEF Acquire
<1>4. CASE Polled(Poller) \/ Polled(Hello) \/ MonitorRound \/ Timeout \/ Poll \/ Reconnect
  BY <1>4 DEF Polled, MonitorRound, Timeout, Poll, Reconnect
<1> QED
  BY <1>1, <1>2, <1>3, <1>4 DEF ClientStep, Resume

\* An RS in the future stays there until its client leaves the exchange.
LEMMA AnswerKept ==
  ASSUME Types, ClientStep
  PROVE  \/ answer'.type # "rs"
         \/ /\ UNCHANGED <<holder, answer, hub>>
            /\ \A c \in Clients : stage'[c] = "idle" => stage[c] = "idle"
<1> USE Named DEF Types, ClientTypes, Goes, Pending
<1>1. ASSUME NEW c \in Calls, Resume(c)
      PROVE  answer' = Pending
  BY <1>1 DEF Resume, Decide, EndProven, Rearmed, CommandAnswered, Fallback, Ends, Succeeds
<1>2. ASSUME NEW c \in Calls, Settled(c)
      PROVE  UNCHANGED <<holder, answer, hub>> /\ \A d \in Clients : stage'[d] = "idle" => stage[d] = "idle"
  BY <1>2 DEF Settled
<1>3. ASSUME NEW c \in Clients, Acquire(c)
      PROVE  answer'.type # "rs"
  BY <1>3 DEF Acquire
<1>4. CASE Polled(Poller) \/ Polled(Hello) \/ MonitorRound \/ Timeout
  BY <1>4 DEF Polled, MonitorRound, Timeout
<1>5. CASE Poll \/ Reconnect
  BY <1>5 DEF Poll, Reconnect, callVars
<1> QED
  BY <1>1, <1>2, <1>3, <1>4, <1>5 DEF ClientStep

World == Deliver \/ GateServes \/ GateRuns \/ RemoteControl \/ Lose \/ Disconnect

LEMMA WhoRunsStep ==
  ASSUME Types, Types', WhoRuns,
         ClientStep \/ World \/ \E c \in Calls : Begin(c)
  PROVE  WhoRuns'
<1> USE Named
<1>1. CASE ClientStep
  <2>1. /\ \A c \in Calls : /\ Active(c)' => Active(c)
                            /\ stage'[c] = "idle" => stage[c] = "idle"
        /\ UNCHANGED <<overlapped, informed>>
    BY <1>1, NoneBegins
  <2>2. Beside'
    BY <2>1 DEF WhoRuns, Beside
  <2>3. AnswerTaken'
    BY <1>1, AnswerKept DEF WhoRuns, AnswerTaken
  <2>4. MonitorYields'
    <3> SUFFICES ASSUME NEW c \in Calls, Active(c)', c \notin overlapped
                 PROVE  stage'[Monitor] = "idle"
      BY <2>1 DEF MonitorYields
    <3>1. stage[Monitor] = "idle"
      BY <2>1 DEF WhoRuns, MonitorYields
    <3>2. ~ \E d \in Calls : Active(d) /\ ~Active(d)'
      BY <2>1 DEF WhoRuns, Beside
    <3> QED
      BY <1>1, <3>1, <3>2, MonitorStarts
  <2>5. InformedBegan'
    BY <2>1 DEF WhoRuns, InformedBegan, Types, ClientTypes
  <2> QED
    BY <2>2, <2>3, <2>4, <2>5 DEF WhoRuns
<1>2. CASE World
  <2>1. UNCHANGED <<stage, holder, overlapped, informed>>
    BY <1>2 DEF World, Deliver, GateServes, GateRuns, RemoteControl, Lose, Disconnect,
                lockVars, historyVars
  <2>2. answer' = answer \/ answer'.type # "rs" \/ Expects(answer')
    <3>1. CASE Deliver
      <4> DEFINE m == Head(answers)
      <4>1. answer' = IF Expects(m) THEN m ELSE answer
        BY <3>1 DEF Deliver
      <4> QED
        BY <4>1
    <3>2. CASE GateServes \/ GateRuns \/ RemoteControl \/ Lose
      BY <3>2 DEF GateServes, GateRuns, RemoteControl, Lose, lockVars
    <3>3. CASE Disconnect
      BY <3>3 DEF Disconnect
    <3> QED
      BY <1>2, <3>1, <3>2, <3>3 DEF World
  <2>3. AnswerTaken'
    BY <2>1, <2>2 DEF WhoRuns, AnswerTaken, Expects
  <2> QED
    BY <2>1, <2>3 DEF WhoRuns, Beside, InformedBegan, MonitorYields, Active
<1>3. ASSUME NEW c \in Calls, Begin(c) PROVE WhoRuns'
  <2>1. /\ stage'[c] \notin {"idle", "done"} /\ stage'[Monitor] = "idle" /\ stage[c] = "idle"
        /\ \A d \in Clients \ {c, Monitor} : stage'[d] = stage[d]
    BY <1>3 DEF Begin, CancelMonitor, MonitorGone, Types, ClientTypes
  <2>2. \A d \in Calls \ {c} : Active(d)' <=> Active(d)
    BY <2>1 DEF Active
  <2>3. Beside'
    BY <1>3, <2>1, <2>2 DEF Begin, WhoRuns, Beside, Active
  <2>4. AnswerTaken'
    <3>1. \/ answer'.type = "pending"
          \/ UNCHANGED <<holder, answer>> /\ holder # Monitor
      BY <1>3 DEF Begin, CancelMonitor, MonitorGone, Pending
    <3> QED
      BY <2>1, <3>1 DEF WhoRuns, AnswerTaken
  <2>5. MonitorYields'
    BY <2>1 DEF MonitorYields
  <2>6. InformedBegan'
    BY <1>3, <2>1 DEF Begin, WhoRuns, InformedBegan, Types, ClientTypes
  <2> QED
    BY <2>3, <2>4, <2>5, <2>6 DEF WhoRuns
<1> QED
  BY <1>1, <1>2, <1>3

(***************************************************************************)
(* What a call has seen of the gate                                        *)
(***************************************************************************)

Account(c) == Began(c) /\ Travelled(c) /\ UnderWay(c) /\ Arrived(c)

\* Fewer messages are under way, and the shown position stays.
LEMMA FewerUnderWay ==
  ASSUME Types, Types', NEW c \in Calls, UnderWay(c),
         hub'.position = hub.position, UNCHANGED <<gate, moved>>,
         answers' \in {answers, <<>>} \/ (answers # <<>> /\ answers' = Tail(answers))
  PROVE  UnderWay(c)'
<1>1. CASE answers' \in {answers, <<>>}
  BY <1>1 DEF UnderWay, InOrder, Honest, Explained
<1>2. CASE answers # <<>> /\ answers' = Tail(answers)
  <2>1. \A i \in DOMAIN answers' : i \in Int /\ i + 1 \in DOMAIN answers /\ answers'[i] = answers[i + 1]
    BY <1>2 DEF Types, NetTypes
  <2> SUFFICES ASSUME NEW i \in DOMAIN answers' PROVE InOrder(c, i)'
    BY DEF UnderWay
  <2>2. InOrder(c, i + 1)
    BY <2>1 DEF UnderWay
  <2>3. \A j \in DOMAIN answers' : i < j => i + 1 < j + 1
    BY <2>1
  <2> QED
    BY <2>1, <2>2, <2>3 DEF InOrder, Honest, Explained
<1> QED
  BY <1>1, <1>2

\* A call that goes on keeps what it began with and the motions it knows of, whatever
\* a client does; the shown position and the gate stay.
LEMMA MemoryKept ==
  ASSUME Types, ClientStep
  PROVE  /\ \A c \in Calls : Active(c)' => /\ moved'[c] = moved[c]
                                           /\ start'[c].position = start[c].position
         /\ hub'.position = hub.position
         /\ UNCHANGED gate
         /\ UNCHANGED answers
<1> USE Named DEF Types, ClientTypes, GateTypes, HubTypes, netVars, envVars
<1> DEFINE Kept == \A c \in Calls : Active(c)' => /\ moved'[c] = moved[c]
                                                  /\ start'[c].position = start[c].position
<1>1. ASSUME NEW c \in Calls, Ends(c, "failed") \/ Ends(c, "unproven")
      PROVE  Kept
  BY <1>1 DEF Ends, Goes, Forget, Active
<1>2. ASSUME NEW c \in Calls, NEW outcome \in {"acked", "proved"}, Succeeds(c, outcome)
      PROVE  Kept /\ hub'.position = hub.position
  <2>1. Kept
    BY <1>2 DEF Succeeds, Forget, Active
  <2>2. hub'.position = hub.position
    BY <1>2, AskedMotion, CallerWrites DEF Succeeds
  <2> QED
    BY <2>1, <2>2
<1>3. Remember => Kept
  BY DEF Remember
<1>4. ASSUME NEW c \in Calls, Decide(c)
      PROVE  Kept /\ UNCHANGED <<hub, gate, answers>>
  BY <1>4 DEF Decide, Starts
<1> HIDE DEF Kept
<1>5. ASSUME NEW c \in Calls, EndProven(c) \/ Rearmed(c)
      PROVE  Kept /\ UNCHANGED <<hub, gate, answers>>
  BY <1>1, <1>3, <1>5 DEF EndProven, Rearmed, Ends
<1>6. ASSUME NEW c \in Calls, CommandAnswered(c)
      PROVE  Kept /\ hub'.position = hub.position /\ UNCHANGED <<gate, answers>>
  BY <1>1, <1>2, <1>3, <1>6 DEF CommandAnswered
<1>7. ASSUME NEW c \in Calls, Fallback(c)
      PROVE  Kept /\ hub'.position = hub.position /\ UNCHANGED <<gate, answers>>
  BY <1>1, <1>2, <1>3, <1>7 DEF Fallback
<1>8. UNCHANGED <<moved, start>> => Kept
  BY DEF Kept
<1>9. ASSUME NEW c \in Calls, Settled(c)
      PROVE  Kept /\ UNCHANGED <<hub, gate, answers>>
  BY <1>8, <1>9 DEF Settled
<1>10. ASSUME NEW c \in Clients, Acquire(c)
       PROVE  Kept /\ UNCHANGED <<hub, gate, answers>>
  BY <1>8, <1>10 DEF Acquire, callVars
<1>11. CASE Polled(Poller) \/ Polled(Hello) \/ MonitorRound \/ Timeout \/ Poll \/ Reconnect
  <2>1. UNCHANGED <<moved, start, hub, gate, answers>>
    BY <1>11 DEF Polled, MonitorRound, Timeout, Poll, Reconnect, callVars
  <2> QED
    BY <1>8, <2>1 DEF Kept
<1> QED
  BY <1>4, <1>5, <1>6, <1>7, <1>9, <1>10, <1>11 DEF ClientStep, Resume, Kept

LEMMA ClientStepAccounted ==
  ASSUME Types, Types', Accounted, ClientStep
  PROVE  Accounted'
<1> SUFFICES ASSUME NEW c \in Calls, Aware(c)'
             PROVE  Account(c)'
  BY DEF Accounted, Account
<1>1. Aware(c) /\ moved'[c] = moved[c] /\ start'[c].position = start[c].position
  BY NoneBegins, MemoryKept DEF Aware
<1>2. hub'.position = hub.position /\ UNCHANGED <<gate, answers>>
  BY MemoryKept
<1>3. Account(c)
  BY <1>1 DEF Accounted, Account
<1>4. Began(c)' /\ Travelled(c)'
  BY <1>1, <1>2, <1>3 DEF Account, Began, Travelled, Explained
<1>5. UnderWay(c)'
  BY <1>1, <1>2, <1>3 DEF Account, UnderWay, InOrder, Honest, Explained
<1>6. Arrived(c)'
  BY <1>1, <1>3, AnswerKept DEF Account, Arrived, Honest, Explained
<1> QED
  BY <1>4, <1>5, <1>6 DEF Account

LEMMA BeginAccounted ==
  ASSUME Types, Types', WhoRuns, Accounted, NEW b \in Calls, Begin(b)
  PROVE  Accounted'
<1> SUFFICES ASSUME NEW c \in Calls, Aware(c)'
             PROVE  Account(c)'
  BY DEF Accounted, Account
<1> USE Named
<1>0. /\ UNCHANGED <<gate, answers, hub>>
      /\ \/ answer'.type = "pending"
         \/ UNCHANGED <<holder, answer>>
  BY DEF Begin, CancelMonitor, MonitorGone, netVars, Pending
<1>1. CASE c # b
  <2>1. Aware(c)
    BY <1>1 DEF Begin, CancelMonitor, MonitorGone, Aware, Active, Types, ClientTypes
  <2>2. moved'[c] = moved[c] /\ start'[c] = start[c]
    BY <1>1 DEF Begin, Types, ClientTypes, GateTypes
  <2>3. Account(c)
    BY <2>1 DEF Accounted, Account
  <2>4. Began(c)' /\ Travelled(c)'
    BY <1>0, <2>2, <2>3 DEF Account, Began, Travelled, Explained
  <2>5. UnderWay(c)'
    BY <1>0, <2>2, <2>3 DEF Account, UnderWay, InOrder, Honest, Explained
  <2>6. Arrived(c)'
    BY <1>0, <2>2, <2>3 DEF Account, Arrived, Honest, Explained
  <2> QED
    BY <2>4, <2>5, <2>6 DEF Account
<1>2. CASE c = b
  <2>1. hub.position \in Track /\ hub.position \in Int /\ gate.position \in Track
        /\ gate.position \in Int /\ gate.motion \in Movements
    BY Positions DEF Types, HubTypes, GateTypes
  <2>2. answers = <<>> /\ hub.position = Normalize(gate.position)
    BY <1>2 DEF Aware, Begin, WhoRuns, InformedBegan
  <2>3. start'[c].position = hub.position /\ moved'[c] = {gate.motion} \ {"none"}
    BY <1>2 DEF Begin, Types, ClientTypes, GateTypes
  <2>4. Normalize(hub.position) = Normalize(gate.position)
    BY <2>1, <2>2, NormalizeReport
  <2>5. Began(c)'
    BY <1>0, <2>1, <2>3 DEF Began, Explained, Normalize
  <2>6. Travelled(c)'
    BY <1>0, <2>1, <2>3, <2>4 DEF Travelled, Explained, Normalize
  <2>7. UnderWay(c)'
    BY <1>0, <2>2 DEF UnderWay
  <2>8. Arrived(c)'
    <3>1. stage[c] = "idle"
      BY <1>2 DEF Begin
    <3> QED
      BY <1>0, <3>1 DEF Arrived, WhoRuns, AnswerTaken
  <2> QED
    BY <2>5, <2>6, <2>7, <2>8 DEF Account
<1> QED
  BY <1>1, <1>2

LEMMA LessUnderWayAccounted ==
  ASSUME Types, Types', Accounted, Lose \/ Disconnect
  PROVE  Accounted'
<1> SUFFICES ASSUME NEW c \in Calls, Aware(c)'
             PROVE  Account(c)'
  BY DEF Accounted, Account
<1>1. /\ UNCHANGED <<stage, informed, start, hub, gate, moved, holder>>
      /\ answers' \in {answers, <<>>} \/ (answers # <<>> /\ answers' = Tail(answers))
      /\ answer' = answer \/ answer'.type # "rs"
  BY DEF Lose, Disconnect, lockVars, callVars, historyVars
<1>2. Account(c)
  BY <1>1 DEF Accounted, Account, Aware, Active
<1>3. UnderWay(c)'
  BY <1>1, <1>2, FewerUnderWay DEF Account
<1> QED
  BY <1>1, <1>2, <1>3 DEF Account, Began, Travelled, Arrived, Explained, Honest

\* A message that arrives is shown; what is shown lies still between where the call
\* began and what follows.
LEMMA DeliverAccounted ==
  ASSUME Types, Types', Accounted, Deliver
  PROVE  Accounted'
<1> SUFFICES ASSUME NEW c \in Calls, Aware(c)'
             PROVE  Account(c)'
  BY DEF Accounted, Account
<1> DEFINE m == answers[1]
<1>1. /\ UNCHANGED <<stage, informed, start, gate, moved, holder>>
      /\ answers # <<>> /\ answers' = Tail(answers)
      /\ hub' = Seen(m)
      /\ answer' = answer \/ (answer' = m /\ Expects(m))
  BY FirstAnswer DEF Deliver, envVars, historyVars
<1>2. Account(c)
  BY <1>1 DEF Accounted, Account, Aware, Active
<1>3. /\ m \in Message /\ 1 \in DOMAIN answers
      /\ m.type = "rs" => m.frame \in Frames
      /\ m.type = "live" => m.position \in Track
  BY <1>1, FirstAnswer
<1>4. /\ Honest(c, m)
      /\ Telling(m) => /\ Explained(c, hub.position, Sight(m))
                       /\ Explained(c, Sight(m), gate.position)
                       /\ \A j \in DOMAIN answers :
                            1 < j /\ Telling(answers[j]) => Explained(c, Sight(m), Sight(answers[j]))
  BY <1>2, <1>3 DEF Account, UnderWay, InOrder
<1>5. /\ hub.position \in Int /\ gate.position \in Int /\ start[c].position \in Int
      /\ hub'.position \in Int
      /\ Telling(m) => Sight(m) \in Reports /\ Sight(m) \in Int
  BY <1>2, <1>3, Positions DEF Account, Began, Types, HubTypes, GateTypes, Telling, Sight, Frames
<1> HIDE DEF m
\* What is shown now is what was shown, or what the message tells.
<1>6. \/ hub'.position = hub.position
      \/ Telling(m) /\ Normalize(hub'.position) = Normalize(Sight(m))
  <2>1. CASE m.type = "rs"
    <3>1. hub' = ApplyStatus(hub, m.frame) /\ Sight(m) = m.frame.position /\ Telling(m)
      BY <1>1, <2>1 DEF Seen, Sight, Telling
    <3>2. hub'.position \in {hub.position, Normalize(m.frame.position)}
      BY <1>3, <2>1, <3>1, StatusSeen DEF Types, HubTypes
    <3>3. Normalize(Normalize(Sight(m))) = Normalize(Sight(m))
      BY <1>5, <3>1, NormalizeReport
    <3> QED
      BY <3>1, <3>2, <3>3
  <2>2. CASE m.type = "live"
    <3>1. hub' = ApplyPosition(hub, m.position, TRUE) /\ Sight(m) = m.position /\ Telling(m)
      BY <1>1, <2>2 DEF Seen, Sight, Telling
    <3> QED
      BY <1>3, <2>2, <3>1, LiveSeen DEF Types, HubTypes
  <2>3. CASE m.type \notin {"rs", "live"}
    BY <1>1, <2>3 DEF Seen
  <2> QED
    BY <2>1, <2>2, <2>3
<1>7. Explained(c, hub.position, hub'.position)
  <2>1. CASE hub'.position = hub.position
    BY <1>5, <2>1, ExplainedSame
  <2>2. CASE Telling(m) /\ Normalize(hub'.position) = Normalize(Sight(m))
    BY <1>4, <2>2 DEF Explained
  <2> QED
    BY <1>6, <2>1, <2>2
<1>8. Began(c)'
  BY <1>1, <1>2, <1>5, <1>7, ExplainedTrans DEF Account, Began, Explained
<1>9. Travelled(c)'
  BY <1>1, <1>2, <1>4, <1>6 DEF Account, Travelled, Explained
<1>10. UnderWay(c)'
  <2>1. /\ DOMAIN answers = 1 .. Len(answers) /\ Len(answers) \in Nat
        /\ DOMAIN answers' = 1 .. Len(answers) - 1
        /\ \A i \in DOMAIN answers' : answers'[i] = answers[i + 1]
    BY <1>1 DEF Types, NetTypes
  <2>2. ASSUME NEW i \in DOMAIN answers', NEW a, a = answers'[i]
        PROVE  /\ Honest(c, a)'
               /\ Telling(a) => Explained(c, hub.position, Sight(a))' /\ Explained(c, Sight(a), gate.position)'
    <3>1. i + 1 \in DOMAIN answers /\ 1 < i + 1 /\ a = answers[i + 1]
      BY <2>1, <2>2
    <3>2. InOrder(c, i + 1)
      BY <1>2, <3>1 DEF Account, UnderWay
    <3>3. /\ Honest(c, a)
          /\ Telling(a) => Explained(c, hub.position, Sight(a)) /\ Explained(c, Sight(a), gate.position)
      BY <3>1, <3>2 DEF InOrder
    <3>4. Telling(a) /\ Telling(m) => Explained(c, Sight(m), Sight(a))
      BY <1>4, <3>1
    <3>5. Telling(a) => Explained(c, hub'.position, Sight(a))
      <4>1. CASE hub'.position = hub.position
        BY <3>3, <4>1
      <4>2. CASE Telling(m) /\ Normalize(hub'.position) = Normalize(Sight(m))
        BY <3>4, <4>2 DEF Explained
      <4> QED
        BY <1>6, <4>1, <4>2
    <3> QED
      BY <1>1, <3>3, <3>5 DEF Honest, Explained, Sight
  <2>3. ASSUME NEW i \in DOMAIN answers', NEW j \in DOMAIN answers', i < j,
               NEW a, NEW b, a = answers'[i], b = answers'[j], Telling(a), Telling(b)
        PROVE  Explained(c, Sight(a), Sight(b))'
    <3>1. /\ i + 1 \in DOMAIN answers /\ a = answers[i + 1]
          /\ j + 1 \in DOMAIN answers /\ b = answers[j + 1] /\ i + 1 < j + 1
      BY <2>1, <2>3
    <3>2. InOrder(c, i + 1)
      BY <1>2, <3>1 DEF Account, UnderWay
    <3>3. Explained(c, Sight(a), Sight(b))
      BY <2>3, <3>1, <3>2 DEF InOrder
    <3> QED
      BY <1>1, <3>3 DEF Explained, Sight
  <2> SUFFICES ASSUME NEW i \in DOMAIN answers' PROVE InOrder(c, i)'
    BY DEF UnderWay
  <2> HIDE DEF Account
  <2> QED
    BY <2>2, <2>3 DEF InOrder
\* While the caller holds an RS, the motion that is shown comes from the gate.
<1>11. hub.movement \in moved[c] \cup {"none"} \/ m.type = "rs"
         => hub'.movement \in moved[c] \cup {"none"}
  <2>1. CASE m.type = "rs"
    <3>1. hub' = ApplyStatus(hub, m.frame)
      BY <1>1, <2>1 DEF Seen
    <3>2. hub'.movement \in {"none"} \cup (IF m.frame.operating = "yes" THEN {m.frame.direction} ELSE {})
      BY <1>3, <2>1, <3>1, StatusSeen DEF Types, HubTypes
    <3> QED
      BY <1>4, <2>1, <3>2 DEF Honest
  <2>2. CASE m.type = "live"
    <3>1. hub' = ApplyPosition(hub, m.position, TRUE)
      BY <1>1, <2>2 DEF Seen
    <3>2. hub'.movement \in {"none", hub.movement, Toward(hub.position, m.position)}
      BY <1>3, <2>2, <3>1, LiveSeen DEF Types, HubTypes
    <3>3. Toward(hub.position, m.position) \in moved[c] \cup {"none"}
      <4>1. Explained(c, hub.position, m.position)
        BY <1>4, <2>2 DEF Telling, Sight
      <4>2. Normalize(hub.position) = hub.position /\ Normalize(m.position) = m.position
        BY <1>3, <2>2, NormalizeReport DEF Types, HubTypes
      <4> QED
        BY <4>1, <4>2 DEF Explained, Toward
    <3> QED
      BY <2>2, <3>2, <3>3
  <2>3. CASE m.type \notin {"rs", "live"}
    BY <1>1, <2>3 DEF Seen
  <2> QED
    BY <2>1, <2>2, <2>3
<1>12. Arrived(c)'
  <2>1. CASE answer' = answer
    BY <1>1, <1>2, <1>11, <2>1 DEF Account, Arrived, Honest, Explained
  <2>2. CASE answer' = m
    <3>1. m.type = "rs" => Explained(c, start[c].position, Sight(m))
      BY <1>2, <1>4, <1>5, ExplainedTrans DEF Account, Began, Telling
    <3> QED
      BY <1>1, <1>4, <1>11, <2>2, <3>1 DEF Arrived, Honest, Explained, Sight
  <2> QED
    BY <1>1, <2>1, <2>2
<1> QED
  BY <1>8, <1>9, <1>10, <1>12 DEF Account

\* The gate moves on, or tells where it stands, behind all that is under way.
LEMMA GateActs ==
  ASSUME Types, Types', NEW c \in Calls, Account(c), NEW m \in Message,
         UNCHANGED <<start, hub, holder, answer>>,
         answers' = answers \/ answers' = Append(answers, m),
         moved[c] \subseteq moved'[c],
         gate'.motion \in moved'[c] \cup {"none"},
         gate'.position > gate.position => "opening" \in moved[c],
         gate'.position < gate.position => "closing" \in moved[c],
         Telling(m) => Normalize(Sight(m)) = gate'.position,
         Honest(c, m)
  PROVE  Account(c)'
<1>1. /\ gate.position \in Track /\ gate'.position \in Track
      /\ Normalize(gate.position) = gate.position /\ Normalize(gate'.position) = gate'.position
      /\ gate.position \in Int /\ gate'.position \in Int
      /\ hub.position \in Int /\ hub'.position = hub.position
  BY NormalizeReport, Positions DEF Types, GateTypes, HubTypes
<1>2. \A x \in Message : Telling(x) => Sight(x) \in Int
  BY Positions DEF Message, Telling, Sight, Frames
<1>3. Explained(c, gate.position, gate'.position)
  BY <1>1 DEF Explained
<1>4. \A p, q : Explained(c, p, q) => Explained(c, p, q)'
  BY DEF Explained
<1>5. \A x : Honest(c, x) => Honest(c, x)'
  BY DEF Honest
<1>6. Began(c)' /\ Arrived(c)'
  BY DEF Account, Began, Arrived, Honest, Explained
<1>7. Travelled(c)'
  <2>1. Explained(c, hub.position, gate'.position)
    BY <1>1, <1>3, ExplainedTrans DEF Account, Travelled
  <2> QED
    BY <1>1, <2>1 DEF Travelled, Explained
\* Each of the messages, seen from what is shown and from the gate.
<1>8. ASSUME NEW i \in DOMAIN answers', NEW a, a = answers'[i]
      PROVE  /\ Honest(c, a)'
             /\ Telling(a) => Explained(c, hub.position, Sight(a)) /\ Explained(c, Sight(a), gate'.position)
  <2>1. CASE i \in DOMAIN answers /\ a = answers[i]
    <3>1. InOrder(c, i) /\ a \in Message
      BY <2>1 DEF Account, UnderWay, Types, NetTypes
    <3>2. Telling(a) => Explained(c, hub.position, Sight(a)) /\ Explained(c, Sight(a), gate.position)
      BY <2>1, <3>1 DEF InOrder
    <3>3. Honest(c, a)
      BY <2>1, <3>1 DEF InOrder
    <3> QED
      BY <1>1, <1>2, <1>3, <1>5, <3>1, <3>2, <3>3, ExplainedTrans
  <2>2. CASE a = m
    <3>1. Telling(m) => Explained(c, Sight(m), gate'.position)
      BY <1>1, <1>2, ExplainedSame
    <3>2. Telling(m) => Explained(c, gate.position, Sight(m))
      BY <1>1, <1>3 DEF Explained
    <3>3. Telling(m) => Explained(c, hub.position, Sight(m))
      BY <1>1, <1>2, <3>2, ExplainedTrans DEF Account, Travelled
    <3> QED
      BY <1>5, <2>2, <3>1, <3>3
  <2> QED
    BY <1>8, <2>1, <2>2 DEF Types, NetTypes
\* And each of a later one.
<1>9. ASSUME NEW i \in DOMAIN answers', NEW j \in DOMAIN answers', i < j,
             NEW a, NEW b, a = answers'[i], b = answers'[j], Telling(a), Telling(b)
      PROVE  Explained(c, Sight(a), Sight(b))
  <2>1. /\ i \in DOMAIN answers /\ a = answers[i]
        /\ (j \in DOMAIN answers /\ b = answers[j]) \/ b = m
    BY <1>9 DEF Types, NetTypes
  <2>2. InOrder(c, i) /\ a \in Message
    BY <2>1 DEF Account, UnderWay, Types, NetTypes
  <2>3. CASE j \in DOMAIN answers /\ b = answers[j]
    BY <1>9, <2>1, <2>2, <2>3 DEF InOrder
  <2>4. CASE b = m
    <3>1. Explained(c, Sight(a), gate.position)
      BY <1>9, <2>1, <2>2 DEF InOrder
    <3>2. Explained(c, gate.position, Sight(m))
      BY <1>1, <1>3, <1>9, <2>4 DEF Explained
    <3> QED
      BY <1>1, <1>2, <1>9, <2>2, <2>4, <3>1, <3>2, ExplainedTrans
  <2> QED
    BY <2>1, <2>3, <2>4
<1>10. UnderWay(c)'
  <2> SUFFICES ASSUME NEW i \in DOMAIN answers' PROVE InOrder(c, i)'
    BY DEF UnderWay
  <2>1. ASSUME NEW a, a = answers'[i]
        PROVE  Telling(a) => Explained(c, hub.position, Sight(a))' /\ Explained(c, Sight(a), gate.position)'
    BY <1>1, <1>8, <2>1 DEF Explained, Sight
  <2>2. ASSUME NEW j \in DOMAIN answers', i < j,
               NEW a, NEW b, a = answers'[i], b = answers'[j], Telling(a), Telling(b)
        PROVE  Explained(c, Sight(a), Sight(b))'
    <3>1. Explained(c, Sight(a), Sight(b))
      BY <1>9, <2>2
    <3> QED
      BY <3>1 DEF Explained, Sight
  <2> HIDE DEF Account
  <2> QED
    BY <1>8, <2>1, <2>2 DEF InOrder
<1> QED
  BY <1>6, <1>7, <1>10 DEF Account

LEMMA MovingAccounts ==
  ASSUME Types, NEW d \in Directions, moved' = Moving(d), NEW c \in Calls, Active(c)
  PROVE  moved'[c] = moved[c] \cup {d}
BY DEF Moving

LEMMA GateAccounted ==
  ASSUME Types, Types', Accounted, GateServes \/ GateRuns \/ RemoteControl
  PROVE  Accounted'
<1> SUFFICES ASSUME NEW c \in Calls, Aware(c)'
             PROVE  Account(c)'
  BY DEF Accounted, Account
<1>1. /\ UNCHANGED <<stage, informed, start, hub, holder, answer>>
      /\ gate.position \in Track /\ gate.motion \in Movements /\ gate.position \in Int
  BY Positions DEF GateServes, GateRuns, RemoteControl, lockVars, callVars, historyVars, Types, GateTypes
<1>2. Active(c) /\ Account(c)
  BY <1>1 DEF Accounted, Account, Aware, Active
<1>3. gate.motion \in moved[c] \cup {"none"}
  BY <1>2 DEF Account, Travelled
<1> DEFINE ack == [type |-> "ack", command |-> Head(requests)]  nak == [type |-> "nak"]
<1>4. /\ Honest(c, ack) /\ ~Telling(ack)
      /\ Head(requests) \in Motions => ack \in Message
      /\ nak \in Message /\ Honest(c, nak) /\ ~Telling(nak)
  BY DEF Message, Honest, Telling
<1> HIDE DEF ack, nak
<1>5. ASSUME UNCHANGED <<gate, moved>>, NEW m \in Message, Honest(c, m),
             answers' = Append(answers, m), Telling(m) => Normalize(Sight(m)) = gate.position
      PROVE  Account(c)'
  <2>1. gate'.position = gate.position /\ ~(gate'.position > gate.position) /\ ~(gate'.position < gate.position)
    BY <1>1, <1>5
  <2> QED
    BY <1>1, <1>2, <1>3, <1>5, <2>1, GateActs
<1>6. ASSUME NEW d \in Directions, gate' = [gate EXCEPT !.motion = d], moved' = Moving(d),
             answers' = answers \/ (ack \in Message /\ answers' = Append(answers, ack))
      PROVE  Account(c)'
  <2>1. moved'[c] = moved[c] \cup {d} /\ gate'.motion = d /\ gate'.position = gate.position
    BY <1>2, <1>6, MovingAccounts DEF Types, GateTypes
  <2>2. gate'.position = gate.position /\ ~(gate'.position > gate.position) /\ ~(gate'.position < gate.position)
    BY <1>1, <2>1
  <2> QED
    BY <1>1, <1>2, <1>4, <1>6, <2>1, <2>2, GateActs
<1>7. CASE GateServes
  <2>1. CASE \E f \in Status : /\ answers' = Append(answers, [type |-> "rs", frame |-> f])
                               /\ UNCHANGED <<gate, moved>>
    <3>1. PICK f \in Status : answers' = Append(answers, [type |-> "rs", frame |-> f])
      BY <2>1
    <3> DEFINE m == [type |-> "rs", frame |-> f]
    <3>2. /\ f \in Frames
          /\ Normalize(f.position) = gate.position
          /\ f.operating = "yes" => f.direction \in moved[c]
      BY <1>1, <1>3, StatusTrue, NormalizeReport DEF Types
    <3>3. m \in Message /\ Honest(c, m) /\ Normalize(Sight(m)) = gate.position
      BY <3>2 DEF Message, Honest, Sight
    <3> QED
      BY <1>5, <2>1, <3>1, <3>3
  <2>2. CASE \E t \in Texts : /\ answers' = Append(answers, [type |-> "text", text |-> t])
                              /\ UNCHANGED <<gate, moved>>
    <3>1. PICK t \in Texts : answers' = Append(answers, [type |-> "text", text |-> t])
      BY <2>2
    <3>2. LET m == [type |-> "text", text |-> t]
          IN  m \in Message /\ Honest(c, m) /\ ~Telling(m)
      BY DEF Message, Honest, Telling
    <3> QED
      BY <1>5, <2>2, <3>1, <3>2
  <2>3. CASE \E d \in Directions : /\ gate' = [gate EXCEPT !.motion = d] /\ moved' = Moving(d)
                                   /\ Head(requests) \in Motions /\ answers' = Append(answers, ack)
    BY <1>4, <1>6, <2>3
  <2>4. CASE /\ \/ Head(requests) \in Motions /\ answers' = Append(answers, ack)
                \/ answers' = Append(answers, nak)
             /\ UNCHANGED <<gate, moved>>
    BY <1>4, <1>5, <2>4
  <2> QED
    BY <1>7, <2>1, <2>2, <2>3, <2>4, MotionsMove DEF GateServes, ack, nak
<1>8. CASE GateRuns
  <2>1. /\ gate.motion \in moved[c]
        /\ gate'.position \in Track /\ gate'.motion \in {gate.motion, "none"}
        /\ gate'.position > gate.position => gate.motion = "opening"
        /\ gate'.position < gate.position => gate.motion = "closing"
        /\ \/ answers' = answers
           \/ answers' = Append(answers, [type |-> "live", position |-> gate'.position])
        /\ UNCHANGED moved
    BY <1>3, <1>8, GateRunsOn DEF GateRuns, Directions
  <2>2. PICK p \in Track : p = gate'.position
    BY <2>1
  <2> DEFINE m == [type |-> "live", position |-> p]
  <2>3. m \in Message /\ Honest(c, m) /\ Normalize(Sight(m)) = p
    BY NormalizeReport DEF Message, Honest, Sight
  <2> HIDE DEF m
  <2>4. answers' = answers \/ answers' = Append(answers, m)
    BY <2>1, <2>2 DEF m
  <2> QED
    BY <1>1, <1>2, <2>1, <2>2, <2>3, <2>4, GateActs
<1>9. CASE RemoteControl
  BY <1>6, <1>9 DEF RemoteControl, netVars
<1> QED
  BY <1>7, <1>8, <1>9

(***************************************************************************)
(* The invariant                                                           *)
(***************************************************************************)

LEMMA InitInv == Init => IInv
<1> SUFFICES ASSUME Init PROVE IInv
  OBVIOUS
<1> USE Named DEF Init
<1>1. gate.position \in {0, 100} /\ gate.motion = "none" /\ gate.position \in Reports
  BY BoundsAssumption DEF Reports
<1>2. HubTypes
  <2>1. gate.position \in ShownPositions
    BY <1>1, Positions DEF ShownPositions, Normalize
  <2> QED
    BY <1>1, <2>1 DEF HubTypes, State, Unknown, Track, Movements, Operating
<1>3. ClientTypes
  BY NoStartType DEF ClientTypes, Stages, Movements, Outcomes
<1>4. GateTypes /\ NetTypes
  BY <1>1, PendingTyped DEF GateTypes, NetTypes, Track, Movements
<1>5. \A c \in Calls : ~Active(c)
  BY DEF Active
<1>6. WhoRuns
  BY <1>5 DEF WhoRuns, Beside, AnswerTaken, InformedBegan, MonitorYields
<1>7. Accounted
  BY <1>5 DEF Accounted, Aware
<1> QED
  BY <1>2, <1>3, <1>4, <1>6, <1>7 DEF IInv, Types

LEMMA Steps == Next => ClientStep \/ World \/ \E c \in Calls : Begin(c)
BY DEF Next, ClientStep, World

LEMMA NextInv == IInv /\ [Next]_vars => IInv'
<1> SUFFICES ASSUME IInv, [Next]_vars PROVE IInv'
  OBVIOUS
<1>1. Types /\ WhoRuns /\ Accounted
  BY DEF IInv
<1>2. CASE UNCHANGED vars
  <2> USE <1>2 DEF vars, lockVars, callVars, netVars, envVars, historyVars
  <2>1. Types'
    BY <1>1 DEF Types, ClientTypes, GateTypes, NetTypes, HubTypes
  <2>2. WhoRuns'
    BY <1>1 DEF WhoRuns, Beside, AnswerTaken, InformedBegan, MonitorYields, Active
  <2>3. Accounted'
    BY <1>1 DEF Accounted, Aware, Active, Began, Travelled, UnderWay, InOrder, Arrived, Honest, Explained
  <2> QED
    BY <2>1, <2>2, <2>3 DEF IInv
<1>3. CASE Next
  <2>1. Types'
    BY <1>1, <1>3, Steps, ClientStepTypes, BeginTypes, DeliverTypes, GateServesTypes, WorldTypes DEF World
  <2>2. WhoRuns'
    BY <1>1, <1>3, <2>1, Steps, WhoRunsStep
  <2>3. Accounted'
    BY <1>1, <1>3, <2>1, Steps, ClientStepAccounted, BeginAccounted, LessUnderWayAccounted,
       DeliverAccounted, GateAccounted DEF World
  <2> QED
    BY <2>1, <2>2, <2>3 DEF IInv
<1> QED
  BY <1>2, <1>3

LEMMA Invariance == SafetySpec => []IInv
BY InitInv, NextInv, PTL DEF SafetySpec

(***************************************************************************)
(* The properties                                                          *)
(***************************************************************************)

\* "A prior post-motion monitor must never delay or interleave the next intentional
\* movement transaction", whatever is lost, late or refused meanwhile.
THEOREM MonitorYieldsAlways == SafetySpec => []MonitorYields
<1>1. IInv => MonitorYields
  BY DEF IInv, WhoRuns
<1> QED
  BY <1>1, Invariance, PTL

\* What counts as a proof of the motion shows that the gate took the direction since.
LEMMA ShownIsMotion ==
  ASSUME IInv, NEW c \in Calls, Aware(c), holder = c,
         answer.type = "rs", ShowsMotion(c, answer.frame)
  PROVE  MotionOf(AskedFor[c]) \in moved[c]
<1> DEFINE goal == MotionOf(AskedFor[c])
           from == start[c].position
           f == answer.frame
<1> SUFFICES goal \in moved[c]
  OBVIOUS
<1>1. goal \in {"opening", "closing"}
  BY AskedMotion DEF Directions
<1>2. Types /\ Account(c)
  BY DEF IInv, Accounted, Account
<1>3. /\ f \in Frames /\ f.position \in Reports /\ f.position \in Int
      /\ from \in Track /\ from \in Int /\ hub.position \in Track
  <2>1. f \in Frames
    BY <1>2 DEF Types, NetTypes, Message
  <2> QED
    BY <1>2, <2>1, Positions DEF Account, Began, Types, HubTypes, Frames
<1>4. /\ f.operating = "yes" => f.direction \in moved[c]
      /\ Explained(c, from, f.position)
      /\ hub.movement \in moved[c] \cup {"none"}
      /\ Explained(c, from, hub.position)
  BY <1>2 DEF Account, Began, Arrived, Honest, Sight
<1>5. \/ f.operating = "yes" /\ f.direction = goal
      \/ IF goal = "opening" THEN Normalize(f.position) - Normalize(from) >= 5
                             ELSE Normalize(f.position) - Normalize(from) <= -5
      \/ hub.movement = goal
      \/ Toward(from, hub.position) = goal
  BY DEF ShowsMotion
<1> HIDE DEF goal, from, f
<1>6. CASE IF goal = "opening" THEN Normalize(f.position) - Normalize(from) >= 5
                               ELSE Normalize(f.position) - Normalize(from) <= -5
  <2>1. Normalize(f.position) \in Int /\ Normalize(from) \in Int
    BY <1>3 DEF Normalize
  <2>2. /\ goal = "opening" => Normalize(f.position) > Normalize(from)
        /\ goal = "closing" => Normalize(f.position) < Normalize(from)
    BY <1>1, <1>6, <2>1
  <2> QED
    BY <1>1, <1>4, <2>2 DEF Explained
<1>7. CASE Toward(from, hub.position) = goal
  <2>1. Normalize(from) = from /\ Normalize(hub.position) = hub.position
    BY <1>3, NormalizeReport
  <2> QED
    BY <1>1, <1>4, <1>7, <2>1 DEF Explained, Toward
<1> QED
  BY <1>1, <1>4, <1>5, <1>6, <1>7

\* Only a fallback round that shows motion makes a call succeed without acknowledgement.
LEMMA ProvedByFallback ==
  ASSUME Types, Next, NEW c \in Calls, result[c] = "none", result'[c] = "proved"
  PROVE  Fallback(c) /\ answer.type = "rs" /\ ShowsMotion(c, answer.frame)
<1>1. ASSUME NEW d \in Calls, NEW outcome, result' = [result EXCEPT ![d] = outcome]
      PROVE  d = c /\ outcome = "proved"
  BY <1>1 DEF Types, ClientTypes
<1>2. UNCHANGED result => FALSE
  OBVIOUS
<1>3. PICK d \in Calls : CommandAnswered(d) \/ Fallback(d) \/ EndProven(d) \/ Rearmed(d)
  <2>1. CASE \E d \in Calls : Begin(d) \/ Decide(d) \/ Settled(d)
    BY <1>2, <2>1 DEF Begin, Decide, Settled
  <2>2. CASE \E d \in Clients : Acquire(d)
    BY <1>2, <2>2 DEF Acquire, callVars
  <2>3. CASE Polled(Poller) \/ Polled(Hello) \/ Timeout \/ MonitorRound \/ Poll \/ Reconnect
    BY <1>2, <2>3 DEF Polled, Timeout, MonitorRound, Poll, Reconnect, callVars
  <2>4. CASE World
    BY <1>2, <2>4 DEF World, Deliver, GateServes, GateRuns, RemoteControl, Lose, Disconnect, callVars
  <2> QED
    BY <2>1, <2>2, <2>3, <2>4 DEF Next, Resume, World
<1>4. CASE EndProven(d) \/ Rearmed(d)
  BY <1>1, <1>2, <1>4 DEF EndProven, Rearmed, Ends
<1>5. CASE CommandAnswered(d)
  BY <1>1, <1>2, <1>5 DEF CommandAnswered, Ends, Succeeds
<1>6. CASE Fallback(d)
  <2>1. CASE answer.type = "rs" /\ ShowsMotion(d, answer.frame)
    <3>1. d = c
      BY <1>1, <1>6, <2>1 DEF Fallback, Succeeds
    <3> QED
      BY <1>6, <2>1, <3>1
  <2>2. CASE ~(answer.type = "rs" /\ ShowsMotion(d, answer.frame))
    <3>1. UNCHANGED result \/ result' = [result EXCEPT ![d] = "failed"]
      BY <1>6, <2>2 DEF Fallback, Ends
    <3> QED
      BY <1>1, <1>2, <3>1
  <2> QED
    BY <2>1, <2>2
<1> QED
  BY <1>3, <1>4, <1>5, <1>6

\* "Endpoint jitter such as 98/100 or 0/2 is never accepted as proof": a movement that
\* succeeds on RS alone has seen the gate set in motion that way since it began,
\* provided the hub knew where the gate stood then; whatever runs beside it.
THEOREM ProofShowsMotion == SafetySpec => ProofIsMotion
<1>1. ASSUME IInv, [Next]_vars, NEW c \in informed, result[c] = "none", result'[c] = "proved"
      PROVE  MotionOf(AskedFor[c]) \in moved[c]
  <2>1. c \in Calls /\ Types
    BY <1>1 DEF IInv, Types, ClientTypes
  <2>2. Next
    BY <1>1 DEF vars, callVars
  <2>3. Fallback(c) /\ answer.type = "rs" /\ ShowsMotion(c, answer.frame)
    BY <1>1, <2>1, <2>2, ProvedByFallback
  <2>4. Aware(c) /\ holder = c
    BY <2>3 DEF Fallback, Aware, Active
  <2> QED
    BY <1>1, <2>1, <2>3, <2>4, ShownIsMotion
<1>2. IInv /\ [Next]_vars =>
        [ \A c \in informed :
            result[c] = "none" /\ result'[c] = "proved" => MotionOf(AskedFor[c]) \in moved[c] ]_vars
  BY <1>1
<1> QED
  BY <1>2, Invariance, PTL DEF SafetySpec, ProofIsMotion

\* Both hold under the fairness of the whole specification as well.
COROLLARY FairRuns == Spec => []MonitorYields /\ ProofIsMotion
BY MonitorYieldsAlways, ProofShowsMotion DEF Spec
=============================================================================
