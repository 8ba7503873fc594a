--------------------------- MODULE Ps24118Command ---------------------------
(***************************************************************************)
(* Movements of the PS24118 / PS24118C, whose Shadow and logical state go  *)
(* stale in standby.  A full movement first asks READ STATUS; where the    *)
(* logical state contradicts the end the gate stands at, or the last       *)
(* movement after standby left a re-arm pending, an RS must prove the end  *)
(* and the command of that same end is sent once to re-arm the gate.  The  *)
(* movement itself is sent once; where its acknowledgement is lost, RS     *)
(* answers must prove the motion.  A monitor polls RS after a movement.    *)
(*                                                                         *)
(* All take the transaction lock for one exchange at a time.  A client is  *)
(* in an exchange when it holds the lock, waiting for it when it is in the *)
(* queue, and between two awaits otherwise.  The gate answers in order.    *)
(***************************************************************************)
EXTENDS GateState, Sequences

CONSTANTS
  Calls,       \* the movements asked for
  AskedFor,    \* the command of each
  Monitor,     \* the RS monitor of the last movement
  Poller,      \* the refresh loop, which polls RS
  Hello,       \* the RS of a new connection
  Nobody,      \* the holder of a free lock
  StartAt,     \* the ends the gate may stand at in the beginning
  Rounds,      \* bound: RS rounds of a fallback and of the monitor
  Budgets      \* bound: how many calls, faults (lost and late messages, refusals, broken
               \* connections), movements by remote control and polls there may be

Clients == Calls \cup {Monitor, Poller, Hello}

ASSUME CallsAssumption == /\ AskedFor \in [Calls -> Motions]
                          /\ {Monitor, Poller, Hello} \cap Calls = {}
                          /\ Monitor # Poller /\ Monitor # Hello /\ Poller # Hello
                          /\ Nobody \notin Clients
Budget == [calls : Nat, faults : Nat, remote : Nat, polls : Nat]

\* The gate's positions in the model: its two ends, which it reports with a jitter of
\* two percent, and one place between them.
Reports == {0, 2, 50, 98, 100}
ASSUME ReportsAssumption == Reports \subseteq Percent
ASSUME BoundsAssumption == Rounds \in Nat \ {0} /\ StartAt \subseteq {0, 100} /\ Budgets \subseteq Budget

VARIABLES
  stage,       \* what each client does
  queue, holder, answer,  \* the transaction lock and the holder's future
  round,       \* RS rounds done in a fallback or by the monitor
  start,       \* what each call saw when it began
  fresh,       \* telemetry kinds that arrived since
  pending,     \* _ps24118_rearm_pending_direction
  result,      \* how each call ended
  hub,         \* the shown State
  connected,   \* the MQTT connection
  requests, answers,      \* on their way to the gate and to the hub
  gate,        \* its position and motion
  budget,      \* what is left of the budget
  moved,       \* history: the motions of the gate since each call began
  overlapped,  \* history: the calls that ran beside another
  informed     \* history: the calls that began with the gate shown where it stood and
               \* nothing older on its way to the hub

lockVars == <<queue, holder, answer>>
callVars == <<round, start, fresh, pending, result>>
netVars  == <<connected, requests, answers>>
envVars  == <<gate, budget>>
historyVars == <<overlapped, informed>>
vars == <<stage, lockVars, callVars, hub, netVars, envVars, moved, historyVars>>

Texts == {"OPEN", "CLOSED"}

Pending == [type |-> "pending"]
NoStart == [position |-> NoPosition, operating |-> "unknown", standby |-> FALSE, pending |-> "none"]

Init ==
  /\ stage = [c \in Clients |-> "idle"]
  /\ queue = <<>> /\ holder = Nobody /\ answer = Pending
  /\ round = [c \in Clients |-> 0]
  /\ start = [c \in Calls |-> NoStart]
  /\ fresh = [c \in Calls |-> {}]
  /\ pending = "none"
  /\ result = [c \in Calls |-> "none"]
  /\ gate \in [position : StartAt, motion : {"none"}]
  /\ hub = [Unknown EXCEPT !.position = gate.position, !.operating = "no"]
  /\ connected = TRUE /\ requests = <<>> /\ answers = <<>>
  /\ budget \in Budgets
  /\ moved = [c \in Calls |-> {}]
  /\ overlapped = {} /\ informed = {}

Full(c)   == AskedFor[c] \in {"FULL OPEN", "FULL CLOSE"}
Active(c) == stage[c] \notin {"idle", "done"}
Spend(kind) == budget[kind] > 0 /\ budget' = [budget EXCEPT ![kind] = @ - 1]
Fault     == Spend("faults")

----------------------------------------------------------------------------
(***************************************************************************)
(* One exchange                                                            *)
(***************************************************************************)

\* _ps24118_endpoint_direction, and the command of that end.
EndOf(position) == CASE position = 100 -> "opening" [] position = 0 -> "closing" [] OTHER -> "none"
CommandOf(direction) == IF direction = "opening" THEN "FULL OPEN" ELSE "FULL CLOSE"

RequestOf(c) == CASE stage[c] = "preflight" -> "READ STATUS"
                  [] stage[c] = "rearm"     -> CommandOf(EndOf(start[c].position))
                  [] stage[c] = "command"   -> AskedFor[c]
                  [] OTHER                  -> "RS"

\* The head of the queue takes the lock and publishes, or finds the connection down.
Acquire(c) ==
  /\ holder = Nobody
  /\ queue # <<>> /\ c = Head(queue)
  /\ queue' = Tail(queue)
  /\ holder' = c
  /\ IF connected
     THEN answer' = Pending /\ requests' = Append(requests, RequestOf(c))
     ELSE answer' = [type |-> "unsent"] /\ UNCHANGED requests
  /\ UNCHANGED <<stage, callVars, hub, connected, answers, envVars, moved, historyVars>>

\* An acknowledgement names its command.
Expects(m) == /\ holder # Nobody /\ answer = Pending
              /\ \/ m.type = "nak"
                 \/ /\ m.type = "ack" /\ stage[holder] \in {"rearm", "command"}
                    /\ m.command = RequestOf(holder)
                 \/ m.type = "text" /\ stage[holder] = "preflight"
                 \/ m.type = "rs"   /\ stage[holder] \in {"proof", "fallback", "monitor", "poll"}

Seen(m) == CASE m.type = "rs"   -> ApplyStatus(hub, m.frame)
             [] m.type = "live" -> ApplyPosition(hub, m.position, TRUE)
             [] OTHER           -> hub

FreshKind(m) == CASE m.type = "rs" /\ m.frame.operating = "yes" -> {"operating"}
                  [] m.type = "live"                            -> {"position"}
                  [] OTHER                                      -> {}

\* Whatever arrives is shown, and resolves the future if it is expected.
Deliver ==
  /\ answers # <<>>
  /\ answers' = Tail(answers)
  /\ LET m == Head(answers)
     IN  /\ hub' = Seen(m)
         /\ fresh' = [c \in Calls |-> IF Active(c) THEN fresh[c] \cup FreshKind(m) ELSE {}]
         /\ answer' = IF Expects(m) THEN m ELSE answer
  /\ UNCHANGED <<stage, queue, holder, round, start, pending, result, connected, requests,
                 envVars, moved, historyVars>>

\* Nothing comes any more, or too late.
Timeout ==
  /\ holder # Nobody /\ answer.type \notin {"timeout", "down", "unsent"}
  /\ IF answer = Pending /\ requests = <<>> /\ answers = <<>> THEN UNCHANGED budget ELSE Fault
  /\ answer' = [type |-> "timeout"]
  /\ UNCHANGED <<stage, queue, holder, callVars, hub, netVars, gate, moved,
                 historyVars>>

\* A faulty end of an exchange, which keeps the lock where nothing follows.
GoesLocked(c, next, waits) ==
  /\ holder = c /\ answer # Pending
  /\ holder' = (IF waits THEN Nobody ELSE c) /\ answer' = Pending
  /\ stage' = [stage EXCEPT ![c] = next]
  /\ queue' = IF waits THEN Append(queue, c) ELSE queue

\* Leave the exchange that just ended, and wait for the next one or run on.
Goes(c, next, waits) ==
  /\ holder = c /\ answer # Pending
  /\ holder' = Nobody /\ answer' = Pending
  /\ stage' = [stage EXCEPT ![c] = next]
  /\ queue' = IF waits THEN Append(queue, c) ELSE queue

Forget(c) ==
  /\ start' = [start EXCEPT ![c] = NoStart]
  /\ fresh' = [fresh EXCEPT ![c] = {}]
  /\ moved' = [moved EXCEPT ![c] = {}]

Remember == UNCHANGED <<start, fresh, moved>>

Ends(c, outcome) ==
  /\ Goes(c, "done", FALSE)
  /\ result' = [result EXCEPT ![c] = outcome]
  /\ Forget(c)

----------------------------------------------------------------------------
(***************************************************************************)
(* A movement                                                              *)
(***************************************************************************)

\* The monitor is cancelled: it leaves the queue or its exchange.
MonitorGone(next) ==
  /\ stage' = [stage EXCEPT ![Monitor] = "idle", ![next.client] = next.stage]
  /\ queue' = SelectSeq(queue, LAMBDA d : d # Monitor) \o next.queued
  /\ IF holder = Monitor THEN holder' = Nobody /\ answer' = Pending ELSE UNCHANGED <<holder, answer>>

\* A faulty start: the monitor of the last movement is left running.
MonitorStays(next) ==
  /\ stage' = [stage EXCEPT ![next.client] = next.stage]
  /\ queue' = queue \o next.queued
  /\ UNCHANGED <<holder, answer>>

CancelMonitor(next) == MonitorGone(next)

\* The call cancels the monitor and notes where the gate is shown.  A movement of
\* the full track asks READ STATUS first; the time since the last one says whether
\* it comes after standby.
Begin(c) ==
  /\ stage[c] = "idle"
  /\ Spend("calls")
  /\ CancelMonitor([client |-> c, stage |-> IF Full(c) THEN "preflight" ELSE "command",
                    queued |-> <<c>>])
  /\ \E standby \in BOOLEAN :
       start' = [start EXCEPT ![c] = [position  |-> hub.position,
                                      operating |-> hub.operating,
                                      standby   |-> /\ standby /\ Full(c)
                                                    /\ hub.operating # "yes"
                                                    /\ EndOf(hub.position) # "none",
                                      pending   |-> pending]]
  /\ fresh' = [fresh EXCEPT ![c] = {}]
  /\ moved' = [moved EXCEPT ![c] = {gate.motion} \ {"none"}]
  /\ overlapped' = IF \E d \in Calls : Active(d)
                   THEN overlapped \cup {c} \cup { d \in Calls : Active(d) } ELSE overlapped
  /\ informed' = IF answers = <<>> /\ hub.position = Normalize(gate.position)
                 THEN informed \cup {c} ELSE informed
  /\ UNCHANGED <<round, pending, result, hub, netVars, gate>>

Opposite(c) == EndOf(start[c].position) \notin {"none", MotionOf(AskedFor[c])}

Contradicts(c) == /\ answer.type = "text"
                  /\ \/ EndOf(start[c].position) = "opening" /\ answer.text = "CLOSED"
                     \/ EndOf(start[c].position) = "closing" /\ answer.text = "OPEN"

\* The logical state decides, or the re-arm that is pending, which is read now.
\* A preflight without an answer counts as no state.
Decide(c) ==
  /\ stage[c] = "preflight"
  /\ LET rearm == Opposite(c) /\ (Contradicts(c) \/ pending = EndOf(start[c].position))
     IN  /\ Goes(c, IF rearm THEN "proof" ELSE "command", TRUE)
         /\ start' = [start EXCEPT ![c].pending = pending]
  /\ UNCHANGED <<round, fresh, pending, result, hub, netVars, envVars, moved, historyVars>>

\* A rejection or a lost connection raises a TmtCommandError out of an RS, which
\* itself handles a timeout and a failed publish only.
Raised == answer.type \in {"nak", "down"}

StandsAtEnd(c) == /\ answer.type = "rs"
                  /\ answer.frame.operating = "no"
                  /\ answer.frame.position # NoPosition
                  /\ Normalize(answer.frame.position) = start[c].position

\* "Never send the extra movement command unless a fresh read-only RS proves ..."
EndProven(c) ==
  /\ stage[c] = "proof"
  /\ \/ StandsAtEnd(c) /\ Goes(c, "rearm", TRUE) /\ Remember /\ UNCHANGED result
     \/ ~StandsAtEnd(c) /\ Ends(c, IF Raised THEN "failed" ELSE "unproven")
  /\ UNCHANGED <<round, pending, hub, netVars, envVars, historyVars>>

Rearmed(c) ==
  /\ stage[c] = "rearm"
  /\ \/ answer.type = "ack" /\ Goes(c, "settle", FALSE) /\ Remember /\ UNCHANGED result
     \/ answer.type # "ack" /\ Ends(c, "failed")
  /\ UNCHANGED <<round, pending, hub, netVars, envVars, historyVars>>

\* The pause after the re-arm; only then is it no longer pending.
Settled(c) ==
  /\ stage[c] = "settle"
  /\ stage' = [stage EXCEPT ![c] = "command"]
  /\ queue' = Append(queue, c)
  /\ pending' = "none"
  /\ UNCHANGED <<holder, answer, round, start, fresh, result, hub, netVars, envVars, moved,
                 historyVars>>

\* The movement succeeded: the re-arm it leaves behind, and the caller's state; the
\* monitor starts anew.
PendingAfter(c) ==
  CASE ~Full(c) -> pending
    [] Full(c) /\ start[c].pending # "none"
       /\ start[c].pending = EndOf(start[c].position)
       /\ start[c].pending = MotionOf(AskedFor[c]) -> "none"
    [] OTHER -> IF start[c].standby THEN MotionOf(AskedFor[c]) ELSE pending

Succeeds(c, outcome) ==
  /\ result' = [result EXCEPT ![c] = outcome]
  /\ pending' = PendingAfter(c)
  /\ hub' = IF outcome = "acked" THEN AfterAck(hub, AskedFor[c]) ELSE AfterMotionProof(hub, AskedFor[c])
  /\ holder' = Nobody /\ answer' = Pending
  /\ stage' = [stage EXCEPT ![c] = "done", ![Monitor] = "monitor"]
  /\ Forget(c)
  /\ queue' = Append(SelectSeq(queue, LAMBDA d : d # Monitor), Monitor)
  /\ round' = [round EXCEPT ![Monitor] = 0]

\* The acknowledgement, a timeout that RS must make up for, or an error.
CommandAnswered(c) ==
  /\ stage[c] = "command"
  /\ holder = c
  /\ \/ answer.type = "ack" /\ Succeeds(c, "acked")
     \/ /\ answer.type = "timeout"
        /\ Goes(c, "fallback", TRUE)
        /\ Remember
        /\ UNCHANGED <<round, pending, result, hub>>
     \/ /\ answer.type \in {"nak", "down", "unsent"}
        /\ Ends(c, "failed")
        /\ UNCHANGED <<round, pending, hub>>
  /\ UNCHANGED <<netVars, envVars, historyVars>>

\* A faulty proof: any change of the raw percentage counts.
ShowsMotionRaw(c, f) ==
  /\ start[c].position # NoPosition /\ f.position # NoPosition
  /\ Toward(start[c].position, f.position) = MotionOf(AskedFor[c])

\* The three proofs: the direction of a running motor, a position five or more away
\* from the start outside the end bands, and _motion_confirms_command.
ShowsMotion(c, f) ==
  LET goal == MotionOf(AskedFor[c])
      from == start[c].position
  IN  \/ /\ start[c].operating # "yes"
         /\ f.operating = "yes" /\ f.direction = goal
      \/ /\ from # NoPosition /\ f.position # NoPosition
         /\ LET delta == Normalize(f.position) - Normalize(from)
            IN  IF goal = "opening" THEN delta >= 5 ELSE delta <= -5
      \/ /\ start[c].operating # "yes"
         /\ \/ "operating" \in fresh[c] /\ hub.operating = "yes" /\ hub.movement = goal
            \/ /\ "position" \in fresh[c]
               /\ from # NoPosition /\ hub.position # NoPosition
               /\ Toward(from, hub.position) = goal

\* A fallback round: only RS may follow the movement.
Fallback(c) ==
  /\ stage[c] = "fallback"
  /\ holder = c /\ answer # Pending
  /\ IF answer.type = "rs" /\ ShowsMotion(c, answer.frame)
     THEN Succeeds(c, "proved")
     ELSE /\ UNCHANGED <<pending, hub>>
          /\ IF ~Raised /\ round[c] + 1 < Rounds
             THEN /\ Goes(c, "fallback", TRUE)
                  /\ round' = [round EXCEPT ![c] = @ + 1]
                  /\ Remember
                  /\ UNCHANGED result
             ELSE Ends(c, "failed") /\ UNCHANGED round
  /\ UNCHANGED <<netVars, envVars, historyVars>>

----------------------------------------------------------------------------
(***************************************************************************)
(* The monitor and the polls                                               *)
(***************************************************************************)

\* A round of the monitor has ended: the next one, or none; an error ends it.
MonitorRound ==
  /\ stage[Monitor] = "monitor"
  /\ IF ~Raised /\ round[Monitor] + 1 < Rounds
     THEN Goes(Monitor, "monitor", TRUE) /\ round' = [round EXCEPT ![Monitor] = @ + 1]
     ELSE Goes(Monitor, "idle", FALSE) /\ UNCHANGED round
  /\ UNCHANGED <<start, fresh, pending, result, hub, netVars, envVars, moved, historyVars>>

Poll ==
  /\ stage[Poller] = "idle" /\ connected
  /\ Spend("polls")
  /\ stage' = [stage EXCEPT ![Poller] = "poll"]
  /\ queue' = Append(queue, Poller)
  /\ UNCHANGED <<holder, answer, callVars, hub, netVars, gate, moved, historyVars>>

\* The error ends the refresh loop for good.
Polled(p) ==
  /\ p \in {Poller, Hello}
  /\ stage[p] = "poll"
  /\ Goes(p, IF Raised THEN "dead" ELSE "idle", FALSE)
  /\ UNCHANGED <<callVars, hub, netVars, envVars, moved, historyVars>>

----------------------------------------------------------------------------
(***************************************************************************)
(* The gate and the network                                                *)
(***************************************************************************)

\* Near an end the percentage jitters.
Reported(position) == CASE position = 0 -> {0, 2} [] position = 100 -> {98, 100} [] OTHER -> {position}

Status == { [position  |-> p,
             operating |-> IF gate.motion = "none" THEN "no" ELSE "yes",
             direction |-> IF gate.motion = "closing" THEN "closing" ELSE "opening"] :
            p \in Reported(gate.position) }

Moving(d) == [c \in Calls |-> IF Active(c) THEN moved[c] \cup {d} ELSE moved[c]]

\* The gate answers.  It acknowledges a movement also when it does not carry it
\* out, and its logical state may be that of the other end.
GateServes ==
  /\ requests # <<>>
  /\ requests' = Tail(requests)
  /\ LET r == Head(requests)
     IN  \/ /\ r = "RS"
            /\ \E f \in Status : answers' = Append(answers, [type |-> "rs", frame |-> f])
            /\ UNCHANGED <<gate, budget, moved>>
         \/ /\ r = "READ STATUS"
            /\ \E t \in Texts : answers' = Append(answers, [type |-> "text", text |-> t])
            /\ UNCHANGED <<gate, budget, moved>>
         \/ /\ r \in Motions
            /\ answers' = Append(answers, [type |-> "ack", command |-> r])
            /\ \/ gate.position # (IF MotionOf(r) = "opening" THEN 100 ELSE 0)
                  /\ gate' = [gate EXCEPT !.motion = MotionOf(r)]
                  /\ moved' = Moving(MotionOf(r))
               \/ UNCHANGED <<gate, moved>>
            /\ UNCHANGED budget
         \/ /\ Fault
            /\ answers' = Append(answers, [type |-> "nak"])
            /\ UNCHANGED <<gate, moved>>
  /\ UNCHANGED <<stage, lockVars, callVars, hub, connected, historyVars>>

\* The gate runs on, tells its percentage, and stops at the end or on the way.
GateRuns ==
  /\ gate.motion # "none"
  /\ LET p == CASE gate.motion = "opening" -> IF gate.position = 0 THEN 50 ELSE 100
                [] OTHER                   -> IF gate.position = 100 THEN 50 ELSE 0
     IN  \/ /\ gate' = [position |-> p, motion |-> IF p = 50 THEN gate.motion ELSE "none"]
            /\ \/ UNCHANGED answers
               \/ connected /\ answers' = Append(answers, [type |-> "live", position |-> p])
         \/ gate' = [gate EXCEPT !.motion = "none"] /\ UNCHANGED answers
  /\ UNCHANGED <<stage, lockVars, callVars, hub, connected, requests, budget,
                 moved, historyVars>>

RemoteControl ==
  /\ Spend("remote")
  /\ \E d \in Directions :
       /\ EndOf(gate.position) # d
       /\ gate' = [gate EXCEPT !.motion = d]
       /\ moved' = Moving(d)
  /\ UNCHANGED <<stage, lockVars, callVars, hub, netVars, historyVars>>

Lose ==
  /\ Fault
  /\ \/ requests # <<>> /\ requests' = Tail(requests) /\ UNCHANGED answers
     \/ answers # <<>> /\ answers' = Tail(answers) /\ UNCHANGED requests
  /\ UNCHANGED <<stage, lockVars, callVars, hub, connected, gate, moved, historyVars>>

Disconnect ==
  /\ Fault
  /\ connected /\ connected' = FALSE
  /\ requests' = <<>> /\ answers' = <<>>
  /\ answer' = IF holder # Nobody /\ answer = Pending THEN [type |-> "down"] ELSE answer
  /\ UNCHANGED <<stage, queue, holder, callVars, hub, gate, moved, historyVars>>

\* A new connection asks for RS at once.
Reconnect ==
  /\ ~connected /\ connected' = TRUE
  /\ stage[Hello] # "poll"
  /\ stage' = [stage EXCEPT ![Hello] = "poll"]
  /\ queue' = Append(queue, Hello)
  /\ UNCHANGED <<holder, answer, callVars, hub, requests, answers, envVars, moved, historyVars>>

Resume(c) == Decide(c) \/ EndProven(c) \/ Rearmed(c) \/ CommandAnswered(c) \/ Fallback(c)

Next ==
  \/ \E c \in Calls : Begin(c) \/ Resume(c) \/ Settled(c)
  \/ \E c \in Clients : Acquire(c)
  \/ Polled(Poller) \/ Polled(Hello)
  \/ Deliver \/ Timeout \/ MonitorRound \/ Poll
  \/ GateServes \/ GateRuns \/ RemoteControl \/ Lose \/ Disconnect \/ Reconnect

\* What is ready runs, what is late times out, and the gate answers what reaches it.
Fairness ==
  /\ WF_vars(GateServes)
  /\ WF_vars(\E c \in Clients : Acquire(c))
  /\ WF_vars(Deliver \/ Timeout)
  /\ \A c \in Calls : WF_vars(Resume(c) \/ Settled(c))
  /\ WF_vars(MonitorRound) /\ WF_vars(Polled(Poller)) /\ WF_vars(Polled(Hello))

SafetySpec == Init /\ [][Next]_vars
Spec == SafetySpec /\ Fairness

----------------------------------------------------------------------------
(***************************************************************************)
(* Properties                                                              *)
(***************************************************************************)

\* "Endpoint jitter such as 98/100 or 0/2 is never accepted as proof": a movement
\* that succeeds without its acknowledgement has seen the gate set in motion that
\* way since it began, provided the hub knew where the gate stood then.
ProofIsMotion ==
  [][ \A c \in informed :
        result[c] = "none" /\ result'[c] = "proved" => MotionOf(AskedFor[c]) \in moved[c] ]_vars

\* "A prior post-motion monitor must never delay or interleave the next intentional
\* movement transaction": it is gone while a call runs beside no other.
MonitorYields == \A c \in Calls : (Active(c) /\ c \notin overlapped) => stage[Monitor] = "idle"

\* Every movement ends and gives the lock back, whatever is lost or late.
MovementsEnd == \A c \in Calls : Active(c) ~> stage[c] = "done"

=============================================================================
