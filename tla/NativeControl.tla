--------------------------- MODULE NativeControl ---------------------------
(***************************************************************************)
(* Control over the native IOTC/RDT session: cover commands under the      *)
(* hub's transaction lock, movement tests and the status poller under the  *)
(* poller's refresh lock, and the settlement reads of an acknowledged STOP *)
(* under neither, all taking turns on the one session.                     *)
(*                                                                         *)
(* asyncio.Lock is fair, so a lock is a sequence whose head holds it.  An  *)
(* exchange ends, its locks are released and its result is applied without *)
(* an await in between: that is one step (the Returns actions).            *)
(***************************************************************************)
EXTENDS PhysicalGate, Sequences

CONSTANTS
  Calls,         \* the commands asked of the integration
  AskedFor,      \* what each call asks for
  Via,           \* "cover" (hub.async_open ...) or "test" (async_movement_test)
  Poller,        \* the poll loop
  Profile,       \* the controller profile with a native route
  SettleRounds,  \* reads that settle a STOP: 4 in the code
  Remote,        \* what the gate's own remote control may ask for
  MaxFaults      \* bound: status reads that fail

ASSUME CallsAssumption ==
  /\ AskedFor \in [Calls -> Commands]
  /\ Via \in [Calls -> {"cover", "test"}]
  /\ Poller \notin Calls
  /\ \A c \in Calls : Via[c] = "test" => AskedFor[c] # "PED OPEN"
ASSUME ProfileAssumption ==
  /\ Profile \in {"PS19001", "PS17062", "PS25142"}
  /\ Profile = "PS25142" => \A c \in Calls : AskedFor[c] # "PED OPEN"
ASSUME RemoteAssumption == Remote \subseteq Movements
ASSUME BoundsAssumption == SettleRounds \in Nat \ {0} /\ MaxFaults \in Nat

\* PS25142 is polled with RS, the others with READ STATUS.
ReadsRS == Profile = "PS25142"

Clients == Calls \cup {Poller}
Tests   == { c \in Calls : Via[c] = "test" }

VARIABLES
  gate,        \* the physical gate
  told,        \* the gate as the status frames of the controller tell it
  pc,          \* where each client is
  transaction, \* _transaction_lock: the cover command that holds it, then those waiting
  refresh,     \* _refresh_lock of the poller
  session,     \* the lock of the native session
  answer,      \* how the exchange of the session's holder went
  hub,         \* the shown State
  begun,       \* whether the motor was shown running when the transaction began
  opFresh,     \* an RS frame has shown a running motor since then
  stopGuard,   \* the 6 s window after an acknowledged STOP
  statusFresh, \* a native status was applied in the last 15 minutes
  rounds,      \* settlement reads a STOP has left
  result,      \* how each call ended
  steady,      \* history: a STOP was acknowledged, the gate stood still, and neither a
               \* motion was asked for nor the gate moved since
  faults       \* status reads that failed so far

lockVars    == <<transaction, refresh, session>>
shownVars   == <<hub, opFresh, stopGuard, statusFresh>>
gateVars    == <<gate, told>>
historyVars == <<steady, faults>>
vars == <<gateVars, pc, lockVars, answer, shownVars, begun, rounds, result, historyVars>>

Stages  == {"idle", "queued", "knocking", "asking", "resting", "reading", "done"}
Results == {"none", "acked", "confirmed", "rejected", "unanswered", "failed", "refused"}

\* ack and nak are the controller's; "lost" is a request known to be sent whose
\* answer did not come, "dead" a helper that broke down, perhaps after sending,
\* and "unsent" a session that could not carry the request.
Outcomes == {"none", "ack", "nak", "lost", "dead", "unsent", "frame", "nothing"}

Answers == [kind : Outcomes, frame : StatusFrame]

TypeOK ==
  /\ gate \in Gates /\ told \in Gates
  /\ pc \in [Clients -> Stages]
  /\ transaction \in Seq(Calls)
  /\ refresh \in Seq(Clients)
  /\ session \in Seq(Clients)
  /\ answer \in Answers
  /\ hub \in State
  /\ begun \in Operating
  /\ opFresh \in BOOLEAN /\ stopGuard \in BOOLEAN /\ statusFresh \in BOOLEAN
  /\ rounds \in [Calls -> 0..SettleRounds]
  /\ result \in [Calls -> Results]
  /\ steady \in BOOLEAN
  /\ faults \in 0..MaxFaults

Outcome(kind) == [kind |-> kind, frame |-> Malformed]
NoAnswer == Outcome("none")

Init ==
  /\ gate \in GatesAtRest
  /\ told = gate
  /\ pc = [c \in Clients |-> "idle"]
  /\ transaction = <<>> /\ refresh = <<>> /\ session = <<>>
  /\ answer = NoAnswer
  /\ hub = Unknown
  /\ begun = "unknown"
  /\ opFresh = FALSE /\ stopGuard = FALSE /\ statusFresh = FALSE
  /\ rounds = [c \in Calls |-> 0]
  /\ result = [c \in Calls |-> "none"]
  /\ steady = FALSE /\ faults = 0

----------------------------------------------------------------------------
(***************************************************************************)
(* The gate, its other controls, and a controller whose status lags        *)
(***************************************************************************)

RemoteControl(direction) ==
  /\ gate' = Steered(gate, direction)
  /\ gate' # gate
  /\ steady' = FALSE
  /\ UNCHANGED <<told, pc, lockVars, answer, shownVars, begun, rounds, result, faults>>

Travels ==
  /\ gate' \in Advanced(gate)
  /\ UNCHANGED <<told, pc, lockVars, answer, shownVars, begun, rounds, result, historyVars>>

Tells ==
  /\ told # gate
  /\ told' = gate
  /\ UNCHANGED <<gate, pc, lockVars, answer, shownVars, begun, rounds, result, historyVars>>

----------------------------------------------------------------------------
(***************************************************************************)
(* Asking                                                                  *)
(***************************************************************************)

\* A full motion on PS25142 ends the settlement window, before it waits.
Supersedes(c) == Profile = "PS25142" /\ AskedFor[c] \in {"FULL OPEN", "FULL CLOSE"}

\* The precondition of PED OPEN on PS17062, also before it waits.
ClosedAndStopped == hub.position = 0 /\ hub.operating = "no"
Allowed(c) == Profile = "PS17062" /\ AskedFor[c] = "PED OPEN" => statusFresh /\ ClosedAndStopped

AskCover(c) ==
  /\ c \notin Tests
  /\ pc[c] = "idle"
  /\ IF Allowed(c)
     THEN /\ pc' = [pc EXCEPT ![c] = "queued"]
          /\ transaction' = Append(transaction, c)
          /\ UNCHANGED result
     ELSE /\ pc' = [pc EXCEPT ![c] = "done"]
          /\ result' = [result EXCEPT ![c] = "refused"]
          /\ UNCHANGED transaction
  /\ stopGuard' = (stopGuard /\ ~Supersedes(c))
  /\ steady' = (steady /\ ~Supersedes(c))
  /\ UNCHANGED <<gateVars, refresh, session, answer, hub, opFresh, statusFresh, begun,
                 rounds, faults>>

\* A movement test and a round of the poll loop begin at the refresh lock.
Knock(c) ==
  /\ c \in Tests \cup {Poller}
  /\ pc[c] = "idle"
  /\ pc' = [pc EXCEPT ![c] = "knocking"]
  /\ refresh' = Append(refresh, c)
  /\ UNCHANGED <<gateVars, transaction, session, answer, shownVars, begun, rounds, result,
                 historyVars>>

----------------------------------------------------------------------------
(***************************************************************************)
(* Waiting for the locks                                                   *)
(***************************************************************************)

\* With the transaction lock in hand the caller notes what is shown and waits
\* for the session.
Acquire(c) ==
  /\ c \notin Tests
  /\ pc[c] = "queued"
  /\ transaction # <<>> /\ c = Head(transaction)
  /\ begun' = hub.operating
  /\ opFresh' = FALSE
  /\ pc' = [pc EXCEPT ![c] = "asking"]
  /\ session' = Append(session, c)
  /\ UNCHANGED <<gateVars, transaction, refresh, answer, hub, stopGuard, statusFresh,
                 rounds, result, historyVars>>

\* The preconditions of a movement test, checked with the refresh lock in hand.
FromOppositeEnd(cmd) ==
  CASE cmd = "FULL OPEN"  -> hub.position = 0 /\ hub.operating = "no"
    [] cmd = "FULL CLOSE" -> hub.position = 100 /\ hub.operating = "no"
    [] cmd = "STOP"       -> hub.operating = "yes"

TestAllowed(cmd) == statusFresh /\ FromOppositeEnd(cmd)

Enter(c) ==
  /\ c \in Tests \cup {Poller}
  /\ pc[c] = "knocking"
  /\ refresh # <<>> /\ c = Head(refresh)
  /\ IF c = Poller \/ TestAllowed(AskedFor[c])
     THEN /\ pc' = [pc EXCEPT ![c] = IF c = Poller THEN "reading" ELSE "asking"]
          /\ session' = Append(session, c)
          /\ UNCHANGED <<refresh, result>>
     ELSE /\ pc' = [pc EXCEPT ![c] = "done"]
          /\ result' = [result EXCEPT ![c] = "refused"]
          /\ refresh' = Tail(refresh)
          /\ UNCHANGED session
  /\ UNCHANGED <<gateVars, transaction, answer, shownVars, begun, rounds, historyVars>>

----------------------------------------------------------------------------
(***************************************************************************)
(* The exchange of the session's holder                                    *)
(***************************************************************************)

Serving(c, stage) == session # <<>> /\ c = Head(session) /\ pc[c] = stage /\ answer = NoAnswer

\* The command is carried out, or has no effect.
ServeCommand(c) ==
  /\ Serving(c, "asking")
  /\ \/ /\ \E kind \in {"ack", "lost", "dead"} : answer' = Outcome(kind)
        /\ gate' = Steered(gate, MotionOf(AskedFor[c]))
     \/ /\ \E kind \in {"nak", "lost", "dead", "unsent"} : answer' = Outcome(kind)
        /\ UNCHANGED gate
  /\ steady' = (steady /\ AskedFor[c] = "STOP")
  /\ UNCHANGED <<told, pc, lockVars, shownVars, begun, rounds, result, faults>>

ServeRead(c) ==
  /\ Serving(c, "reading")
  /\ \/ /\ answer' = [kind |-> "frame", frame |-> Snapshot(told)]
        /\ UNCHANGED faults
     \/ /\ faults < MaxFaults
        /\ answer' = Outcome("nothing")
        /\ faults' = faults + 1
  /\ UNCHANGED <<gateVars, pc, lockVars, shownVars, begun, rounds, result, steady>>

Answered(c, stage) == session # <<>> /\ c = Head(session) /\ pc[c] = stage /\ answer # NoAnswer

----------------------------------------------------------------------------
(***************************************************************************)
(* Cover commands                                                          *)
(***************************************************************************)

\* Every native failure is reported as a timeout, so each one looks for motion;
\* without a live topic only an RS frame can show it.
MotionConfirms(cmd) ==
  /\ cmd \in Motions
  /\ begun # "yes"
  /\ opFresh /\ hub.operating = "yes" /\ hub.movement = MotionOf(cmd)

Verdict(c) == CASE answer.kind = "ack" -> "acked"
                [] answer.kind = "nak" -> "rejected"
                [] answer.kind \notin {"ack", "nak"} /\ MotionConfirms(AskedFor[c]) -> "confirmed"
                [] OTHER -> "failed"

Settles(c) == Profile = "PS25142" /\ AskedFor[c] = "STOP"

\* A faulty TransactionAfter: the lock is only given back when the command succeeded.
TransactionAfterSuccess(c) ==
  IF Verdict(c) \in {"acked", "confirmed"} THEN Tail(transaction) ELSE transaction

\* The lock goes to the next in line however the exchange ended.
TransactionAfter(c) == Tail(transaction)

CoverReturns(c) ==
  /\ Answered(c, "asking")
  /\ c \notin Tests
  /\ result' = [result EXCEPT ![c] = Verdict(c)]
  /\ hub' = CASE Verdict(c) = "acked"     -> AfterAck(hub, AskedFor[c])
              [] Verdict(c) = "confirmed" -> AfterMotionProof(hub, AskedFor[c])
              [] OTHER                    -> hub
  /\ IF Verdict(c) = "acked" /\ Settles(c)
     THEN /\ stopGuard' = TRUE
          /\ steady' = (gate.motion = "none")
          /\ rounds' = [rounds EXCEPT ![c] = SettleRounds]
          /\ pc' = [pc EXCEPT ![c] = "resting"]
     ELSE /\ pc' = [pc EXCEPT ![c] = "done"]
          /\ UNCHANGED <<stopGuard, steady, rounds>>
  /\ transaction' = TransactionAfter(c)
  /\ session' = Tail(session)
  /\ answer' = NoAnswer
  /\ UNCHANGED <<gateVars, refresh, opFresh, statusFresh, begun, faults>>

\* The delay before a settlement read, or before the read of a movement test.
Rest(c) ==
  /\ pc[c] = "resting"
  /\ pc' = [pc EXCEPT ![c] = "reading"]
  /\ session' = Append(session, c)
  /\ UNCHANGED <<gateVars, transaction, refresh, answer, shownVars, begun, rounds, result,
                 historyVars>>

----------------------------------------------------------------------------
(***************************************************************************)
(* Status frames                                                           *)
(***************************************************************************)

\* A faulty Stale: the settlement window is not looked at.
StaleNever(f) == FALSE

\* A moving RS frame inside the settlement window.
Stale(f) == ReadsRS /\ stopGuard /\ f.operating = "yes"

\* apply_ouranos_status_response: a stale frame counts as contact with the gate
\* and as nothing else.
StatusApplied ==
  LET f == answer.frame
  IN  CASE answer.kind # "frame" -> UNCHANGED shownVars
        [] answer.kind = "frame" /\ Stale(f) ->
             statusFresh' = TRUE /\ UNCHANGED <<hub, opFresh, stopGuard>>
        [] OTHER ->
             /\ hub' = ApplyNative(hub, f)
             /\ stopGuard' = (stopGuard /\ ~(ReadsRS /\ f.operating = "no"))
             /\ opFresh' = (opFresh \/ (ReadsRS /\ f.operating = "yes"))
             /\ statusFresh' = TRUE

PollReturns ==
  /\ Answered(Poller, "reading")
  /\ StatusApplied
  /\ pc' = [pc EXCEPT ![Poller] = "idle"]
  /\ refresh' = Tail(refresh)
  /\ session' = Tail(session)
  /\ answer' = NoAnswer
  /\ UNCHANGED <<gateVars, transaction, begun, rounds, result, historyVars>>

\* A faulty LastRound: one settlement read too many.
LastRoundLate(c) == rounds[c] = 0

LastRound(c) == rounds[c] = 1

\* A settlement read ends the settlement if the gate stands still, and is
\* otherwise not applied.
SettlementReturns(c) ==
  /\ Answered(c, "reading")
  /\ c \notin Tests
  /\ IF answer.frame.operating = "no"
     THEN /\ StatusApplied
          /\ pc' = [pc EXCEPT ![c] = "done"]
          /\ UNCHANGED rounds
     ELSE /\ rounds' = [rounds EXCEPT ![c] = @ - 1]
          /\ pc' = [pc EXCEPT ![c] = IF LastRound(c) THEN "done" ELSE "resting"]
          /\ UNCHANGED shownVars
  /\ session' = Tail(session)
  /\ answer' = NoAnswer
  /\ UNCHANGED <<gateVars, transaction, refresh, begun, result, historyVars>>

----------------------------------------------------------------------------
(***************************************************************************)
(* Movement tests                                                          *)
(***************************************************************************)

\* A faulty RefreshAfterTest: the lock is given back before the test's read.
RefreshAfterTestEarly == Tail(refresh)

\* A command that was not sent is not followed by a read and ends the test.
Followed == answer.kind \in {"ack", "nak", "lost"}
RefreshAfterTest == IF Followed THEN refresh ELSE Tail(refresh)

\* What a test takes for a confirmation when there was no acknowledgement.
Confirmed(s, cmd) == IF cmd = "STOP" THEN s.operating = "no"
                     ELSE s.operating = "yes" /\ s.movement = MotionOf(cmd)

TestReturns(c) ==
  /\ Answered(c, "asking")
  /\ c \in Tests
  /\ LET stopped == AskedFor[c] = "STOP" /\ answer.kind = "ack"
     IN  IF stopped
         THEN /\ hub' = [hub EXCEPT !.operating = "no", !.movement = "none"]
              /\ stopGuard' = TRUE
              /\ steady' = (ReadsRS /\ gate.motion = "none")
         ELSE UNCHANGED <<hub, stopGuard, steady>>
  /\ IF Followed
     THEN /\ pc' = [pc EXCEPT ![c] = "resting"]
          /\ result' = [result EXCEPT ![c] = CASE answer.kind = "ack" -> "acked"
                                               [] answer.kind = "nak" -> "rejected"
                                               [] OTHER               -> "unanswered"]
     ELSE /\ pc' = [pc EXCEPT ![c] = "done"]
          /\ result' = [result EXCEPT ![c] =
                          IF Confirmed(hub, AskedFor[c]) THEN "confirmed" ELSE "failed"]
  /\ refresh' = RefreshAfterTest
  /\ session' = Tail(session)
  /\ answer' = NoAnswer
  /\ UNCHANGED <<gateVars, transaction, opFresh, statusFresh, begun, rounds, faults>>

TestEnds(c) ==
  /\ Answered(c, "reading")
  /\ c \in Tests
  /\ StatusApplied
  /\ pc' = [pc EXCEPT ![c] = "done"]
  /\ result' = [result EXCEPT ![c] =
                  IF @ = "unanswered" /\ Confirmed(hub', AskedFor[c]) THEN "confirmed" ELSE @]
  /\ refresh' = Tail(refresh)
  /\ session' = Tail(session)
  /\ answer' = NoAnswer
  /\ UNCHANGED <<gateVars, transaction, begun, rounds, historyVars>>

----------------------------------------------------------------------------
(***************************************************************************)
(* Timers and the specification                                            *)
(***************************************************************************)

\* 6 s after the STOP was acknowledged.
GuardEnds ==
  /\ stopGuard
  /\ stopGuard' = FALSE
  /\ steady' = FALSE
  /\ UNCHANGED <<gateVars, pc, lockVars, answer, hub, opFresh, statusFresh, begun, rounds,
                 result, faults>>

\* 15 minutes without a status.
StatusAges ==
  /\ statusFresh
  /\ statusFresh' = FALSE
  /\ UNCHANGED <<gateVars, pc, lockVars, answer, hub, opFresh, stopGuard, begun, rounds,
                 result, historyVars>>

Steps(c) == \/ Acquire(c)
            \/ ServeCommand(c)
            \/ CoverReturns(c)
            \/ Rest(c)
            \/ SettlementReturns(c)
            \/ TestReturns(c)
            \/ TestEnds(c)

Next ==
  \/ \E direction \in Remote : RemoteControl(direction)
  \/ Travels
  \/ Tells
  \/ \E c \in Calls : AskCover(c) \/ Steps(c)
  \/ \E c \in Clients : Knock(c) \/ Enter(c) \/ ServeRead(c)
  \/ PollReturns
  \/ GuardEnds
  \/ StatusAges

\* The poll loop goes on for ever, whatever its reads return; every exchange
\* has a timeout, every sleep ends, and the locks are fair.  The controller
\* ends up telling the truth.  Nothing is assumed of the callers, of the gate's
\* motion and of the remote control.
Fairness ==
  /\ WF_vars(Tells)
  /\ WF_vars(Knock(Poller))
  /\ WF_vars(PollReturns)
  /\ \A c \in Clients : WF_vars(Enter(c)) /\ WF_vars(ServeRead(c))
  /\ \A c \in Calls : WF_vars(Steps(c))
  /\ WF_vars(GuardEnds)

SafetySpec == Init /\ [][Next]_vars
Spec == SafetySpec /\ Fairness

----------------------------------------------------------------------------
(***************************************************************************)
(* Properties                                                              *)
(***************************************************************************)

\* The transaction lock is held by the cover command that is at the session; the
\* refresh lock by the movement test, from its command to the read after it, or
\* by the poll under way; an answer is always that of the session's holder.
LocksHeld ==
  /\ \A c \in Calls \ Tests :
       pc[c] = "asking" => transaction # <<>> /\ c = Head(transaction)
  /\ \A c \in Tests \cup {Poller} :
       pc[c] \in {"asking", "resting", "reading"} => refresh # <<>> /\ c = Head(refresh)
  /\ answer # NoAnswer =>
       session # <<>> /\ pc[Head(session)] \in {"asking", "reading"}

\* Until its settlement window ends, an acknowledged STOP is not shown as moving
\* again, whatever stale frames the poller, the settlement reads and movement
\* tests bring and in whatever order, unless the gate was moved or a motion was
\* asked for since.
StopHeld == steady => hub.movement = "none"

\* Nobody waits for ever for one of the three locks: a call that was made comes
\* back, and the poll loop keeps reading, whatever fails.
EveryoneTurns == /\ \A c \in Calls : pc[c] # "idle" ~> pc[c] = "done"
                 /\ []<>(pc[Poller] = "reading")

\* When the gate comes to rest for good, the polled status comes to be shown for
\* good: neither a status that lagged behind the gate or behind a command, nor
\* one that the settlement window kept out, nor what was assumed after a command
\* leaves the display wrong for ever.
Convergence == <>[](gate.motion = "none") => <>[]Shows(hub, gate)

=============================================================================
